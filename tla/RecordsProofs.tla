---------------------------- MODULE RecordsProofs ---------------------------
(***************************************************************************)
(* The records of MCRecords stay true for every set of sailors, trainings, *)
(* options and names, every channel a training may be in, and every bound; *)
(* and the figures of MCAnalytics are those of the records they are drawn  *)
(* from, for every set of sailors, days, messages and roles.               *)
(*                                                                         *)
(* Each desk has an inductive invariant of its own: TrainingInv, RepInv    *)
(* and StaffInv.  The composition keeps all of them.  So has each kind of  *)
(* figures: FiguresInv, PingsInv, SizesInv and WatchInv.                   *)
(***************************************************************************)
EXTENDS MCRecords, SumLemmas, SequenceTheorems

-----------------------------------------------------------------------------
(***************************************************************************)
(* Training records (TrainingRecords): types, and who may still come back. *)
(***************************************************************************)

\* A message whose deletion is under way and has not reached its row.
BeingDropped ==
    IF trainingCall.op = "delete" /\ trainingCall.at = "row" THEN {trainingCall.log} ELSE {}

\* What a call is about: a save has no row yet and is of no deleted message
\* but a missed one, a deletion has the row and is of a deleted message.
CallSound ==
    LET c == trainingCall
    IN /\ c.op = "none" => c = NoTraining
       /\ c.op = "save" /\ c.at = "row" =>
            c.log \notin trainings /\ (c.log \in erased => c.log \in missed)
       /\ c.op = "delete" => c.log \in erased
       /\ c.op = "delete" /\ c.at = "row" => c.log \in trainings

GhostsMissed ==
    /\ trainings \intersect erased \subseteq missed \union BeingDropped
    /\ \A r \in Reader : page[r] \intersect erased \subseteq missed

\* Between its two commits a call owes the trainee a point, or is owed one.
Owed(s, f) ==
    IF /\ trainingCall.op # "none" /\ trainingCall.at = "points"
       /\ Trainee[trainingCall.log] = s
       /\ f \in FieldsOf(RecordsChannel[trainingCall.log])
    THEN IF trainingCall.op = "save" THEN 1 ELSE -1
    ELSE 0

Drift(s, f) ==
    /\ trainingPoints[s][f] + Owed(s, f) <= Cardinality(TrainingsOf(s, f)) + trainingFaults
    /\ Cardinality(TrainingsOf(s, f)) <= trainingPoints[s][f] + Owed(s, f) + trainingFaults

DriftInv == \A s \in Trainer, f \in Field : Drift(s, f)

TrainingInv == TrainingTypeOK /\ CallSound /\ GhostsMissed /\ DriftInv

LEMMA TrainingNumbers ==
    /\ MaxTraining \in Nat /\ MaxFaults \in Nat
    /\ \A l \in Training : Trainee[l] \in Trainer
    /\ \A l \in Training : FieldsOf(RecordsChannel[l]) \subseteq Field
BY TrainingAssumption DEF FieldsOf, Field

LEMMA CallForms ==
    ASSUME TrainingTypeOK
    PROVE  /\ trainingCall.op \in {"none", "save", "delete"} /\ trainingCall.at \in {"row", "points"}
           /\ trainingCall.op = "none" => trainingCall = NoTraining
           /\ trainingCall.op # "none" =>
                trainingCall.log \in Training
                /\ trainingCall \in [op : {"save", "delete"}, log : Training, at : {"row", "points"}]
           /\ NoTraining.op = "none"
           /\ Quiet <=> trainingCall.op = "none"
BY DEF TrainingTypeOK, TrainingCalls, NoTraining, Quiet

LEMMA TrainingsCounted ==
    ASSUME TrainingTypeOK, NEW s, NEW f
    PROVE  /\ TrainingsOf(s, f) \subseteq Training
           /\ IsFiniteSet(TrainingsOf(s, f)) /\ Cardinality(TrainingsOf(s, f)) \in Nat
<1>1. IsFiniteSet(Training)
    BY FS_Interval, TrainingNumbers DEF Training
<1>2. TrainingsOf(s, f) \subseteq Training
    BY DEF TrainingsOf, TrainingTypeOK
<1> QED
    BY <1>1, <1>2, FS_Subset, FS_CardinalityType

LEMMA AdjustedTypes ==
    ASSUME TrainingTypeOK, NEW l \in Training, NEW delta \in {1, -1}
    PROVE  /\ Adjusted(l, delta) \in [Trainer -> [Field -> Nat]]
           /\ \A s \in Trainer, f \in Field :
                Adjusted(l, delta)[s][f] =
                    IF s = Trainee[l] /\ f \in FieldsOf(RecordsChannel[l])
                       /\ trainingPoints[s][f] + delta >= 0
                    THEN trainingPoints[s][f] + delta ELSE trainingPoints[s][f]
<1> DEFINE row == [f \in Field |->
                      IF /\ f \in FieldsOf(RecordsChannel[l])
                         /\ trainingPoints[Trainee[l]][f] + delta >= 0
                      THEN trainingPoints[Trainee[l]][f] + delta
                      ELSE trainingPoints[Trainee[l]][f]]
<1>1. trainingPoints \in [Trainer -> [Field -> Nat]] /\ Trainee[l] \in Trainer
    BY TrainingNumbers DEF TrainingTypeOK
<1>2. row \in [Field -> Nat]
    <2> SUFFICES ASSUME NEW f \in Field
                 PROVE  row[f] \in Nat
        OBVIOUS
    <2>1. trainingPoints[Trainee[l]][f] \in Nat
        BY <1>1
    <2> QED
        BY <2>1
<1>3. Adjusted(l, delta) = [trainingPoints EXCEPT ![Trainee[l]] = row]
    BY DEF Adjusted
<1>4. \A f \in Field : row[f] =
        IF /\ f \in FieldsOf(RecordsChannel[l])
           /\ trainingPoints[Trainee[l]][f] + delta >= 0
        THEN trainingPoints[Trainee[l]][f] + delta ELSE trainingPoints[Trainee[l]][f]
    OBVIOUS
<1> HIDE DEF row
<1>5. Adjusted(l, delta) \in [Trainer -> [Field -> Nat]]
    BY <1>1, <1>2, <1>3
<1>6. ASSUME NEW s \in Trainer, NEW f \in Field
      PROVE  Adjusted(l, delta)[s][f] =
                IF s = Trainee[l] /\ f \in FieldsOf(RecordsChannel[l])
                   /\ trainingPoints[s][f] + delta >= 0
                THEN trainingPoints[s][f] + delta ELSE trainingPoints[s][f]
    <2>1. CASE s = Trainee[l]
        <3>1. Adjusted(l, delta)[s] = row
            BY <1>1, <1>3, <2>1
        <3> QED
            BY <1>4, <2>1, <3>1
    <2>2. CASE s # Trainee[l]
        <3>1. Adjusted(l, delta)[s] = trainingPoints[s]
            BY <1>1, <1>3, <2>2
        <3> QED
            BY <2>2, <3>1
    <2> QED
        BY <2>1, <2>2
<1> QED
    BY <1>5, <1>6

-----------------------------------------------------------------------------
\* Types, calls and ghosts.
LEMMA TrainingInitially == TrainingInit => TrainingInv
<1> SUFFICES ASSUME TrainingInit
             PROVE  TrainingInv
    OBVIOUS
<1>1. TrainingTypeOK
    BY TrainingNumbers DEF TrainingInit, TrainingTypeOK, TrainingCalls
<1>2. CallSound /\ GhostsMissed
    BY DEF TrainingInit, CallSound, GhostsMissed, NoTraining
<1>3. DriftInv
    <2> SUFFICES ASSUME NEW s \in Trainer, NEW f \in Field
                 PROVE  Drift(s, f)
        BY DEF DriftInv
    <2>1. TrainingsOf(s, f) = {} /\ trainingPoints[s][f] = 0 /\ Owed(s, f) = 0 /\ trainingFaults = 0
        BY DEF TrainingInit, TrainingsOf, Owed, NoTraining
    <2> QED
        BY <2>1, FS_EmptySet DEF Drift
<1> QED
    BY <1>1, <1>2, <1>3 DEF TrainingInv

\* Steps of users, of the process and of the command, which commit nothing.
CallsUntouched == UNCHANGED <<trainings, trainingPoints, trainingFaults>>

LEMMA PostTyped ==
    ASSUME TrainingInv, PostTraining
    PROVE  TrainingTypeOK' /\ CallSound' /\ GhostsMissed'
<1>1. TrainingTypeOK /\ CallSound /\ GhostsMissed /\ Quiet /\ written \in 0..MaxTraining
    BY DEF TrainingInv, PostTraining, TrainingTypeOK
<1>2. written' = written + 1 /\ written' \in Training /\ written' \in 0..MaxTraining
    BY <1>1, TrainingNumbers DEF PostTraining, Training
<1>3. 1..written \subseteq 1..written' /\ written' \notin 1..written
    BY <1>1, <1>2
<1>4. written' \notin erased
    BY <1>1, <1>3 DEF TrainingTypeOK
<1>5. \/ trainingCall' = trainingCall
      \/ trainingCall' = [op |-> "save", log |-> written', at |-> "row"] /\ written' \notin trainings
    BY <1>2 DEF PostTraining, CallSave, ToStore
<1>6. /\ trainings' = trainings /\ erased' = erased /\ page' = page /\ missed' = missed
      /\ UNCHANGED <<trainingPoints, listening, begun, trainingFaults>>
    BY DEF PostTraining
<1>7. TrainingTypeOK'
    BY <1>1, <1>2, <1>3, <1>5, <1>6 DEF TrainingTypeOK, TrainingCalls
<1>8. CallSound'
    BY <1>1, <1>4, <1>5, <1>6 DEF CallSound
<1>9. GhostsMissed'
    BY <1>1, <1>5, <1>6 DEF GhostsMissed, BeingDropped, Quiet, NoTraining
<1> QED
    BY <1>7, <1>8, <1>9

LEMMA DeleteTyped ==
    ASSUME TrainingInv, NEW l \in Training, DeleteTraining(l)
    PROVE  TrainingTypeOK' /\ CallSound' /\ GhostsMissed'
<1>1. TrainingTypeOK /\ CallSound /\ GhostsMissed /\ Quiet
    BY DEF TrainingInv, DeleteTraining
<1>2. /\ erased' = erased \union {l} /\ l \in 1..written
      /\ missed' = IF ~listening \/ \E r \in Reader : l \in page[r] THEN missed \union {l} ELSE missed
      /\ trainingCall' = IF listening /\ l \in trainings
                         THEN [op |-> "delete", log |-> l, at |-> "row"] ELSE NoTraining
      /\ UNCHANGED <<trainings, trainingPoints, written, listening, page, begun, trainingFaults>>
    BY DEF DeleteTraining
<1>3. TrainingTypeOK'
    BY <1>1, <1>2 DEF TrainingTypeOK, TrainingCalls
<1>4. CallSound'
    BY <1>1, <1>2 DEF CallSound, NoTraining
<1>5. GhostsMissed'
    BY <1>1, <1>2 DEF GhostsMissed, BeingDropped, Quiet, NoTraining
<1> QED
    BY <1>3, <1>4, <1>5

LEMMA CommitTyped ==
    ASSUME TrainingInv, CommitRow \/ CommitPoints
    PROVE  TrainingTypeOK' /\ CallSound' /\ GhostsMissed'
<1>1. TrainingTypeOK /\ CallSound /\ GhostsMissed /\ trainingCall.op # "none"
    BY DEF TrainingInv, CommitRow, CommitPoints
<1>2. /\ trainingCall.op \in {"save", "delete"} /\ trainingCall.log \in Training
      /\ trainingCall \in [op : {"save", "delete"}, log : Training, at : {"row", "points"}]
    BY <1>1, CallForms
<1>3. CASE CommitRow
    <2>1. /\ trainings' = IF trainingCall.op = "save" THEN trainings \union {trainingCall.log}
                          ELSE trainings \ {trainingCall.log}
          /\ trainingCall' = [trainingCall EXCEPT !.at = "points"] /\ trainingCall.at = "row"
          /\ UNCHANGED <<trainingPoints, written, erased, listening, page, missed, begun,
                         trainingFaults>>
        BY <1>3 DEF CommitRow
    <2>2. /\ trainingCall' \in [op : {"save", "delete"}, log : Training, at : {"row", "points"}]
          /\ trainingCall'.op = trainingCall.op /\ trainingCall'.log = trainingCall.log
          /\ trainingCall'.at = "points"
        BY <1>2, <2>1
    <2>3. TrainingTypeOK'
        BY <1>1, <1>2, <2>1, <2>2 DEF TrainingTypeOK, TrainingCalls
    <2>4. CallSound'
        BY <1>1, <1>2, <2>1, <2>2 DEF CallSound
    <2>5. GhostsMissed'
        BY <1>1, <1>2, <2>1, <2>2 DEF GhostsMissed, BeingDropped, CallSound
    <2> QED
        BY <2>3, <2>4, <2>5
<1>4. CASE CommitPoints
    <2>1. /\ trainingPoints' = Adjusted(trainingCall.log, IF trainingCall.op = "save" THEN 1 ELSE -1)
          /\ trainingCall' = NoTraining /\ trainingCall.at = "points"
          /\ UNCHANGED <<trainings, written, erased, listening, page, missed, begun,
                         trainingFaults>>
        BY <1>4 DEF CommitPoints
    <2>2. trainingPoints' \in [Trainer -> [Field -> Nat]]
        BY <1>1, <1>2, <2>1, AdjustedTypes
    <2>3. TrainingTypeOK'
        BY <1>1, <2>1, <2>2 DEF TrainingTypeOK, TrainingCalls
    <2>4. CallSound'
        BY <2>1 DEF CallSound, NoTraining
    <2>5. GhostsMissed'
        BY <1>1, <2>1 DEF GhostsMissed, BeingDropped, NoTraining
    <2> QED
        BY <2>3, <2>4, <2>5
<1> QED
    BY <1>3, <1>4

LEMMA FaultTyped ==
    ASSUME TrainingInv, TrainingFails \/ TrainingCrash
    PROVE  TrainingTypeOK' /\ CallSound' /\ GhostsMissed'
<1>1. TrainingTypeOK /\ CallSound /\ GhostsMissed
    BY DEF TrainingInv
<1>2. /\ trainingCall' = NoTraining /\ trainingFaults' = trainingFaults + 1
      /\ trainingFaults < MaxFaults
      /\ missed' = IF trainingCall.op = "delete" /\ trainingCall.at = "row"
                   THEN missed \union {trainingCall.log} ELSE missed
      /\ page' \in {page, [r \in Reader |-> {}]} /\ listening' \in BOOLEAN
      /\ UNCHANGED <<trainings, trainingPoints, written, erased, begun>>
    BY <1>1 DEF TrainingFails, TrainingCrash, TrainingTypeOK
<1>3. trainingFaults' \in 0..MaxFaults
    BY <1>1, <1>2, TrainingNumbers DEF TrainingTypeOK
<1>4. TrainingTypeOK'
    <2>1. missed' \subseteq erased
        BY <1>1, <1>2 DEF TrainingTypeOK, CallSound
    <2> QED
        BY <1>1, <1>2, <1>3, <2>1 DEF TrainingTypeOK, TrainingCalls
<1>5. CallSound'
    BY <1>2 DEF CallSound, NoTraining
<1>6. GhostsMissed'
    BY <1>1, <1>2 DEF GhostsMissed, BeingDropped, NoTraining
<1> QED
    BY <1>4, <1>5, <1>6

LEMMA ReadingTyped ==
    ASSUME TrainingInv,
           \/ TrainingRestart
           \/ \E r \in Reader :
                \/ \E chosen \in SUBSET {"nrc", "netc", "st"} : Populate(r, chosen)
                \/ ReadChannel(r) \/ ReadMessage(r)
    PROVE  TrainingTypeOK' /\ CallSound' /\ GhostsMissed'
<1>1. TrainingTypeOK /\ CallSound /\ GhostsMissed
    BY DEF TrainingInv
<1>2. ASSUME UNCHANGED <<trainings, trainingPoints, written, erased, trainingCall, missed,
                         trainingFaults>>,
             listening' \in BOOLEAN, begun' \in SUBSET Reader, page' \in [Reader -> SUBSET (1..written)],
             \A r \in Reader : page'[r] \intersect erased \subseteq missed
      PROVE  TrainingTypeOK' /\ CallSound' /\ GhostsMissed'
    BY <1>1, <1>2 DEF TrainingTypeOK, CallSound, GhostsMissed, BeingDropped
<1>3. CASE TrainingRestart
    BY <1>1, <1>2, <1>3 DEF TrainingRestart, TrainingTypeOK, GhostsMissed
<1>4. ASSUME NEW r \in Reader, NEW chosen, Populate(r, chosen)
      PROVE  TrainingTypeOK' /\ CallSound' /\ GhostsMissed'
    BY <1>1, <1>2, <1>4 DEF Populate, TrainingTypeOK, GhostsMissed
\* A page of which one use has read some, or a new one, of messages there.
<1>7. ASSUME NEW r \in Reader, NEW left \in SUBSET (1..written), left \intersect erased \subseteq missed,
             page' = [page EXCEPT ![r] = left]
      PROVE  /\ page' \in [Reader -> SUBSET (1..written)]
             /\ \A q \in Reader : page'[q] \intersect erased \subseteq missed
    <2>1. page \in [Reader -> SUBSET (1..written)] /\ \A q \in Reader : page[q] \intersect erased \subseteq missed
        BY <1>1 DEF TrainingTypeOK, GhostsMissed
    <2>2. \A q \in Reader : page'[q] = IF q = r THEN left ELSE page[q]
        BY <1>7, <2>1
    <2> QED
        BY <1>7, <2>1, <2>2
<1>5. ASSUME NEW r \in Reader, ReadChannel(r)
      PROVE  TrainingTypeOK' /\ CallSound' /\ GhostsMissed'
    <2>1. PICK left \in SUBSET ((1..written) \ erased) : page' = [page EXCEPT ![r] = left]
        BY <1>5 DEF ReadChannel
    <2>2. left \in SUBSET (1..written) /\ left \intersect erased \subseteq missed
        BY <2>1
    <2>3. page' \in [Reader -> SUBSET (1..written)] /\ \A q \in Reader : page'[q] \intersect erased \subseteq missed
        BY <1>7, <2>1, <2>2
    <2> QED
        BY <1>1, <1>2, <1>5, <2>3 DEF ReadChannel, TrainingTypeOK
<1>6. ASSUME NEW r \in Reader, ReadMessage(r)
      PROVE  TrainingTypeOK' /\ CallSound' /\ GhostsMissed'
    <2>0. page \in [Reader -> SUBSET (1..written)] /\ page[r] \subseteq 1..written /\ page[r] \intersect erased \subseteq missed
        BY <1>1 DEF TrainingTypeOK, GhostsMissed
    <2>1. CASE {l \in page[r] : ToStore(l)} = {}
        <3>1. page' = [page EXCEPT ![r] = {}] /\ UNCHANGED trainingCall
            BY <1>6, <2>1 DEF ReadMessage
        <3>2. page' \in [Reader -> SUBSET (1..written)] /\ \A q \in Reader : page'[q] \intersect erased \subseteq missed
            BY <1>7, <3>1
        <3> QED
            BY <1>1, <1>2, <1>6, <3>1, <3>2 DEF ReadMessage, TrainingTypeOK
    <2>2. CASE {l \in page[r] : ToStore(l)} # {}
        <3>1. PICK l \in page[r] : /\ l \notin trainings
                                   /\ page' = [page EXCEPT ![r] = {k \in page[r] : k < l}]
                                   /\ trainingCall' = [op |-> "save", log |-> l, at |-> "row"]
            BY <1>6, <2>2 DEF ReadMessage, CallSave, ToStore
        <3>2. UNCHANGED <<trainings, trainingPoints, written, erased, listening, missed,
                          begun, trainingFaults>>
            BY <1>6 DEF ReadMessage
        <3>3. l \in Training
            BY <1>1, <2>0, <3>1, TrainingNumbers DEF TrainingTypeOK, Training
        <3>7. page' \in [Reader -> SUBSET (1..written)] /\ \A q \in Reader : page'[q] \intersect erased \subseteq missed
            <4> DEFINE left == {k \in page[r] : k < l}
            <4>1. left \in SUBSET (1..written) /\ left \intersect erased \subseteq missed
                BY <2>0
            <4> QED
                BY <1>7, <3>1, <4>1
        <3>4. TrainingTypeOK'
            BY <1>1, <3>1, <3>2, <3>3, <3>7 DEF TrainingTypeOK, TrainingCalls
        <3>5. CallSound'
            BY <1>1, <2>0, <3>1, <3>2 DEF CallSound, GhostsMissed
        <3>6. GhostsMissed'
            <4>1. trainings \intersect erased \subseteq missed
                BY <1>1, <1>6 DEF ReadMessage, GhostsMissed, BeingDropped, Quiet, NoTraining
            <4> QED
                BY <3>1, <3>2, <3>7, <4>1 DEF GhostsMissed, BeingDropped
        <3> QED
            BY <3>4, <3>5, <3>6
    <2> QED
        BY <2>1, <2>2
<1> QED
    BY <1>3, <1>4, <1>5, <1>6

-----------------------------------------------------------------------------
\* Points and rows.
LEMMA DriftTypes ==
    ASSUME TrainingInv, NEW s \in Trainer, NEW f \in Field
    PROVE  /\ trainingPoints[s][f] \in Nat /\ Cardinality(TrainingsOf(s, f)) \in Nat
           /\ trainingFaults \in Nat /\ Owed(s, f) \in {-1, 0, 1} /\ Drift(s, f)
<1>1. TrainingTypeOK /\ Drift(s, f)
    BY DEF TrainingInv, DriftInv
<1>2. Owed(s, f) \in {-1, 0, 1}
    BY DEF Owed
<1>3. trainingPoints[s][f] \in Nat /\ trainingFaults \in Nat
    BY <1>1, TrainingNumbers DEF TrainingTypeOK
<1> QED
    BY <1>1, <1>2, <1>3, TrainingsCounted

\* Steps without a commit or a fault leave nothing owed that was not.
LEMMA DriftUntouched ==
    ASSUME TrainingInv, trainings' = trainings, trainingPoints' = trainingPoints,
           trainingFaults' = trainingFaults,
           trainingCall' = trainingCall \/ (Quiet /\ trainingCall'.at = "row")
    PROVE  DriftInv'
<1> SUFFICES ASSUME NEW s \in Trainer, NEW f \in Field
             PROVE  Drift(s, f)'
    BY DEF DriftInv
<1>1. TrainingsOf(s, f)' = TrainingsOf(s, f)
    BY DEF TrainingsOf
<1>2. Owed(s, f)' = Owed(s, f)
    BY DEF Owed, Quiet, NoTraining
<1> QED
    BY <1>1, <1>2, DriftTypes DEF Drift

LEMMA RowDrift ==
    ASSUME TrainingInv, CommitRow
    PROVE  DriftInv'
<1> SUFFICES ASSUME NEW s \in Trainer, NEW f \in Field
             PROVE  Drift(s, f)'
    BY DEF DriftInv
<1> DEFINE c == trainingCall
           of == Trainee[c.log] = s /\ f \in FieldsOf(RecordsChannel[c.log])
<1>1. /\ TrainingTypeOK /\ CallSound /\ c.op # "none" /\ c.at = "row"
      /\ trainings' = IF c.op = "save" THEN trainings \union {c.log} ELSE trainings \ {c.log}
      /\ trainingCall' = [c EXCEPT !.at = "points"]
      /\ trainingPoints' = trainingPoints /\ trainingFaults' = trainingFaults
    BY DEF TrainingInv, CommitRow
<1>2. /\ c.op \in {"save", "delete"} /\ c.log \in Training
      /\ c \in [op : {"save", "delete"}, log : Training, at : {"row", "points"}]
    BY <1>1, CallForms
<1>3. trainingCall'.op = c.op /\ trainingCall'.log = c.log /\ trainingCall'.at = "points"
    BY <1>1, <1>2
<1>4. Owed(s, f) = 0
    BY <1>1 DEF Owed
<1>5. IsFiniteSet(TrainingsOf(s, f))
    BY <1>1, TrainingsCounted
<1>6. CASE ~of
    <2>1. TrainingsOf(s, f)' = TrainingsOf(s, f)
        BY <1>1, <1>2, <1>6 DEF TrainingsOf
    <2>2. Owed(s, f)' = 0
        BY <1>3, <1>6 DEF Owed
    <2> QED
        BY <1>1, <1>4, <2>1, <2>2, DriftTypes DEF Drift
<1>7. CASE of /\ c.op = "save"
    <2>1. /\ TrainingsOf(s, f)' = TrainingsOf(s, f) \union {c.log}
          /\ c.log \notin TrainingsOf(s, f)
        BY <1>1, <1>7 DEF TrainingsOf, CallSound
    <2>2. Cardinality(TrainingsOf(s, f)') = Cardinality(TrainingsOf(s, f)) + 1
        BY <1>5, <2>1, FS_AddElement
    <2>3. Owed(s, f)' = 1
        BY <1>3, <1>7 DEF Owed
    <2>4. Cardinality(TrainingsOf(s, f))' = Cardinality(TrainingsOf(s, f)) + 1
        BY <2>2
    <2> QED
        BY <1>1, <1>4, <2>3, <2>4, DriftTypes DEF Drift
<1>8. CASE of /\ c.op = "delete"
    <2>1. /\ TrainingsOf(s, f)' = TrainingsOf(s, f) \ {c.log}
          /\ c.log \in TrainingsOf(s, f)
        BY <1>1, <1>8 DEF TrainingsOf, CallSound
    <2>2. Cardinality(TrainingsOf(s, f)') = Cardinality(TrainingsOf(s, f)) - 1
        BY <1>5, <2>1, FS_RemoveElement
    <2>3. Owed(s, f)' = -1
        BY <1>3, <1>8 DEF Owed
    <2>4. Cardinality(TrainingsOf(s, f))' = Cardinality(TrainingsOf(s, f)) - 1
        BY <2>2
    <2> QED
        BY <1>1, <1>4, <2>3, <2>4, DriftTypes DEF Drift
<1> QED
    BY <1>2, <1>6, <1>7, <1>8

LEMMA PointsDrift ==
    ASSUME TrainingInv, CommitPoints
    PROVE  DriftInv'
<1> SUFFICES ASSUME NEW s \in Trainer, NEW f \in Field
             PROVE  Drift(s, f)'
    BY DEF DriftInv
<1> DEFINE c == trainingCall
           delta == IF c.op = "save" THEN 1 ELSE -1
           of == s = Trainee[c.log] /\ f \in FieldsOf(RecordsChannel[c.log])
<1>1. /\ TrainingTypeOK /\ c.op # "none" /\ c.at = "points"
      /\ trainingPoints' = Adjusted(c.log, delta)
      /\ trainingCall' = NoTraining
      /\ trainings' = trainings /\ trainingFaults' = trainingFaults
    BY DEF TrainingInv, CommitPoints
<1>2. c.log \in Training /\ delta \in {1, -1}
    BY <1>1, CallForms
<1>3. TrainingsOf(s, f)' = TrainingsOf(s, f) /\ Owed(s, f)' = 0
    BY <1>1 DEF TrainingsOf, Owed, NoTraining
<1>4. Owed(s, f) = IF of THEN delta ELSE 0
    BY <1>1 DEF Owed
<1> HIDE DEF delta
<1>5. trainingPoints'[s][f] = IF of /\ trainingPoints[s][f] + delta >= 0
                              THEN trainingPoints[s][f] + delta ELSE trainingPoints[s][f]
    BY <1>1, <1>2, AdjustedTypes
<1> HIDE DEF of
<1>6. CASE of
    BY <1>1, <1>2, <1>3, <1>4, <1>5, <1>6, DriftTypes DEF Drift
<1>7. CASE ~of
    BY <1>1, <1>3, <1>4, <1>5, <1>7, DriftTypes DEF Drift
<1> QED
    BY <1>6, <1>7

LEMMA FaultDrift ==
    ASSUME TrainingInv, TrainingFails \/ TrainingCrash
    PROVE  DriftInv'
<1> SUFFICES ASSUME NEW s \in Trainer, NEW f \in Field
             PROVE  Drift(s, f)'
    BY DEF DriftInv
<1>1. /\ trainings' = trainings /\ trainingPoints' = trainingPoints
      /\ trainingCall' = NoTraining /\ trainingFaults' = trainingFaults + 1
    BY DEF TrainingFails, TrainingCrash
<1>2. TrainingsOf(s, f)' = TrainingsOf(s, f) /\ Owed(s, f)' = 0
    BY <1>1 DEF TrainingsOf, Owed, NoTraining
<1> QED
    BY <1>1, <1>2, DriftTypes DEF Drift

LEMMA TrainingKept ==
    ASSUME TrainingInv, [TrainingNext]_trainingVars
    PROVE  TrainingInv'
<1>1. CASE UNCHANGED trainingVars
    BY <1>1 DEF trainingVars, TrainingInv, TrainingTypeOK, CallSound, GhostsMissed, BeingDropped,
                DriftInv, Drift, Owed, TrainingsOf
<1>2. CASE PostTraining \/ \E l \in Training : DeleteTraining(l)
    <2>1. TrainingTypeOK' /\ CallSound' /\ GhostsMissed'
        BY <1>2, PostTyped, DeleteTyped
    <2>2. DriftInv'
        BY <1>2, DriftUntouched DEF PostTraining, DeleteTraining, CallSave, NoTraining
    <2> QED
        BY <2>1, <2>2 DEF TrainingInv
<1>3. CASE CommitRow \/ CommitPoints
    BY <1>3, CommitTyped, RowDrift, PointsDrift DEF TrainingInv
<1>4. CASE TrainingFails \/ TrainingCrash
    BY <1>4, FaultTyped, FaultDrift DEF TrainingInv
<1>5. CASE \/ TrainingRestart
           \/ \E r \in Reader :
                \/ \E chosen \in SUBSET {"nrc", "netc", "st"} : Populate(r, chosen)
                \/ ReadChannel(r) \/ ReadMessage(r)
    <2>1. TrainingTypeOK' /\ CallSound' /\ GhostsMissed'
        BY <1>5, ReadingTyped
    <2>2. DriftInv'
        <3>1. /\ trainings' = trainings /\ trainingPoints' = trainingPoints
              /\ trainingFaults' = trainingFaults
            BY <1>5 DEF TrainingRestart, Populate, ReadChannel, ReadMessage
        <3>2. CASE trainingCall' = trainingCall
            BY <3>1, <3>2, DriftUntouched
        <3>3. CASE (\E r \in Reader : ReadMessage(r)) /\ trainingCall' # trainingCall
            <4>1. Quiet /\ \E l : CallSave(l)
                BY <3>3 DEF ReadMessage
            <4>2. trainingCall'.at = "row"
                BY <4>1 DEF CallSave
            <4> QED
                BY <3>1, <4>1, <4>2, DriftUntouched
        <3> QED
            BY <1>5, <3>2, <3>3 DEF TrainingRestart, Populate, ReadChannel
    <2> QED
        BY <2>1, <2>2 DEF TrainingInv
<1> QED
    BY <1>1, <1>2, <1>3, <1>4, <1>5 DEF TrainingNext

LEMMA TrainingHolds == TrainingInv => TrainingDriftBounded /\ NoGhostTrainings
<1> SUFFICES ASSUME TrainingInv, Quiet
             PROVE  /\ \A s \in Trainer, f \in Field :
                        LET rows == Cardinality(TrainingsOf(s, f))
                        IN /\ trainingPoints[s][f] <= rows + trainingFaults
                           /\ rows <= trainingPoints[s][f] + trainingFaults
                    /\ trainings \intersect erased \subseteq missed
    BY DEF TrainingDriftBounded, NoGhostTrainings
<1>1. ASSUME NEW s \in Trainer, NEW f \in Field
      PROVE  /\ trainingPoints[s][f] <= Cardinality(TrainingsOf(s, f)) + trainingFaults
             /\ Cardinality(TrainingsOf(s, f)) <= trainingPoints[s][f] + trainingFaults
    <2>1. Owed(s, f) = 0
        BY DEF Owed, Quiet, NoTraining
    <2> QED
        BY <2>1, DriftTypes DEF Drift
<1>2. trainings \intersect erased \subseteq missed
    BY DEF TrainingInv, GhostsMissed, BeingDropped, Quiet, NoTraining
<1> QED
    BY <1>1, <1>2

-----------------------------------------------------------------------------
(***************************************************************************)
(* Representation points (Representation).                                 *)
(***************************************************************************)

\* Who has points has a record.
KnownHavePoints ==
    \A s \in Represented \ repKnown : \A d \in RepDepartments : repPoints[s][d] = 0

RepInv == RepTypeOK /\ MutationsAccountForPoints /\ KnownHavePoints

LEMMA MutationsTyped ==
    ASSUME RepTypeOK
    PROVE  /\ mutations \in Seq(RepMutation) /\ Len(mutations) \in Nat
           /\ DOMAIN mutations = 1..Len(mutations)
           /\ \A n \in 1..Len(mutations) : mutations[n] \in RepMutation
           /\ \A n \in 1..Len(mutations) : Deltas[n] = mutations[n].delta /\ Deltas[n] \in Int
<1>1. mutations \in Seq(RepMutation)
    BY DEF RepTypeOK
<1>2. Len(mutations) \in Nat /\ DOMAIN mutations = 1..Len(mutations)
      /\ \A n \in 1..Len(mutations) : mutations[n] \in RepMutation
    BY <1>1, LenProperties, ElementOfSeq
<1> QED
    BY <1>1, <1>2 DEF Deltas, RepMutation

LEMMA RowsFinite ==
    ASSUME RepTypeOK, NEW rows \in SUBSET (1..Len(mutations))
    PROVE  IsFiniteSet(rows) /\ Total(rows) \in Int
<1>1. Len(mutations) \in Nat /\ \A n \in 1..Len(mutations) : Deltas[n] \in Int
    BY MutationsTyped
<1>2. IsFiniteSet(rows)
    <2>1. IsFiniteSet(1..Len(mutations))
        BY <1>1, FS_Interval
    <2> QED
        BY <2>1, FS_Subset
<1>3. SumFunctionOnSet(Deltas, rows) \in Int
    BY <1>1, <1>2, SumOfInts
<1> QED
    BY <1>2, <1>3 DEF Total

\* The totals of rows on record do not change as rows are added.
LEMMA OldTotals ==
    ASSUME RepTypeOK, NEW m \in RepMutation, mutations' = Append(mutations, m)
    PROVE  /\ Len(mutations') = Len(mutations) + 1 /\ DOMAIN mutations' = 1..Len(mutations) + 1
           /\ mutations'[Len(mutations) + 1] = m
           /\ \A n \in 1..Len(mutations) : mutations'[n] = mutations[n]
           /\ \A rows \in SUBSET (1..Len(mutations)) :
                /\ SumFunctionOnSet(Deltas', rows) = Total(rows)
                /\ SumFunctionOnSet(Deltas', rows \union {Len(mutations) + 1}) = m.delta + Total(rows)
<1> DEFINE last == Len(mutations) + 1
<1>1. mutations \in Seq(RepMutation) /\ Len(mutations) \in Nat
    BY MutationsTyped
<1>2. /\ Len(mutations') = last /\ mutations'[last] = m
      /\ \A n \in 1..Len(mutations) : mutations'[n] = mutations[n]
      /\ mutations' \in Seq(RepMutation)
    BY <1>1, AppendProperties
<1>3. DOMAIN mutations' = 1..last
    BY <1>2, LenProperties
<1>4. \A n \in 1..Len(mutations) : n \in 1..last /\ last \in 1..last
    BY <1>1
<1>5. \A n \in 1..Len(mutations) : Deltas'[n] = Deltas[n]
    BY <1>2, <1>3, <1>4, MutationsTyped DEF Deltas
<1>6. last \in 1..last /\ last \notin 1..Len(mutations)
    BY <1>1
<1>7. Deltas'[last] = m.delta /\ m.delta \in Int
    BY <1>2, <1>3, <1>6 DEF Deltas, RepMutation
<1>8. ASSUME NEW rows \in SUBSET (1..Len(mutations))
      PROVE  /\ SumFunctionOnSet(Deltas', rows) = Total(rows)
             /\ SumFunctionOnSet(Deltas', rows \union {last}) = m.delta + Total(rows)
    <2>1. IsFiniteSet(rows)
        BY RowsFinite
    <2>2. SumFunctionOnSet(Deltas', rows) = SumFunctionOnSet(Deltas, rows)
        BY <1>5, <2>1, SumOfSame
    <2>3. \A n \in rows \union {last} : Deltas'[n] \in Int
        BY <1>5, <1>7, MutationsTyped
    <2>4. last \notin rows
        BY <1>6
    <2>5. SumFunctionOnSet(Deltas', rows \union {last}) = Deltas'[last] + SumFunctionOnSet(Deltas', rows)
        BY <2>1, <2>3, <2>4, SumAdds
    <2> QED
        BY <1>7, <2>2, <2>5 DEF Total
<1> QED
    BY <1>2, <1>3, <1>8

LEMMA RepInitially == RepInit => RepInv
<1> SUFFICES ASSUME RepInit
             PROVE  RepInv
    OBVIOUS
<1>1. RepTypeOK
    BY DEF RepInit, RepTypeOK
<1>2. KnownHavePoints
    BY DEF RepInit, KnownHavePoints
<1>3. MutationsAccountForPoints
    <2> SUFFICES ASSUME NEW s \in Represented, NEW d \in RepDepartments
                 PROVE  /\ repPoints[s][d] = Total(RowsAbout(s, d))
                        /\ \A n \in 0..Len(mutations) : Total(RowsAbout(s, d) \intersect 1..n) >= 0
        BY DEF MutationsAccountForPoints
    <2>1. RowsAbout(s, d) = {} /\ repPoints[s][d] = 0
        BY DEF RepInit, RowsAbout
    <2>2. Total({}) = 0
        BY SumOfNone DEF Total
    <2> QED
        BY <2>1, <2>2
<1> QED
    BY <1>1, <1>2, <1>3 DEF RepInv

\* A removal of too much, and a look at somebody's points.
LEMMA NothingApplied ==
    ASSUME RepInv, repPoints' = repPoints, mutations' = mutations,
           repKnown \subseteq repKnown', repKnown' \subseteq Represented
    PROVE  RepInv'
<1>1. RepTypeOK /\ MutationsAccountForPoints /\ KnownHavePoints
    BY DEF RepInv
<1>2. Deltas' = Deltas
    BY <1>1 DEF Deltas
<1>3. RepTypeOK' /\ KnownHavePoints'
    BY <1>1 DEF RepTypeOK, KnownHavePoints
<1>4. MutationsAccountForPoints'
    <2>1. \A s, d : RowsAbout(s, d)' = RowsAbout(s, d)
        BY <1>1 DEF RowsAbout
    <2>2. \A s, d : Total(RowsAbout(s, d))' = Total(RowsAbout(s, d))
        BY <1>2, <2>1 DEF Total
    <2>3. \A s, d, n : Total(RowsAbout(s, d) \intersect 1..n)' = Total(RowsAbout(s, d) \intersect 1..n)
        BY <1>2, <2>1 DEF Total
    <2> SUFFICES ASSUME NEW s \in Represented, NEW d \in RepDepartments
                 PROVE  /\ repPoints'[s][d] = Total(RowsAbout(s, d))'
                        /\ \A n \in 0..Len(mutations') :
                              Total(RowsAbout(s, d) \intersect 1..n)' >= 0
        BY DEF MutationsAccountForPoints
    <2>4. /\ repPoints[s][d] = Total(RowsAbout(s, d))
          /\ \A n \in 0..Len(mutations) : Total(RowsAbout(s, d) \intersect 1..n) >= 0
        BY <1>1 DEF MutationsAccountForPoints
    <2>5. repPoints'[s][d] = Total(RowsAbout(s, d))'
        BY <1>1, <2>2, <2>4
    <2>6. ASSUME NEW n \in 0..Len(mutations')
          PROVE  Total(RowsAbout(s, d) \intersect 1..n)' >= 0
        BY <1>1, <2>3, <2>4
    <2> QED
        BY <2>5, <2>6
<1> QED
    BY <1>3, <1>4 DEF RepInv

LEMMA ApplyKeeps ==
    ASSUME RepInv, NEW t \in Represented, NEW m \in Manager, NEW e \in RepDepartments,
           NEW delta \in Int, ApplyPointsDelta(t, m, e, delta)
    PROVE  RepInv'
<1> DEFINE new == repPoints[t][e] + delta
           row == [target |-> t, by |-> m, department |-> e, delta |-> delta]
           last == Len(mutations) + 1
<1>1. /\ RepTypeOK /\ MutationsAccountForPoints /\ KnownHavePoints
      /\ repPoints \in [Represented -> [RepDepartments -> Nat]] /\ repPoints[t][e] \in Nat
    BY DEF RepInv, RepTypeOK
<1>2. repKnown' = repKnown \union {t} /\ repKnown' \in SUBSET Represented
    BY <1>1 DEF ApplyPointsDelta, RepTypeOK
<1>3. CASE new < 0
    BY <1>2, <1>3, NothingApplied DEF ApplyPointsDelta
<1>4. CASE ~(new < 0)
    <2>1. repPoints' = [repPoints EXCEPT ![t][e] = new] /\ mutations' = Append(mutations, row)
        BY <1>4 DEF ApplyPointsDelta
    <2>2. new \in Nat /\ row \in RepMutation
        BY <1>1, <1>4 DEF RepMutation
    <2>3. row.target = t /\ row.department = e /\ row.delta = delta
        OBVIOUS
    <2> HIDE DEF row
    <2>4. /\ Len(mutations') = last /\ DOMAIN mutations' = 1..last
          /\ mutations'[last] = row
          /\ \A n \in 1..Len(mutations) : mutations'[n] = mutations[n]
          /\ \A rows \in SUBSET (1..Len(mutations)) :
                /\ SumFunctionOnSet(Deltas', rows) = Total(rows)
                /\ SumFunctionOnSet(Deltas', rows \union {last}) = delta + Total(rows)
        BY <1>1, <2>1, <2>2, <2>3, OldTotals
    <2>5. Len(mutations) \in Nat /\ DOMAIN mutations = 1..Len(mutations)
        BY <1>1, MutationsTyped
    <2>6. /\ repPoints'[t][e] = new
          /\ \A s \in Represented, d \in RepDepartments :
                s # t \/ d # e => repPoints'[s][d] = repPoints[s][d]
          /\ repPoints' \in [Represented -> [RepDepartments -> Nat]]
        BY <1>1, <2>1, <2>2
    <2>7. RepTypeOK'
        <3>1. mutations' \in Seq(RepMutation)
            BY <1>1, <2>1, <2>2, AppendProperties DEF RepTypeOK
        <3> QED
            BY <1>2, <2>6, <3>1 DEF RepTypeOK
    <2>8. KnownHavePoints'
        BY <1>1, <1>2, <2>6 DEF KnownHavePoints
    <2>9. 1..last = 1..Len(mutations) \union {last} /\ last \notin 1..Len(mutations)
        BY <2>5
    <2>10. MutationsAccountForPoints'
        <3> SUFFICES ASSUME NEW s \in Represented, NEW d \in RepDepartments
                     PROVE  /\ repPoints'[s][d] = Total(RowsAbout(s, d))'
                            /\ \A n \in 0..Len(mutations') :
                                  Total(RowsAbout(s, d) \intersect 1..n)' >= 0
            BY DEF MutationsAccountForPoints
        <3> DEFINE old == RowsAbout(s, d)
        <3>1. /\ old \in SUBSET (1..Len(mutations)) /\ repPoints[s][d] = Total(old)
              /\ \A n \in 0..Len(mutations) : Total(old \intersect 1..n) >= 0
            BY <1>1, <2>5 DEF MutationsAccountForPoints, RowsAbout
        <3>2. RowsAbout(s, d)' = IF s = t /\ d = e THEN old \union {last} ELSE old
            BY <2>3, <2>4, <2>5, <2>9 DEF RowsAbout
        <3>3. ASSUME NEW n \in 0..Len(mutations)
              PROVE  Total(RowsAbout(s, d) \intersect 1..n)' >= 0
            <4> DEFINE part == old \intersect 1..n
            <4>1. last \notin 1..n
                BY <2>5
            <4>2. (RowsAbout(s, d) \intersect 1..n)' = part
                BY <3>2, <4>1
            <4>3. part \in SUBSET (1..Len(mutations)) /\ Total(part) >= 0
                BY <3>1
            <4>4. Total(RowsAbout(s, d) \intersect 1..n)' = SumFunctionOnSet(Deltas', part)
                BY <4>2 DEF Total
            <4> HIDE DEF part
            <4> QED
                BY <2>4, <4>3, <4>4
        <3>4. repPoints'[s][d] = Total(RowsAbout(s, d))'
            <4>1. CASE s = t /\ d = e
                <5>1. Total(RowsAbout(s, d))' = SumFunctionOnSet(Deltas', old \union {last})
                    BY <3>2, <4>1 DEF Total
                <5>2. SumFunctionOnSet(Deltas', old \union {last}) = delta + Total(old)
                    BY <2>4, <3>1
                <5>3. repPoints'[s][d] = repPoints[s][d] + delta /\ repPoints[s][d] \in Nat
                    BY <1>1, <2>6, <4>1
                <5> HIDE DEF old
                <5> QED
                    BY <3>1, <5>1, <5>2, <5>3
            <4>2. CASE ~(s = t /\ d = e)
                <5>1. Total(RowsAbout(s, d))' = SumFunctionOnSet(Deltas', old)
                    BY <3>2, <4>2 DEF Total
                <5>2. SumFunctionOnSet(Deltas', old) = Total(old)
                    BY <2>4, <3>1
                <5> QED
                    BY <2>6, <3>1, <4>2, <5>1, <5>2
            <4> QED
                BY <4>1, <4>2
        <3>5. ASSUME NEW n \in Nat, n = last
              PROVE  Total(RowsAbout(s, d) \intersect 1..n)' >= 0
            <4>1. (RowsAbout(s, d) \intersect 1..n)' = RowsAbout(s, d)'
                BY <2>4, <3>5 DEF RowsAbout
            <4>2. Total(RowsAbout(s, d) \intersect 1..n)' = Total(RowsAbout(s, d))'
                BY <4>1 DEF Total
            <4>3. repPoints'[s][d] \in Nat
                BY <2>6
            <4> QED
                BY <3>4, <4>2, <4>3
        <3>6. ASSUME NEW n \in 0..Len(mutations')
              PROVE  Total(RowsAbout(s, d) \intersect 1..n)' >= 0
            <4>1. n \in 0..Len(mutations) \/ n = last
                BY <2>4, <2>5
            <4>2. CASE n \in 0..Len(mutations)
                BY <3>3, <4>2
            <4>3. CASE n = last
                BY <2>5, <3>5, <4>3
            <4> QED
                BY <4>1, <4>2, <4>3
        <3> QED
            BY <3>4, <3>6
    <2> QED
        BY <2>7, <2>8, <2>10 DEF RepInv
<1> QED
    BY <1>3, <1>4

LEMMA RepKept ==
    ASSUME RepInv, [RepNext]_repVars
    PROVE  RepInv'
<1>1. CASE UNCHANGED repVars
    <2>1. /\ repPoints' = repPoints /\ mutations' = mutations
          /\ repKnown \subseteq repKnown' /\ repKnown' \subseteq Represented
        BY <1>1 DEF repVars, RepInv, RepTypeOK
    <2> QED
        BY <2>1, NothingApplied
<1>2. ASSUME NEW s \in Represented, ViewRepresentation(s)
      PROVE  RepInv'
    <2>1. /\ repPoints' = repPoints /\ mutations' = mutations
          /\ repKnown \subseteq repKnown' /\ repKnown' \subseteq Represented
        BY <1>2 DEF ViewRepresentation, RepInv, RepTypeOK
    <2> QED
        BY <2>1, NothingApplied
<1>3. ASSUME NEW m \in Manager, NEW s \in Represented, NEW d \in RepDepartments,
             RepresentationMod(m, s, d)
      PROVE  RepInv'
    <2>1. PICK amount \in Amounts : \/ ApplyPointsDelta(s, m, d, amount)
                                    \/ ApplyPointsDelta(s, m, d, -amount)
        BY <1>3 DEF RepresentationMod
    <2>2. amount \in Int /\ -amount \in Int
        BY RepresentationAssumption
    <2> QED
        BY <2>1, <2>2, ApplyKeeps
<1> QED
    BY <1>1, <1>2, <1>3 DEF RepNext

\* A dump has the rows of a department, or of both.
LEMMA RepBalances == RepInv => DumpBalances
<1> SUFFICES ASSUME RepInv, NEW chosen \in {RepDepartments} \union {{d} : d \in RepDepartments},
                    NEW s \in Represented, NEW d \in chosen
             PROVE  Total(DumpMutations(chosen) \intersect RowsAbout(s, d))
                    = IF s \in DumpRecords(chosen) THEN repPoints[s][d] ELSE 0
    BY DEF DumpBalances
<1>1. d \in RepDepartments /\ (chosen = RepDepartments \/ chosen = {d})
    OBVIOUS
<1>2. DumpMutations(chosen) \intersect RowsAbout(s, d) = RowsAbout(s, d)
    BY DEF DumpMutations, RowsAbout
<1>3. Total(DumpMutations(chosen) \intersect RowsAbout(s, d)) = repPoints[s][d]
    BY <1>1, <1>2 DEF RepInv, MutationsAccountForPoints
<1>4. repPoints[s][d] \in Nat
    BY <1>1 DEF RepInv, RepTypeOK
<1>5. CASE s \notin DumpRecords(chosen)
    <2>1. s \notin repKnown \/ ~(repPoints[s][d] > 0)
        BY <1>5 DEF DumpRecords
    <2>2. s \notin repKnown => repPoints[s][d] = 0
        BY <1>1 DEF RepInv, KnownHavePoints
    <2> QED
        BY <1>3, <1>4, <1>5, <2>1, <2>2
<1> QED
    BY <1>3, <1>5

-----------------------------------------------------------------------------
(***************************************************************************)
(* What officers put on record (StaffRecords).                             *)
(***************************************************************************)

\* A /forceadd at work has an option left, and knows its amounts.
ForceSound ==
    forceCall # NoForce =>
        /\ forceCall.target \in Person
        /\ forceCall.logging \in BOOLEAN
        /\ forceCall.todo \in SUBSET (DOMAIN Kinds)
        /\ \A i \in forceCall.todo : forceCall.amounts[Kinds[i]] \in Int

\* The amount that counts for s and kind k but has no row yet.
HalfDone(s, k) ==
    /\ forceCall # NoForce /\ forceCall.logging
    /\ forceCall.target = s /\ s \in sailors
    /\ \E i \in forceCall.todo : Turn(i) /\ Kinds[i] = k

Logged(s, k) == forceLog[s][k] + (IF HalfDone(s, k) THEN forceCall.amounts[k] ELSE 0)

Unaccounted == {p \in Person \X Kind : force[p[1]][p[2]] # Logged(p[1], p[2])}

ForceCounted == IsFiniteSet(Unaccounted) /\ Cardinality(Unaccounted) <= cutShort

StaffInv == StaffTypeOK /\ ForceSound /\ ForceCounted /\ CoinsDistinct /\ NobodyHidesOwnNotes

LEMMA PlacesOfKinds ==
    /\ DOMAIN Kinds \subseteq Int
    /\ \A i \in DOMAIN Kinds : Kinds[i] \in Kind
    /\ IsFiniteSet(Kind) /\ IsFiniteSet(Person \X Kind)
<1>1. Kinds \in Seq(Kind)
    BY StaffAssumption
<1>2. Len(Kinds) \in Nat /\ DOMAIN Kinds = 1..Len(Kinds)
    BY <1>1, LenProperties
<1>3. \A i \in DOMAIN Kinds : Kinds[i] \in Kind
    BY DEF Kind
<1>4. IsFiniteSet(DOMAIN Kinds)
    BY <1>2, FS_Interval
<1>5. IsFiniteSet(Kind)
    <2>1. Kinds \in Surjection(DOMAIN Kinds, Kind)
        BY <1>1 DEF Surjection, Kind
    <2> QED
        BY <1>4, <2>1, FS_Surjection
<1>6. IsFiniteSet(Person \X Kind)
    BY <1>5, FS_Product, StaffAssumption
<1> QED
    BY <1>2, <1>3, <1>5, <1>6

\* Only one option has its turn.
LEMMA OneTurn ==
    ASSUME forceCall.todo \in SUBSET (DOMAIN Kinds),
           NEW i \in forceCall.todo, NEW j \in forceCall.todo, Turn(i), Turn(j)
    PROVE  i = j
<1>1. i \in Int /\ j \in Int /\ i <= j /\ j <= i
    BY PlacesOfKinds DEF Turn
<1> QED
    BY <1>1

LEMMA StaffInitially == StaffInit => StaffInv
<1> SUFFICES ASSUME StaffInit
             PROVE  StaffInv
    OBVIOUS
<1>1. StaffTypeOK
    BY DEF StaffInit, StaffTypeOK
<1>2. ForceSound /\ CoinsDistinct /\ NobodyHidesOwnNotes
    BY DEF StaffInit, ForceSound, CoinsDistinct, NobodyHidesOwnNotes
<1>3. Unaccounted = {}
    BY DEF StaffInit, Unaccounted, Logged, HalfDone
<1>4. ForceCounted
    BY <1>3, FS_EmptySet DEF ForceCounted, StaffInit
<1> QED
    BY <1>1, <1>2, <1>4 DEF StaffInv

\* With no /forceadd between its two commits, the log is what it is.
LEMMA NoneHalfDone ==
    ASSUME StaffTypeOK, NEW s \in Person, NEW k \in Kind,
           forceCall = NoForce \/ ~forceCall.logging
    PROVE  Logged(s, k) = forceLog[s][k]
<1>1. ~HalfDone(s, k) /\ forceLog[s][k] \in Int
    BY DEF HalfDone, StaffTypeOK
<1> QED
    BY <1>1 DEF Logged

\* A /forceadd that starts, and a step elsewhere.
LEMMA CountStays ==
    ASSUME StaffTypeOK, StaffTypeOK', ForceCounted,
           force' = force, forceLog' = forceLog, cutShort' = cutShort,
           forceCall = NoForce, forceCall' = NoForce \/ ~forceCall'.logging
    PROVE  ForceCounted'
<1>1. \A s \in Person, k \in Kind : Logged(s, k) = forceLog[s][k]
    BY NoneHalfDone
<1>2. ASSUME NEW s \in Person, NEW k \in Kind
      PROVE  Logged(s, k)' = forceLog[s][k]
    <2>1. ~HalfDone(s, k)' /\ forceLog[s][k] \in Int
        BY DEF HalfDone, StaffTypeOK
    <2> QED
        BY <2>1 DEF Logged
<1>3. Unaccounted' = Unaccounted
    BY <1>1, <1>2 DEF Unaccounted
<1> QED
    BY <1>3 DEF ForceCounted

\* A /forceadd that ends early leaves one pair at most without its entry.
LEMMA CountGrows ==
    ASSUME StaffTypeOK, StaffTypeOK', ForceSound, ForceCounted,
           force' = force, forceLog' = forceLog, cutShort' = cutShort + 1,
           forceCall # NoForce, forceCall' = NoForce
    PROVE  ForceCounted'
<1>1. \A s \in Person, k \in Kind : Logged(s, k)' = forceLog[s][k]
    <2> SUFFICES ASSUME NEW s \in Person, NEW k \in Kind
                 PROVE  Logged(s, k)' = forceLog[s][k]
        OBVIOUS
    <2>1. ~HalfDone(s, k)' /\ forceLog[s][k] \in Int
        BY DEF HalfDone, StaffTypeOK
    <2> QED
        BY <2>1 DEF Logged
<1>2. PICK q : \A s \in Person, k \in Kind : HalfDone(s, k) => <<s, k>> = q
    <2>1. CASE \E s \in Person, k \in Kind : HalfDone(s, k)
        <3>1. PICK s \in Person, k \in Kind : HalfDone(s, k)
            BY <2>1
        <3>2. ASSUME NEW z \in Person, NEW l \in Kind, HalfDone(z, l)
              PROVE  <<z, l>> = <<s, k>>
            <4>1. z = s
                BY <3>1, <3>2 DEF HalfDone
            <4>2. PICK i \in forceCall.todo : Turn(i) /\ Kinds[i] = k
                BY <3>1 DEF HalfDone
            <4>3. PICK j \in forceCall.todo : Turn(j) /\ Kinds[j] = l
                BY <3>2 DEF HalfDone
            <4>4. i = j
                BY <4>2, <4>3, OneTurn DEF ForceSound
            <4> QED
                BY <4>1, <4>2, <4>3, <4>4
        <3> QED
            BY <3>2
    <2>2. CASE ~(\E s \in Person, k \in Kind : HalfDone(s, k))
        BY <2>2
    <2> QED
        BY <2>1, <2>2
<1>3. Unaccounted' \subseteq Unaccounted \union {q}
    <2>1. ASSUME NEW s \in Person, NEW k \in Kind, ~HalfDone(s, k)
          PROVE  Logged(s, k) = forceLog[s][k]
        <3>1. forceLog[s][k] \in Int
            BY DEF StaffTypeOK
        <3> QED
            BY <2>1, <3>1 DEF Logged
    <2> QED
        BY <1>1, <1>2, <2>1 DEF Unaccounted
<1>4. IsFiniteSet(Unaccounted) /\ Cardinality(Unaccounted) <= cutShort /\ cutShort \in Nat
    BY DEF ForceCounted, StaffTypeOK
<1> HIDE DEF Unaccounted
<1>5. /\ IsFiniteSet(Unaccounted \union {q})
      /\ Cardinality(Unaccounted) \in Nat
      /\ Cardinality(Unaccounted \union {q}) <= Cardinality(Unaccounted) + 1
      /\ Cardinality(Unaccounted \union {q}) \in Nat
    <2>1. Cardinality(Unaccounted) \in Nat
        BY <1>4, FS_CardinalityType
    <2>2. /\ IsFiniteSet(Unaccounted \union {q})
          /\ Cardinality(Unaccounted \union {q}) =
                IF q \in Unaccounted THEN Cardinality(Unaccounted) ELSE Cardinality(Unaccounted) + 1
        BY <1>4, FS_AddElement
    <2> QED
        BY <2>1, <2>2
<1>6. IsFiniteSet(Unaccounted') /\ Cardinality(Unaccounted') <= Cardinality(Unaccounted \union {q})
      /\ Cardinality(Unaccounted') \in Nat
    BY <1>3, <1>5, FS_Subset, FS_CardinalityType
<1> QED
    BY <1>4, <1>5, <1>6 DEF ForceCounted

LEMMA SameShift ==
    ASSUME NEW x \in Int, NEW y \in Int, NEW b \in Int
    PROVE  x = y <=> x + b = y + b
OBVIOUS

LEMMA RaiseKeeps ==
    ASSUME StaffInv, RaiseForce
    PROVE  StaffInv'
<1>1. StaffTypeOK /\ ForceSound /\ ForceCounted /\ CoinsDistinct /\ NobodyHidesOwnNotes
    BY DEF StaffInv
<1>2. /\ forceCall # NoForce /\ ~forceCall.logging
      /\ forceCall' = [forceCall EXCEPT !.logging = TRUE]
      /\ UNCHANGED <<forceLog, cutShort, sailors, coins, nameOf, removals, notes>>
      /\ UNCHANGED <<staffUsed, staffFaults>>
    BY DEF RaiseForce, recordsUnchanged
<1>3. PICK i \in forceCall.todo :
        /\ Turn(i)
        /\ force' = IF forceCall.target \in sailors
                    THEN [force EXCEPT ![forceCall.target][Kinds[i]] =
                                          @ + forceCall.amounts[Kinds[i]]]
                    ELSE force
    BY DEF RaiseForce
<1> DEFINE t == forceCall.target
           k == Kinds[i]
           a == forceCall.amounts[Kinds[i]]
<1>4. t \in Person /\ i \in DOMAIN Kinds /\ k \in Kind /\ a \in Int
    BY <1>1, <1>2, PlacesOfKinds DEF ForceSound
<1>5. force \in [Person -> [Kind -> Int]] /\ forceLog \in [Person -> [Kind -> Int]]
    BY <1>1 DEF StaffTypeOK
<1>6. /\ force' \in [Person -> [Kind -> Int]]
      /\ force'[t][k] = IF t \in sailors THEN force[t][k] + a ELSE force[t][k]
      /\ \A s \in Person, l \in Kind : s # t \/ l # k => force'[s][l] = force[s][l]
    <2>1. CASE t \in sailors
        <3>1. force' = [force EXCEPT ![t][k] = @ + a]
            BY <1>3, <2>1
        <3> HIDE DEF t, k, a
        <3> QED
            BY <1>4, <1>5, <2>1, <3>1
    <2>2. CASE t \notin sailors
        BY <1>3, <1>4, <1>5, <2>2
    <2> QED
        BY <2>1, <2>2
<1>7. StaffTypeOK' /\ CoinsDistinct' /\ NobodyHidesOwnNotes'
    BY <1>1, <1>2, <1>6 DEF StaffTypeOK, CoinsDistinct, NobodyHidesOwnNotes
<1>8. /\ forceCall'.target = t /\ forceCall'.todo = forceCall.todo
      /\ forceCall'.amounts = forceCall.amounts /\ forceCall'.logging = TRUE
      /\ forceCall' # NoForce
    BY <1>2 DEF NoForce
<1>9. ForceSound'
    <2>1. /\ t \in Person /\ forceCall.todo \in SUBSET (DOMAIN Kinds)
          /\ \A j \in forceCall.todo : forceCall.amounts[Kinds[j]] \in Int
        BY <1>1, <1>2 DEF ForceSound
    <2>2. /\ forceCall'.target \in Person /\ forceCall'.todo \in SUBSET (DOMAIN Kinds)
          /\ \A j \in forceCall'.todo : forceCall'.amounts[Kinds[j]] \in Int
        BY <1>8, <2>1
    <2>3. forceCall'.logging \in BOOLEAN
        BY <1>8
    <2> QED
        BY <2>2, <2>3 DEF ForceSound
<1>10. \A s \in Person, l \in Kind : HalfDone(s, l)' <=> s = t /\ t \in sailors /\ l = k
    <2>1. \A j \in forceCall.todo : Turn(j) => j = i
        BY <1>1, <1>2, <1>3, OneTurn DEF ForceSound
    <2>2. \A j : Turn(j)' <=> Turn(j)
        BY <1>8 DEF Turn
    <2> QED
        BY <1>2, <1>3, <1>8, <2>1, <2>2 DEF HalfDone
<1>11. ASSUME NEW s \in Person, NEW l \in Kind
       PROVE  force[s][l] # Logged(s, l) <=> force'[s][l] # Logged(s, l)'
    <2>1. Logged(s, l) = forceLog[s][l]
        BY <1>1, <1>2, NoneHalfDone
    <2>2. force[s][l] \in Int /\ forceLog[s][l] \in Int /\ forceLog' = forceLog
        BY <1>2, <1>5
    <2>3. CASE s = t /\ t \in sailors /\ l = k
        <3>1. Logged(s, l)' = forceLog[s][l] + a
            BY <1>8, <1>10, <2>2, <2>3 DEF Logged
        <3>2. force'[s][l] = force[s][l] + a
            BY <1>6, <2>3
        <3> QED
            <4>1. force[s][l] = forceLog[s][l] <=> force[s][l] + a = forceLog[s][l] + a
                BY <1>4, <2>2, SameShift, Zenon
            <4> QED
                BY <2>1, <3>1, <3>2, <4>1, Zenon
    <2>4. CASE ~(s = t /\ t \in sailors /\ l = k)
        <3>1. Logged(s, l)' = forceLog[s][l]
            BY <1>10, <2>2, <2>4 DEF Logged
        <3>2. force'[s][l] = force[s][l]
            BY <1>6, <2>4
        <3> QED
            BY <2>1, <3>1, <3>2
    <2> QED
        BY <2>3, <2>4
<1>12. Unaccounted' = Unaccounted
    BY <1>11 DEF Unaccounted
<1>13. ForceCounted'
    BY <1>1, <1>2, <1>12 DEF ForceCounted
<1> QED
    BY <1>7, <1>9, <1>13 DEF StaffInv

LEMMA LogKeeps ==
    ASSUME StaffInv, LogForce
    PROVE  StaffInv'
<1>1. StaffTypeOK /\ ForceSound /\ ForceCounted /\ CoinsDistinct /\ NobodyHidesOwnNotes
    BY DEF StaffInv
<1>2. /\ forceCall # NoForce /\ forceCall.logging
      /\ UNCHANGED <<force, sailors, coins, nameOf, removals, notes, staffUsed, staffFaults>>
    BY DEF LogForce, recordsUnchanged
<1>3. CoinsDistinct' /\ NobodyHidesOwnNotes'
    BY <1>1, <1>2 DEF CoinsDistinct, NobodyHidesOwnNotes
<1>4. CASE /\ forceCall' = NoForce
           /\ cutShort' = cutShort + 1 /\ forceLog' = forceLog
    <2>1. StaffTypeOK' /\ ForceSound'
        BY <1>1, <1>2, <1>4 DEF StaffTypeOK, ForceSound
    <2>2. ForceCounted'
        BY <1>1, <1>2, <1>4, <2>1, CountGrows
    <2> QED
        BY <1>3, <2>1, <2>2 DEF StaffInv
<1>5. ASSUME {forceCall.target, forceCall.by} \subseteq sailors, cutShort' = cutShort,
             NEW i \in forceCall.todo, Turn(i), OptionDone(i),
             forceLog' = [forceLog EXCEPT ![forceCall.target][Kinds[i]] =
                                             @ + forceCall.amounts[Kinds[i]]]
      PROVE  StaffInv'
    <2> DEFINE t == forceCall.target
               k == Kinds[i]
               a == forceCall.amounts[Kinds[i]]
    <2>1. /\ t \in Person /\ i \in DOMAIN Kinds /\ k \in Kind /\ a \in Int /\ t \in sailors
          /\ forceCall.todo \in SUBSET (DOMAIN Kinds)
          /\ \A j \in forceCall.todo : forceCall.amounts[Kinds[j]] \in Int
        BY <1>1, <1>2, <1>5, PlacesOfKinds DEF ForceSound
    <2>2. force \in [Person -> [Kind -> Int]] /\ forceLog \in [Person -> [Kind -> Int]]
        BY <1>1 DEF StaffTypeOK
    <2>3. /\ forceLog' \in [Person -> [Kind -> Int]]
          /\ forceLog'[t][k] = forceLog[t][k] + a
          /\ \A s \in Person, l \in Kind : s # t \/ l # k => forceLog'[s][l] = forceLog[s][l]
        BY <1>5, <2>1, <2>2
    <2>4. StaffTypeOK'
        BY <1>1, <1>2, <1>5, <2>3 DEF StaffTypeOK
    <2>5. forceCall' = NoForce \/ ~forceCall'.logging
        BY <1>5, <1>2 DEF OptionDone
    <2>6. ForceSound'
        <3>1. CASE forceCall' = NoForce
            BY <3>1 DEF ForceSound
        <3>2. CASE forceCall' = [forceCall EXCEPT !.todo = @ \ {i}, !.logging = FALSE]
            <4>1. /\ forceCall'.target = t /\ forceCall'.todo \subseteq forceCall.todo
                  /\ forceCall'.amounts = forceCall.amounts
                  /\ forceCall'.logging = FALSE
                BY <3>2
            <4>2. /\ forceCall'.target \in Person /\ forceCall'.todo \in SUBSET (DOMAIN Kinds)
                  /\ \A j \in forceCall'.todo : forceCall'.amounts[Kinds[j]] \in Int
                BY <2>1, <4>1
            <4>3. forceCall'.logging \in BOOLEAN
                BY <4>1
            <4> QED
                BY <4>2, <4>3 DEF ForceSound
        <3> QED
            BY <1>5, <3>1, <3>2 DEF OptionDone
    <2>7. \A s \in Person, l \in Kind : HalfDone(s, l) <=> s = t /\ l = k
        <3>1. \A j \in forceCall.todo : Turn(j) => j = i
            BY <1>5, <2>1, OneTurn
        <3> QED
            BY <1>2, <1>5, <2>1, <3>1 DEF HalfDone
    <2>8. ASSUME NEW s \in Person, NEW l \in Kind
          PROVE  Logged(s, l)' = Logged(s, l)
        <3>1. Logged(s, l)' = forceLog'[s][l]
            <4>1. ~HalfDone(s, l)' /\ forceLog'[s][l] \in Int
                BY <2>3, <2>5 DEF HalfDone
            <4> QED
                BY <4>1 DEF Logged
        <3>2. CASE s = t /\ l = k
            <4>1. Logged(s, l) = forceLog[s][l] + a
                BY <2>7, <3>2 DEF Logged
            <4> QED
                BY <2>3, <3>1, <3>2, <4>1
        <3>3. CASE ~(s = t /\ l = k)
            <4>1. Logged(s, l) = forceLog[s][l]
                BY <2>2, <2>7, <3>3 DEF Logged
            <4> QED
                BY <2>3, <3>1, <3>3, <4>1
        <3> QED
            BY <3>2, <3>3
    <2>9. Unaccounted' = Unaccounted
        BY <1>2, <2>8 DEF Unaccounted
    <2>10. ForceCounted'
        BY <1>1, <1>5, <2>9 DEF ForceCounted
    <2> QED
        BY <1>3, <2>4, <2>6, <2>10 DEF StaffInv
<1> QED
    BY <1>4, <1>5 DEF LogForce

\* /addcoin looks before it saves; a coin of /addanycoin is of another kind.
LEMMA SaveCoinKeeps ==
    ASSUME StaffInv, NEW o \in Person, NEW s \in Person, NEW n \in Names,
           NEW type \in CoinTypes, NEW command \in {"addcoin", "addanycoin"},
           SaveCoin(o, s, n, type, command),
           command = "addcoin" =>
               \A c \in coins : ~(c.target = s /\ c.name = n /\ c.type = type)
    PROVE  coins' \in SUBSET Coin /\ staffUsed' \in Nat /\ CoinsDistinct'
<1> DEFINE new == [id |-> staffUsed + 1, target |-> s, by |-> o, name |-> n, type |-> type,
                   command |-> command]
<1>1. coins \in SUBSET Coin /\ staffUsed \in Nat /\ CoinsDistinct
    BY DEF StaffInv, StaffTypeOK
<1>2. coins' = coins \union {new} /\ staffUsed' = staffUsed + 1
    BY DEF SaveCoin, UseStaff
<1>3. new \in Coin
    BY <1>1 DEF Coin
<1>4. new.target = s /\ new.name = n /\ new.type = type /\ new.command = command
    OBVIOUS
<1> HIDE DEF new
<1>5. CoinsDistinct'
    <2>1. ASSUME NEW c \in coins', NEW d \in coins', c.command = "addcoin", d.command = "addcoin",
                 c.target = d.target, c.name = d.name, c.type = d.type
          PROVE  c = d
        <3>1. CASE c \in coins /\ d \in coins
            BY <1>1, <2>1, <3>1 DEF CoinsDistinct
        <3>2. CASE c \in coins /\ d = new
            BY <1>4, <2>1, <3>2
        <3>3. CASE c = new /\ d \in coins
            BY <1>4, <2>1, <3>3
        <3> QED
            BY <1>2, <3>1, <3>2, <3>3
    <2> QED
        BY <2>1 DEF CoinsDistinct
<1> QED
    BY <1>1, <1>2, <1>3, <1>5

\* A step of no /forceadd leaves forced points alone.
LEMMA OtherStep ==
    ASSUME StaffInv, forceCall = NoForce, forcesUnchanged' = forcesUnchanged,
           sailors' \in SUBSET Person, coins' \in SUBSET Coin, nameOf' \in [Person -> Names],
           removals' \in SUBSET Coin, notes' \in SUBSET Note, staffUsed' \in Nat,
           CoinsDistinct', NobodyHidesOwnNotes'
    PROVE  StaffInv'
<1>1. /\ force' = force /\ forceLog' = forceLog /\ forceCall' = forceCall
      /\ cutShort' = cutShort /\ staffFaults' = staffFaults
    BY DEF forcesUnchanged
<1>2. StaffTypeOK /\ ForceSound /\ ForceCounted
    BY DEF StaffInv
<1>3. StaffTypeOK' /\ ForceSound'
    BY <1>1, <1>2 DEF StaffTypeOK, ForceSound
<1>4. ForceCounted'
    BY <1>1, <1>2, <1>3, CountStays
<1> QED
    BY <1>3, <1>4 DEF StaffInv

LEMMA HideKeeps ==
    ASSUME StaffInv, NEW o \in Person, NEW s \in Person, NEW n \in notes, HideNote(o, s, n)
    PROVE  notes' \in SUBSET Note /\ NobodyHidesOwnNotes'
<1> DEFINE new == [n EXCEPT !.hidden = TRUE, !.whoHid = o]
<1>1. notes \in SUBSET Note /\ NobodyHidesOwnNotes
    BY DEF StaffInv, StaffTypeOK
<1>2. /\ notes' = (notes \ {n}) \union {new}
      /\ n.target = s /\ o # s
    BY DEF HideNote, ToggleModnote
<1>3. n \in Note /\ new \in Note /\ new.whoHid = o /\ new.target = s
    BY <1>1, <1>2 DEF Note
<1> HIDE DEF new
<1>4. \A x \in notes' : x \in notes \/ x = new
    BY <1>2
<1>5. NobodyHidesOwnNotes'
    BY <1>1, <1>2, <1>3, <1>4 DEF NobodyHidesOwnNotes
<1> QED
    BY <1>1, <1>2, <1>3, <1>5

LEMMA StaffKept ==
    ASSUME StaffInv, [StaffNext]_staffVars
    PROVE  StaffInv'
<1>1. StaffTypeOK /\ ForceSound /\ ForceCounted /\ CoinsDistinct /\ NobodyHidesOwnNotes
    BY DEF StaffInv
<1>2. CASE UNCHANGED staffVars
    <2>1. /\ UNCHANGED <<sailors, force, forceLog, forceCall, cutShort, coins, nameOf>>
          /\ UNCHANGED <<removals, notes, staffUsed, staffFaults>>
        BY <1>2 DEF staffVars
    <2>2. Unaccounted' = Unaccounted
        BY <2>1 DEF Unaccounted, Logged, HalfDone, Turn
    <2>3. StaffTypeOK' /\ ForceSound'
        BY <1>1, <2>1 DEF StaffTypeOK, ForceSound
    <2>4. ForceCounted' /\ CoinsDistinct' /\ NobodyHidesOwnNotes'
        BY <1>1, <2>1, <2>2 DEF ForceCounted, CoinsDistinct, NobodyHidesOwnNotes
    <2> QED
        BY <2>3, <2>4 DEF StaffInv
<1>3. ASSUME NEW p \in Person, AddInfo(p)
      PROVE  StaffInv'
    <2>1. /\ forceCall = NoForce /\ forcesUnchanged' = forcesUnchanged
          /\ sailors' = sailors \union {p}
          /\ UNCHANGED <<coins, nameOf, removals, notes, staffUsed>>
        BY <1>3 DEF AddInfo
    <2>2. CoinsDistinct' /\ NobodyHidesOwnNotes'
        BY <1>1, <2>1 DEF CoinsDistinct, NobodyHidesOwnNotes
    <2> QED
        BY <1>1, <2>1, <2>2, OtherStep DEF StaffTypeOK
<1>4. ASSUME NEW o \in Person, NEW s \in Person, NEW ks \in SUBSET Kind \ {{}},
             NEW amounts \in [ks -> ForceAmounts], ForceAdd(o, s, amounts)
      PROVE  StaffInv'
    <2>1. /\ forceCall = NoForce /\ staffUsed' = staffUsed + 1
          /\ forceCall' = [target |-> s, by |-> o, amounts |-> amounts, logging |-> FALSE,
                           todo |-> {i \in DOMAIN Kinds : Kinds[i] \in DOMAIN amounts}]
          /\ UNCHANGED <<force, forceLog, cutShort, sailors, coins>>
          /\ UNCHANGED <<nameOf, removals, notes, staffFaults>>
        BY <1>4 DEF ForceAdd, UseStaff, recordsUnchanged
    <2>2. /\ forceCall'.target = s /\ forceCall'.amounts = amounts /\ forceCall'.logging = FALSE
          /\ forceCall'.todo = {i \in DOMAIN Kinds : Kinds[i] \in DOMAIN amounts}
        BY <2>1
    <2>3. \A k \in DOMAIN amounts : amounts[k] \in Int
        BY StaffAssumption
    <2>4. ForceSound'
        <3>1. /\ forceCall'.target \in Person /\ forceCall'.todo \in SUBSET (DOMAIN Kinds)
              /\ \A i \in forceCall'.todo : forceCall'.amounts[Kinds[i]] \in Int
            BY <2>2, <2>3
        <3>2. forceCall'.logging \in BOOLEAN
            BY <2>2
        <3> QED
            BY <3>1, <3>2 DEF ForceSound
    <2>5. StaffTypeOK' /\ CoinsDistinct' /\ NobodyHidesOwnNotes'
        BY <1>1, <2>1 DEF StaffTypeOK, CoinsDistinct, NobodyHidesOwnNotes
    <2>6. ForceCounted'
        BY <1>1, <2>1, <2>2, <2>5, CountStays
    <2> QED
        BY <2>4, <2>5, <2>6 DEF StaffInv
<1>5. CASE RaiseForce
    BY <1>5, RaiseKeeps
<1>6. CASE LogForce
    BY <1>6, LogKeeps
<1>7. CASE ForceFails
    <2>1. /\ forceCall # NoForce /\ staffFaults' = staffFaults + 1 /\ forceCall' = NoForce
          /\ cutShort' = cutShort + 1 /\ UNCHANGED <<force, forceLog, sailors, coins>>
          /\ UNCHANGED <<nameOf, removals, notes, staffUsed>>
        BY <1>7 DEF ForceFails, recordsUnchanged
    <2>2. StaffTypeOK' /\ ForceSound' /\ CoinsDistinct' /\ NobodyHidesOwnNotes'
        BY <1>1, <2>1 DEF StaffTypeOK, ForceSound, CoinsDistinct, NobodyHidesOwnNotes
    <2>3. ForceCounted'
        BY <1>1, <2>1, <2>2, CountGrows
    <2> QED
        BY <2>2, <2>3 DEF StaffInv
<1>8. ASSUME NEW p \in Person, NEW n \in Names, Rename(p, n)
      PROVE  StaffInv'
    <2>1. /\ forceCall = NoForce /\ forcesUnchanged' = forcesUnchanged
          /\ nameOf' = [nameOf EXCEPT ![p] = n] /\ staffUsed' = staffUsed + 1
          /\ UNCHANGED <<sailors, coins, removals, notes>>
        BY <1>8 DEF Rename, UseStaff
    <2>2. CoinsDistinct' /\ NobodyHidesOwnNotes'
        BY <1>1, <2>1 DEF CoinsDistinct, NobodyHidesOwnNotes
    <2> QED
        BY <1>1, <2>1, <2>2, OtherStep DEF StaffTypeOK
<1>9. ASSUME NEW o \in Person, NEW s \in Person, NEW n \in Names, NEW type \in CoinTypes,
             NEW command \in {"addcoin", "addanycoin"}, SaveCoin(o, s, n, type, command),
             command = "addcoin" =>
                 \A c \in coins : ~(c.target = s /\ c.name = n /\ c.type = type)
      PROVE  StaffInv'
    <2>1. /\ forceCall = NoForce /\ forcesUnchanged' = forcesUnchanged
          /\ UNCHANGED <<sailors, nameOf, removals, notes>>
        BY <1>9 DEF SaveCoin
    <2>2. coins' \in SUBSET Coin /\ staffUsed' \in Nat /\ CoinsDistinct'
        BY <1>9, SaveCoinKeeps
    <2>3. NobodyHidesOwnNotes'
        BY <1>1, <2>1 DEF NobodyHidesOwnNotes
    <2> QED
        BY <1>1, <2>1, <2>2, <2>3, OtherStep DEF StaffTypeOK
<1>10. ASSUME NEW o \in Person, NEW s \in Person, NEW type \in CoinTypes, AddCoin(o, s, type)
       PROVE  StaffInv'
    <2>1. nameOf[o] \in Names
        BY <1>1 DEF StaffTypeOK
    <2> QED
        BY <1>9, <1>10, <2>1 DEF AddCoin
<1>11. ASSUME NEW o \in Person, NEW s \in Person, NEW n \in Names, NEW type \in CoinTypes,
              AddAnyCoin(o, s, n, type)
       PROVE  StaffInv'
    BY <1>9, <1>11 DEF AddAnyCoin
<1>12. ASSUME NEW o \in Person, NEW s \in Person, NEW type \in CoinTypes, RemoveCoin(o, s, type)
       PROVE  StaffInv'
    <2>1. /\ forceCall = NoForce /\ forcesUnchanged' = forcesUnchanged
          /\ removals' \subseteq removals \union coins /\ staffUsed' = staffUsed + 1
          /\ UNCHANGED <<sailors, coins, nameOf, notes>>
        BY <1>12 DEF RemoveCoin, UseStaff
    <2>2. CoinsDistinct' /\ NobodyHidesOwnNotes'
        BY <1>1, <2>1 DEF CoinsDistinct, NobodyHidesOwnNotes
    <2> QED
        BY <1>1, <2>1, <2>2, OtherStep DEF StaffTypeOK
<1>13. ASSUME NEW c \in removals, ConfirmRemoval(c) \/ CancelRemoval(c)
       PROVE  StaffInv'
    <2>1. /\ forceCall = NoForce /\ forcesUnchanged' = forcesUnchanged
          /\ coins' \subseteq coins /\ removals' \subseteq removals
          /\ UNCHANGED <<sailors, nameOf, notes, staffUsed>>
        BY <1>13 DEF ConfirmRemoval, CancelRemoval
    <2>2. CoinsDistinct' /\ NobodyHidesOwnNotes'
        BY <1>1, <2>1 DEF CoinsDistinct, NobodyHidesOwnNotes
    <2> QED
        BY <1>1, <2>1, <2>2, OtherStep DEF StaffTypeOK
<1>14. ASSUME NEW o \in Person, NEW s \in Person, AddNote(o, s)
       PROVE  StaffInv'
    <2> DEFINE new == [id |-> staffUsed + 1, target |-> s, by |-> o, hidden |-> FALSE,
                       whoHid |-> "nobody"]
    <2>1. /\ forceCall = NoForce /\ forcesUnchanged' = forcesUnchanged
          /\ notes' = notes \union {new} /\ staffUsed' = staffUsed + 1
          /\ UNCHANGED <<sailors, coins, nameOf, removals>>
        BY <1>14 DEF AddNote, UseStaff
    <2>2. new \in Note /\ ~new.hidden
        BY <1>1 DEF StaffTypeOK, Note
    <2> HIDE DEF new
    <2>3. CoinsDistinct' /\ NobodyHidesOwnNotes'
        BY <1>1, <2>1, <2>2 DEF CoinsDistinct, NobodyHidesOwnNotes
    <2> QED
        BY <1>1, <2>1, <2>2, <2>3, OtherStep DEF StaffTypeOK
<1>15. ASSUME NEW o \in Person, NEW s \in Person, NEW n \in notes, HideNote(o, s, n)
       PROVE  StaffInv'
    <2>1. /\ forceCall = NoForce /\ forcesUnchanged' = forcesUnchanged
          /\ UNCHANGED <<sailors, coins, nameOf, removals, staffUsed>>
        BY <1>15 DEF HideNote
    <2>2. notes' \in SUBSET Note /\ NobodyHidesOwnNotes'
        BY <1>15, HideKeeps
    <2>3. CoinsDistinct'
        BY <1>1, <2>1 DEF CoinsDistinct
    <2> QED
        BY <1>1, <2>1, <2>2, <2>3, OtherStep DEF StaffTypeOK
<1> QED
    BY <1>2, <1>3, <1>4, <1>5, <1>6, <1>7, <1>8, <1>10, <1>11, <1>12, <1>13, <1>14, <1>15
    DEF StaffNext

\* Between commands, no option is half done.
LEMMA StaffProper == StaffInv => ForceAccounted /\ CoinsDistinct /\ NobodyHidesOwnNotes
<1> SUFFICES ASSUME StaffInv, forceCall = NoForce
             PROVE  Cardinality({p \in Person \X Kind :
                                    force[p[1]][p[2]] # forceLog[p[1]][p[2]]}) <= cutShort
    BY DEF StaffInv, ForceAccounted
<1>1. \A s \in Person, k \in Kind : Logged(s, k) = forceLog[s][k]
    BY NoneHalfDone DEF StaffInv
<1>2. Unaccounted = {p \in Person \X Kind : force[p[1]][p[2]] # forceLog[p[1]][p[2]]}
    BY <1>1 DEF Unaccounted
<1> QED
    BY <1>2 DEF StaffInv, ForceCounted

-----------------------------------------------------------------------------
(***************************************************************************)
(* All of them together.                                                   *)
(***************************************************************************)
RecordsInv == TrainingInv /\ RepInv /\ StaffInv

\* The three desks at once, with none a behaviour keeps to.
AllRecords ==
    /\ TrainingInit /\ RepInit /\ StaffInit
    /\ [][/\ [TrainingNext]_trainingVars /\ [RepNext]_repVars
          /\ [StaffNext]_staffVars]_recordsVars

LEMMA RecordsInitially ==
    ASSUME TrainingInit, RepInit, StaffInit
    PROVE  RecordsInv
BY TrainingInitially, RepInitially, StaffInitially DEF RecordsInv

LEMMA RecordsKept ==
    ASSUME RecordsInv, [TrainingNext]_trainingVars, [RepNext]_repVars, [StaffNext]_staffVars
    PROVE  RecordsInv'
BY TrainingKept, RepKept, StaffKept DEF RecordsInv

\* A step at one desk is none at the others.
LEMMA StepsOfRecords ==
    ASSUME [Next]_mcVars
    PROVE  /\ [TrainingNext]_trainingVars /\ [RepNext]_repVars /\ [StaffNext]_staffVars
           /\ [FiguresNext]_figuresVars
<1>1. CASE UNCHANGED mcVars
    BY <1>1 DEF mcVars, recordsVars
<1>2. CASE Next
    BY <1>2 DEF Next, recordsVars
<1> QED
    BY <1>1, <1>2

\* The invariants of all desks hold in the composition a run checks.
THEOREM RecordsHold == Spec => []RecordsInv
<1>1. Init => RecordsInv
    BY RecordsInitially DEF Init
<1>2. RecordsInv /\ [Next]_mcVars => RecordsInv'
    BY StepsOfRecords, RecordsKept
<1> QED
    BY <1>1, <1>2, PTL DEF Spec

\* They hold as well when trainings, points and officers' commands are
\* recorded at once, the way the bot does.
THEOREM AllRecordsHold == AllRecords => []RecordsInv
<1>1. TrainingInit /\ RepInit /\ StaffInit => RecordsInv
    BY RecordsInitially
<1>2. RecordsInv /\ [/\ [TrainingNext]_trainingVars /\ [RepNext]_repVars
                     /\ [StaffNext]_staffVars]_recordsVars
      => RecordsInv'
    BY RecordsKept DEF recordsVars
<1> QED
    BY <1>1, <1>2, PTL DEF AllRecords

\* No counter of trainings or representation falls below zero, and every
\* table keeps to its columns.
THEOREM RecordsTyped == Spec => []RecordsTypeOK
<1>1. RecordsInv => RecordsTypeOK
    BY DEF RecordsInv, RecordsTypeOK, TrainingInv, RepInv, StaffInv
<1> QED
    BY <1>1, RecordsHold, PTL

\* Points of trainings follow their rows through deletions, read-backs and
\* faults between two commits, off by one at most for each of those; and no
\* training of a deleted message comes back but through a page read before.
THEOREM TrainingsFollow == Spec => []TrainingsFollowRows
<1>1. RecordsInv => TrainingsFollowRows
    BY TrainingHolds DEF RecordsInv, TrainingsFollowRows
<1> QED
    BY <1>1, RecordsHold, PTL

\* Points of representation are the sum of the mutations on record, at every
\* moment of the past as well, and a dump of one department, or of both, adds
\* up to the points it shows.
THEOREM PointsOnRecord == Spec => []PointsAreOnRecord
<1>1. RecordsInv => PointsAreOnRecord
    BY RepBalances DEF RecordsInv, RepInv, PointsAreOnRecord
<1> QED
    BY <1>1, RecordsHold, PTL

\* Forced points have their entries but for one of each command cut short,
\* /addcoin never gives the same coin twice, nobody hides a note about
\* themselves.
THEOREM OfficersTrue == Spec => []OfficersOnRecord
<1>1. RecordsInv => OfficersOnRecord
    BY StaffProper DEF RecordsInv, OfficersOnRecord
<1> QED
    BY <1>1, RecordsHold, PTL

-----------------------------------------------------------------------------
(*****************************************************************************)
(* Calendar buckets (TimeRanges): they cover a range without a gap.          *)
(*****************************************************************************)
Buckets == {"5min", "hour", "6hour", "day", "week", "month"}
-----------------------------------------------------------------------------
LEMMA Units == Hour = 60 /\ Day = 1440 /\ Week = 10080
BY DEF Hour, Day, Week

\* A day is of one year of 365 days, and of one place in it.
LEMMA YearDays ==
    ASSUME NEW t \in Int
    PROVE  /\ DayOf(t) \in Int /\ YearOf(t) \in Int /\ DayOf(t) % 365 \in 0..364
           /\ DayOf(t) = 365 * YearOf(t) + (DayOf(t) % 365)
           /\ 1440 * DayOf(t) <= t /\ t < 1440 * DayOf(t) + 1440
<1>1. DayOf(t) = t \div 1440
    BY Units DEF DayOf
<1>2. DayOf(t) \in Int /\ 1440 * DayOf(t) <= t /\ t < 1440 * DayOf(t) + 1440
    BY <1>1
<1>3. \A d \in Int : d \div 365 \in Int /\ d % 365 \in 0..364 /\ d = 365 * (d \div 365) + (d % 365)
    <2> SUFFICES ASSUME NEW d \in Int
                 PROVE  d \div 365 \in Int /\ d % 365 \in 0..364 /\ d = 365 * (d \div 365) + (d % 365)
        OBVIOUS
    <2>1. d \div 365 \in Int
        OBVIOUS
    <2>2. d % 365 \in 0..364
        OBVIOUS
    <2>3. d = 365 * (d \div 365) + (d % 365)
        OBVIOUS
    <2> QED
        BY <2>1, <2>2, <2>3
<1> DEFINE d == DayOf(t)
<1>4. YearOf(t) = d \div 365
    BY DEF YearOf
<1>5. d \div 365 \in Int /\ d % 365 \in 0..364 /\ d = 365 * (d \div 365) + (d % 365)
    BY <1>2, <1>3
<1> QED
    BY <1>2, <1>4, <1>5

\* A day of the year is of one month: the last that begins no later.
LEMMA MonthHolds ==
    ASSUME NEW t \in Int
    PROVE  /\ MonthOf(t) \in 1..12 /\ DaysBefore[MonthOf(t)] <= DayOf(t) % 365
           /\ \A m \in 1..12 : DaysBefore[m] <= DayOf(t) % 365 => m <= MonthOf(t)
<1> DEFINE d == DayOf(t) % 365
           S == {m \in 1..12 : DaysBefore[m] <= d}
<1>1. d \in 0..364
    BY YearDays
<1>2. 1 \in S
    BY <1>1 DEF DaysBefore
<1>3. \E x \in S : \A y \in S : x >= y
    <2>1. CASE 12 \in S
        BY <2>1
    <2>2. CASE 12 \notin S /\ 11 \in S
        BY <2>2
    <2>3. CASE 12 \notin S /\ 11 \notin S /\ 10 \in S
        BY <2>3
    <2>4. CASE 12 \notin S /\ 11 \notin S /\ 10 \notin S /\ 9 \in S
        BY <2>4
    <2>5. CASE 12 \notin S /\ 11 \notin S /\ 10 \notin S /\ 9 \notin S /\ 8 \in S
        BY <2>5
    <2>6. CASE 12 \notin S /\ 11 \notin S /\ 10 \notin S /\ 9 \notin S /\ 8 \notin S /\ 7 \in S
        BY <2>6
    <2>7. CASE S \cap (7..12) = {} /\ 6 \in S
        BY <2>7
    <2>8. CASE S \cap (6..12) = {}
        BY <2>8, <1>2
    <2> QED
        BY <2>1, <2>2, <2>3, <2>4, <2>5, <2>6, <2>7, <2>8
<1>4. MonthOf(t) = CHOOSE x \in S : \A y \in S : x >= y
    BY DEF MonthOf, Max
<1>5. MonthOf(t) \in S /\ \A y \in S : MonthOf(t) >= y
    BY <1>3, <1>4
<1> QED
    BY <1>5

\* An instant of a day of a month is of that year and of that month.
LEMMA FirstIsStart ==
    ASSUME NEW y \in Int, NEW m \in 1..12, NEW d \in Int,
           d >= DaysBefore[m], d < (IF m = 12 THEN 365 ELSE DaysBefore[m + 1]),
           NEW t \in Int, 1440 * (365 * y + d) <= t, t < 1440 * (365 * y + d) + 1440
    PROVE  YearOf(t) = y /\ MonthOf(t) = m
<1>1. d \in 0..364
    BY DEF DaysBefore
<1>2. DayOf(t) = 365 * y + d
    BY <1>1, Units DEF DayOf
<1>3. YearOf(t) = y /\ DayOf(t) % 365 = d
    BY <1>1, <1>2 DEF YearOf
<1>4. \A k \in 1..12 : DaysBefore[k] <= d => k <= m
    BY DEF DaysBefore
<1> QED
    BY <1>3, <1>4, MonthHolds

\* A bucket: its start is a start, at or before every instant of it; the next one starts after
\* them, and what lies between belongs to it.
Starts(bucket) == {s \in Int : BucketStart(s, bucket) = s}
Divides(bucket) ==
    /\ \A t \in Int : /\ BucketStart(t, bucket) \in Starts(bucket)
                      /\ BucketStart(t, bucket) <= t
                      /\ t < NextBucketStart(BucketStart(t, bucket), bucket)
    /\ \A t \in Int : NextBucketStart(t, bucket) \in Int
    /\ \A s \in Starts(bucket) :
          /\ NextBucketStart(s, bucket) \in Starts(bucket)
          /\ \A u \in Int : s <= u /\ u < NextBucketStart(s, bucket) => BucketStart(u, bucket) = s

LEMMA FiveMinutes == Divides("5min")
<1>1. \A t \in Int : BucketStart(t, "5min") = t - (t % 5) /\ NextBucketStart(t, "5min") = t + 5
    BY DEF BucketStart, NextBucketStart
<1> QED
    BY <1>1 DEF Divides, Starts

LEMMA Hours == Divides("hour")
<1>1. \A t \in Int : BucketStart(t, "hour") = t - (t % 60) /\ NextBucketStart(t, "hour") = t + 60
    BY Units DEF BucketStart, NextBucketStart
<1> QED
    BY <1>1 DEF Divides, Starts

LEMMA SixHours == Divides("6hour")
<1>1. \A t \in Int : BucketStart(t, "6hour") = t - (t % 360) /\ NextBucketStart(t, "6hour") = t + 360
    BY Units DEF BucketStart, NextBucketStart
<1> QED
    BY <1>1 DEF Divides, Starts

LEMMA Days == Divides("day")
<1>1. \A t \in Int : BucketStart(t, "day") = t - (t % 1440) /\ NextBucketStart(t, "day") = t + 1440
    BY Units DEF BucketStart, NextBucketStart
<1> QED
    BY <1>1 DEF Divides, Starts

LEMMA Weeks == Divides("week")
<1>1. \A t \in Int : /\ BucketStart(t, "week") = 1440 * ((t \div 1440) - (((t \div 1440) + 2) % 7))
                     /\ NextBucketStart(t, "week") = t + 10080
    BY Units DEF BucketStart, NextBucketStart, DayOf, Weekday
<1> QED
    BY <1>1 DEF Divides, Starts

\* The month after (y, m), by its first day.
FirstDayOf(y, m) == 365 * y + DaysBefore[m]

LEMMA MonthOfInstant ==
    ASSUME NEW y \in Int, NEW m \in 1..12, NEW t \in Int,
           1440 * FirstDayOf(y, m) <= t,
           t < IF m = 12 THEN 1440 * FirstDayOf(y + 1, 1) ELSE 1440 * FirstDayOf(y, m + 1)
    PROVE  YearOf(t) = y /\ MonthOf(t) = m
<1> DEFINE d == DayOf(t) - 365 * y
<1>1. DayOf(t) \in Int /\ 1440 * DayOf(t) <= t /\ t < 1440 * DayOf(t) + 1440
    BY YearDays
<1>2. DaysBefore[m] \in Int /\ DaysBefore[1] = 0 /\ (m # 12 => DaysBefore[m + 1] \in Int)
    BY DEF DaysBefore
<1>3. d \in Int /\ d >= DaysBefore[m]
    BY <1>1, <1>2 DEF FirstDayOf
<1>4. CASE m = 12
    BY <1>1, <1>2, <1>3, <1>4, FirstIsStart DEF FirstDayOf
<1>5. CASE m # 12
    <2>1. m + 1 \in 1..12 /\ FirstDayOf(y, m + 1) = 365 * y + DaysBefore[m + 1] /\ DaysBefore[m + 1] \in Int
        BY <1>2, <1>5 DEF FirstDayOf
    <2>2. d < DaysBefore[m + 1]
        BY <1>1, <1>3, <1>5, <2>1
    <2>3. 1440 * (365 * y + d) <= t /\ t < 1440 * (365 * y + d) + 1440
        BY <1>1
    <2> HIDE DEF d
    <2> QED
        BY <1>3, <1>5, <2>2, <2>3, FirstIsStart
<1> QED
    BY <1>4, <1>5

LEMMA MonthEnds ==
    ASSUME NEW t \in Int
    PROVE  LET y == YearOf(t)  m == MonthOf(t)
           IN  /\ y \in Int /\ m \in 1..12
               /\ 1440 * FirstDayOf(y, m) <= t
               /\ t < IF m = 12 THEN 1440 * FirstDayOf(y + 1, 1) ELSE 1440 * FirstDayOf(y, m + 1)
<1> DEFINE y == YearOf(t)
           m == MonthOf(t)
           d == DayOf(t) % 365
           e == DayOf(t)
<1>1. y \in Int /\ d \in 0..364 /\ e = 365 * y + d /\ e \in Int
    BY YearDays
<1>2. 1440 * e <= t /\ t < 1440 * e + 1440
    BY YearDays
<1>3. m \in 1..12 /\ DaysBefore[m] <= d
    BY MonthHolds
<1>4. \A k \in 1..12 : DaysBefore[k] <= d => k <= m
    BY MonthHolds
<1>5. DaysBefore[1] = 0 /\ \A k \in 1..12 : DaysBefore[k] \in Int
    BY DEF DaysBefore
<1> HIDE DEF y, m, d, e
<1>6. m # 12 => m + 1 \in 1..12 /\ d < DaysBefore[m + 1]
    <2> SUFFICES ASSUME m # 12, ~(d < DaysBefore[m + 1])
                 PROVE  FALSE
        BY <1>3
    <2>1. m + 1 \in 1..12
        BY <1>3
    <2>2. DaysBefore[m + 1] \in Int
        BY <1>5, <2>1
    <2> QED
        BY <1>1, <1>3, <1>4, <2>1, <2>2
<1>7. DaysBefore[m] \in Int
    BY <1>3, <1>5
<1>8. 1440 * FirstDayOf(y, m) <= t
    BY <1>1, <1>2, <1>3, <1>7 DEF FirstDayOf
<1>9. m = 12 => t < 1440 * FirstDayOf(y + 1, 1)
    BY <1>1, <1>2, <1>5 DEF FirstDayOf
<1>10. m # 12 => t < 1440 * FirstDayOf(y, m + 1)
    <2> SUFFICES ASSUME m # 12
                 PROVE  t < 1440 * FirstDayOf(y, m + 1)
        OBVIOUS
    <2>1. m + 1 \in 1..12 /\ d < DaysBefore[m + 1] /\ DaysBefore[m + 1] \in Int
        BY <1>5, <1>6
    <2> QED
        BY <1>1, <1>2, <2>1 DEF FirstDayOf
<1>11. y \in Int /\ m \in 1..12
    BY <1>1, <1>3
<1> QED
    BY <1>8, <1>9, <1>10, <1>11 DEF y, m

Opening(y, m) == 1440 * FirstDayOf(y, m)
Following(y, m) == IF m = 12 THEN Opening(y + 1, 1) ELSE Opening(y, m + 1)
Opens(s, y, m) == s \in Int /\ y \in Int /\ m \in 1..12 /\ s = Opening(y, m)

LEMMA FollowingOpens ==
    ASSUME NEW y \in Int, NEW m \in 1..12
    PROVE  /\ Opening(y, m) \in Int /\ Following(y, m) \in Int
           /\ Opening(y, m) < Following(y, m)
           /\ \E z, n : Opens(Following(y, m), z, n)
<1>1. \A k \in 1..12 : DaysBefore[k] \in Int
    BY DEF DaysBefore
<1>2. \A z \in Int, k \in 1..12 : Opening(z, k) = 1440 * (365 * z + DaysBefore[k])
    BY DEF Opening, FirstDayOf
<1>3. \A z \in Int, k \in 1..12 : Opening(z, k) \in Int
    <2> TAKE z \in Int, k \in 1..12
    <2> DEFINE d == DaysBefore[k]
    <2>0. d \in Int
        BY <1>1
    <2>1. Opening(z, k) = 1440 * (365 * z + d)
        BY DEF Opening, FirstDayOf
    <2> HIDE DEF d
    <2> QED
        BY <2>0, <2>1
<1>4. CASE m = 12
    <2>1. y + 1 \in Int /\ 1 \in 1..12 /\ DaysBefore[1] = 0 /\ DaysBefore[12] = 334
        BY DEF DaysBefore
    <2>2. Following(y, m) = Opening(y + 1, 1)
        BY <1>4 DEF Following
    <2>3. Opening(y + 1, 1) \in Int
        BY <1>3, <2>1
    <2>4. Opens(Following(y, m), y + 1, 1)
        BY <2>1, <2>2, <2>3 DEF Opens
    <2>5. \E z, n : Opens(Following(y, m), z, n)
        BY <2>4, Zenon
    <2>6. Opening(y + 1, 1) = 1440 * (365 * (y + 1))
        BY <1>2, <2>1
    <2>7. Opening(y, m) = 1440 * (365 * y + 334)
        BY <1>2, <1>4, <2>1
    <2>8. Opening(y, m) < Following(y, m)
        BY <2>2, <2>6, <2>7
    <2>9. Opening(y, m) \in Int /\ Following(y, m) \in Int
        BY <1>3, <2>2, <2>3
    <2> QED
        BY <2>5, <2>8, <2>9
<1>5. CASE m # 12
    <2>1. m + 1 \in 1..12 /\ DaysBefore[m] < DaysBefore[m + 1]
        BY <1>5 DEF DaysBefore
    <2>2. Following(y, m) = Opening(y, m + 1)
        BY <1>5 DEF Following
    <2>3. Opening(y, m + 1) \in Int
        BY <1>3, <2>1
    <2>4. Opens(Following(y, m), y, m + 1)
        BY <2>1, <2>2, <2>3 DEF Opens
    <2>5. \E z, n : Opens(Following(y, m), z, n)
        BY <2>4, Zenon
    <2> DEFINE d == DaysBefore[m]
               e == DaysBefore[m + 1]
    <2>6. Opening(y, m + 1) = 1440 * (365 * y + e)
        BY DEF Opening, FirstDayOf
    <2>7. Opening(y, m) = 1440 * (365 * y + d)
        BY DEF Opening, FirstDayOf
    <2>11. d \in Int /\ e \in Int
        BY <1>1, <2>1
    <2>10. d < e
        BY <2>1
    <2> HIDE DEF d, e
    <2>8. Opening(y, m) < Following(y, m)
        BY <2>2, <2>6, <2>7, <2>10, <2>11
    <2>9. Opening(y, m) \in Int /\ Following(y, m) \in Int
        BY <1>3, <2>2, <2>3
    <2> QED
        BY <2>5, <2>8, <2>9
<1> QED
    BY <1>4, <1>5

LEMMA Months == Divides("month")
<1> DEFINE Start(t) == Opening(YearOf(t), MonthOf(t))
<1>1. \A t \in Int : /\ BucketStart(t, "month") = Start(t)
                     /\ NextBucketStart(t, "month") = Following(YearOf(t), MonthOf(t))
    BY Units DEF BucketStart, NextBucketStart, FirstOf, FirstDayOf, Following, Opening
<1>3. \A y \in Int, m \in 1..12, u \in Int :
          Opening(y, m) <= u /\ u < Following(y, m) => YearOf(u) = y /\ MonthOf(u) = m
    BY MonthOfInstant DEF Following, Opening
<1>4. \A t \in Int : YearOf(t) \in Int /\ MonthOf(t) \in 1..12 /\ Start(t) <= t /\ t < Following(YearOf(t), MonthOf(t))
    BY MonthEnds DEF Following, Opening
<1>6. \A s, y, m : Opens(s, y, m) => Start(s) = s /\ YearOf(s) = y /\ MonthOf(s) = m
    <2> SUFFICES ASSUME NEW s, NEW y, NEW m, Opens(s, y, m)
                 PROVE  Start(s) = s /\ YearOf(s) = y /\ MonthOf(s) = m
        OBVIOUS
    <2>1. y \in Int /\ m \in 1..12 /\ s \in Int /\ s = Opening(y, m)
        BY DEF Opens
    <2>2. s < Following(y, m)
        BY <2>1, FollowingOpens
    <2>3. YearOf(s) = y /\ MonthOf(s) = m
        BY <1>3, <2>1, <2>2
    <2> QED
        BY <2>1, <2>3
<1>7. \A t \in Int : Opens(Start(t), YearOf(t), MonthOf(t))
    BY <1>4, FollowingOpens DEF Opens
<1> HIDE DEF Start
<1>8. \A t \in Int : /\ Start(t) \in Int /\ Start(Start(t)) = Start(t) /\ Start(t) <= t
                     /\ YearOf(Start(t)) = YearOf(t) /\ MonthOf(Start(t)) = MonthOf(t)
                     /\ t < Following(YearOf(t), MonthOf(t))
    <2> TAKE t \in Int
    <2>1. Opens(Start(t), YearOf(t), MonthOf(t))
        BY <1>7
    <2>2. Start(t) \in Int
        BY <2>1 DEF Opens
    <2> QED
        BY <1>4, <1>6, <2>1, <2>2
<1>9. \A t \in Int : /\ Following(YearOf(t), MonthOf(t)) \in Int
                     /\ Start(Following(YearOf(t), MonthOf(t))) = Following(YearOf(t), MonthOf(t))
    <2> TAKE t \in Int
    <2>1. PICK z, n : Opens(Following(YearOf(t), MonthOf(t)), z, n)
        BY <1>4, FollowingOpens, Zenon
    <2> QED
        BY <1>6, <2>1 DEF Opens
<1>10. \A t \in Int : Start(t) = t => \A u \in Int : t <= u /\ u < Following(YearOf(t), MonthOf(t)) => Start(u) = t
    <2> SUFFICES ASSUME NEW t \in Int, Start(t) = t, NEW u \in Int, t <= u, u < Following(YearOf(t), MonthOf(t))
                 PROVE  Start(u) = t
        OBVIOUS
    <2>1. Opening(YearOf(t), MonthOf(t)) = t
        BY DEF Start
    <2>2. YearOf(t) \in Int /\ MonthOf(t) \in 1..12
        BY <1>4
    <2>3. YearOf(u) = YearOf(t) /\ MonthOf(u) = MonthOf(t)
        BY <1>3, <2>1, <2>2
    <2> QED
        BY <2>1, <2>3 DEF Start
<1> QED
    BY <1>1, <1>8, <1>9, <1>10 DEF Divides, Starts

\* Buckets divide time: every instant is in one, and the next starts where it ends.
LEMMA AllDivide == \A bucket \in Buckets : Divides(bucket)
BY FiveMinutes, Hours, SixHours, Days, Weeks, Months DEF Buckets

-----------------------------------------------------------------------------
\* A loop that adds t and goes on with G[t] while t is at most last: pairs of where it is
\* begun and what it adds, the least set of them that its body respects.
Respects(R, last, G) ==
    \A t \in Int : t <= last => /\ <<t, t>> \in R
                                /\ \A u \in Int : <<G[t], u>> \in R => <<t, u>> \in R
Added(last, G) == {p \in Int \X Int : \A R \in SUBSET (Int \X Int) : Respects(R, last, G) => p \in R}
Loop(f, last, G) == f = [t \in Int |-> IF t <= last THEN {t} \union f[G[t]] ELSE {}]

LEMMA AddedRespects ==
    ASSUME NEW last \in Int, NEW G \in [Int -> Int]
    PROVE  Respects(Added(last, G), last, G)
<1> SUFFICES ASSUME NEW t \in Int, t <= last
             PROVE  /\ <<t, t>> \in Added(last, G)
                    /\ \A u \in Int : <<G[t], u>> \in Added(last, G) => <<t, u>> \in Added(last, G)
    BY DEF Respects
<1>1. <<t, t>> \in Added(last, G)
    <2> SUFFICES ASSUME NEW R \in SUBSET (Int \X Int), Respects(R, last, G)
                 PROVE  <<t, t>> \in R
        BY DEF Added
    <2> QED
        BY DEF Respects
<1>2. ASSUME NEW u \in Int, <<G[t], u>> \in Added(last, G)
      PROVE  <<t, u>> \in Added(last, G)
    <2> SUFFICES ASSUME NEW R \in SUBSET (Int \X Int), Respects(R, last, G)
                 PROVE  <<t, u>> \in R
        BY DEF Added
    <2>1. <<G[t], u>> \in R
        BY <1>2 DEF Added
    <2> QED
        BY <2>1 DEF Respects
<1> QED
    BY <1>1, <1>2

\* What the loop of a generator visits, it visits before its end, at once or after a step.
LEMMA AddedIsLeast ==
    ASSUME NEW last \in Int, NEW G \in [Int -> Int], NEW t \in Int, NEW u \in Int,
           <<t, u>> \in Added(last, G)
    PROVE  t <= last /\ (u = t \/ <<G[t], u>> \in Added(last, G))
<1> SUFFICES ASSUME ~(t <= last /\ (u = t \/ <<G[t], u>> \in Added(last, G)))
             PROVE  FALSE
    OBVIOUS
<1> DEFINE A == Added(last, G)
           R == A \ {<<t, u>>}
<1>1. A \in SUBSET (Int \X Int) /\ R \in SUBSET (Int \X Int)
    BY DEF Added
<1>2. Respects(A, last, G)
    BY AddedRespects
<1>3. Respects(R, last, G)
    <2> SUFFICES ASSUME NEW v \in Int, v <= last
                 PROVE  <<v, v>> \in R /\ \A w \in Int : <<G[v], w>> \in R => <<v, w>> \in R
        BY DEF Respects
    <2>1. <<v, v>> \in A /\ \A w \in Int : <<G[v], w>> \in A => <<v, w>> \in A
        BY <1>2 DEF Respects
    <2>2. <<v, v>> # <<t, u>>
        OBVIOUS
    <2>3. ASSUME NEW w \in Int, <<G[v], w>> \in R
          PROVE  <<v, w>> \in R
        <3>1. <<G[v], w>> \in A /\ <<v, w>> \in A
            BY <2>1, <2>3
        <3>2. <<v, w>> # <<t, u>>
            BY <3>1
        <3> QED
            BY <3>1, <3>2
    <2> QED
        BY <2>1, <2>2, <2>3
<1>4. <<t, u>> \in R
    BY <1>1, <1>3 DEF Added
<1> QED
    BY <1>4

LEMMA LoopsEnd ==
    ASSUME NEW last \in Int, NEW G \in [Int -> Int]
    PROVE  \E f : Loop(f, last, G)
<1> DEFINE A == Added(last, G)
           f == [t \in Int |-> {u \in Int : <<t, u>> \in A}]
<1>1. ASSUME NEW t \in Int
      PROVE  f[t] = IF t <= last THEN {t} \union f[G[t]] ELSE {}
    <2>1. \A u \in Int : <<t, u>> \in A => t <= last /\ (u = t \/ <<G[t], u>> \in A)
        BY AddedIsLeast
    <2>2. t <= last => <<t, t>> \in A /\ \A u \in Int : <<G[t], u>> \in A => <<t, u>> \in A
        BY AddedRespects DEF Respects
    <2>3. G[t] \in Int
        OBVIOUS
    <2> HIDE DEF A
    <2> QED
        BY <2>1, <2>2, <2>3
<1>2. Loop(f, last, G)
    <2> HIDE DEF A
    <2>1. f = [t \in Int |-> f[t]]
        OBVIOUS
    <2> HIDE DEF f
    <2>2. [t \in Int |-> f[t]] = [t \in Int |-> IF t <= last THEN {t} \union f[G[t]] ELSE {}]
        BY <1>1
    <2> QED
        BY <2>1, <2>2, Zenon DEF Loop
<1> QED
    BY <1>2, Zenon

\* What starts and ends where buckets do goes through all of them.
LEMMA LoopVisits ==
    ASSUME NEW bucket, Divides(bucket), NEW last \in Starts(bucket), NEW f,
           Loop(f, last, [t \in Int |-> NextBucketStart(t, bucket)]), NEW s \in Starts(bucket)
    PROVE  f[s] = {b \in Starts(bucket) : s <= b /\ b <= last}
<1> DEFINE N(t) == NextBucketStart(t, bucket)
           St == Starts(bucket)
           Good(n) == \A t \in St : last - t < n => f[t] = {b \in St : t <= b /\ b <= last}
           T == {n \in Nat : Good(n)}
<1>1. St \in SUBSET Int /\ last \in St /\ s \in St
    BY DEF Starts
<1>2. \A t \in Int : N(t) \in Int /\ f[t] = IF t <= last THEN {t} \union f[N(t)] ELSE {}
    <2>1. \A t \in Int : N(t) \in Int
        BY DEF Divides
    <2>2. \A t \in Int : f[t] = IF t <= last THEN {t} \union f[[u \in Int |-> N(u)][t]] ELSE {}
        BY DEF Loop
    <2> QED
        BY <2>1, <2>2
<1>3. \A t \in St : N(t) \in St /\ t < N(t) /\ \A b \in St : t <= b /\ b < N(t) => b = t
    <2> TAKE t \in St
    <2>1. t \in Int /\ N(t) \in St /\ \A u \in Int : t <= u /\ u < N(t) => BucketStart(u, bucket) = t
        BY <1>1 DEF Divides
    <2>2. t < N(t)
        BY <2>1 DEF Divides, Starts
    <2>3. \A b \in St : b \in Int /\ BucketStart(b, bucket) = b
        BY DEF Starts
    <2> QED
        BY <2>1, <2>2, <2>3
<1> HIDE DEF N, St
<1>4. 0 \in T
    <2> SUFFICES ASSUME NEW t \in St, last - t < 0
                 PROVE  f[t] = {b \in St : t <= b /\ b <= last}
        OBVIOUS
    <2>1. t \in Int /\ last \in Int /\ last < t
        BY <1>1
    <2>2. f[t] = IF t <= last THEN {t} \union f[N(t)] ELSE {}
        BY <1>2, <2>1, Zenon
    <2>3. ~(t <= last)
        BY <2>1
    <2>4. f[t] = {}
        BY <2>2, <2>3, Zenon
    <2>5. ASSUME NEW b \in St, t <= b, b <= last
          PROVE  FALSE
        <3>1. b \in Int
            BY <1>1
        <3> QED
            BY <2>1, <2>5, <3>1
    <2> QED
        BY <2>4, <2>5
<1>5. \A n \in T : n + 1 \in T
    <2> SUFFICES ASSUME NEW n \in T
                 PROVE  n + 1 \in T
        OBVIOUS
    <2>1. n \in Nat /\ Good(n) /\ n + 1 \in Nat
        OBVIOUS
    <2> SUFFICES ASSUME NEW t \in St, last - t < n + 1
                 PROVE  f[t] = {b \in St : t <= b /\ b <= last}
        BY <2>1
    <2>2. t \in Int /\ last \in Int /\ N(t) \in Int /\ N(t) \in St /\ t < N(t)
        BY <1>1, <1>3
    <2>3. \A b \in St : b \in Int
        BY <1>1
    <2>4. CASE t > last
        <3>1. f[t] = IF t <= last THEN {t} \union f[N(t)] ELSE {}
            BY <1>2, <2>2, Zenon
        <3>2. ~(t <= last)
            BY <2>2, <2>4
        <3>3. f[t] = {}
            BY <3>1, <3>2, Zenon
        <3>4. ASSUME NEW b \in St, t <= b, b <= last
              PROVE  FALSE
            BY <2>2, <2>3, <2>4, <3>4
        <3> QED
            BY <3>3, <3>4
    <2>5. CASE t <= last
        <3>1. f[t] = {t} \union f[N(t)]
            BY <1>2, <2>2, <2>5
        <3>2. last - N(t) < n
            BY <2>1, <2>2
        <3>3. f[N(t)] = {b \in St : N(t) <= b /\ b <= last}
            BY <2>1, <2>2, <3>2
        <3>4. \A b \in St : t <= b /\ b <= last <=> b = t \/ (N(t) <= b /\ b <= last)
            BY <1>3, <2>2, <2>3, <2>5
        <3> QED
            BY <3>1, <3>3, <3>4
    <2> QED
        BY <2>2, <2>4, <2>5
<1>6. T \in SUBSET Nat
    OBVIOUS
<1>7. T = Nat
    <2> HIDE DEF T
    <2> QED
        BY <1>4, <1>5, <1>6, AllNaturals
<1>8. s \in Int /\ last \in Int
    BY <1>1
<1>9. \E n \in Nat : last - s < n
    <2>1. CASE last - s < 0
        BY <2>1
    <2>2. CASE last - s >= 0
        <3>1. last - s + 1 \in Nat /\ last - s < last - s + 1
            BY <1>8, <2>2
        <3> QED
            BY <3>1
    <2> QED
        BY <1>8, <2>1, <2>2
<1>10. PICK n \in Nat : last - s < n
    BY <1>9
<1>11. n \in T
    BY <1>7
<1> QED
    BY <1>1, <1>10, <1>11 DEF St

\* The buckets of a report: those between the first and the last, finitely many.
LEMMA BucketsGenerated ==
    ASSUME NEW bucket \in Buckets, NEW start \in Int, NEW end \in Int
    PROVE  /\ GenerateBuckets(start, end, bucket) =
                  {b \in Starts(bucket) : BucketStart(start, bucket) <= b /\ b <= BucketStart(end, bucket)}
           /\ IsFiniteSet(GenerateBuckets(start, end, bucket))
<1> DEFINE last == BucketStart(end, bucket)
           first == BucketStart(start, bucket)
           G == [t \in Int |-> NextBucketStart(t, bucket)]
           from == CHOOSE f : Loop(f, last, G)
           all == GenerateBuckets(start, end, bucket)
<1>1. Divides(bucket)
    BY AllDivide
<1>2. last \in Starts(bucket) /\ first \in Starts(bucket)
    BY <1>1 DEF Divides
<1>3. last \in Int /\ first \in Int
    BY <1>2 DEF Starts
<1>4. G \in [Int -> Int]
    BY <1>1 DEF Divides
<1>5. Loop(from, last, G)
    <2>1. \E f : Loop(f, last, G)
        <3> HIDE DEF last, G
        <3> QED
            BY <1>3, <1>4, LoopsEnd
    <2> HIDE DEF last, G
    <2> QED
        BY <2>1, Zenon
<1>6. all = from[first]
    <2>1. all = (CHOOSE f : f = [t \in Int |-> IF t <= last THEN {t} \union f[NextBucketStart(t, bucket)] ELSE {}])[first]
        BY DEF GenerateBuckets
    <2>2. \A f : Loop(f, last, G) <=> f = [t \in Int |-> IF t <= last THEN {t} \union f[NextBucketStart(t, bucket)] ELSE {}]
        BY DEF Loop
    <2> HIDE DEF all, first, last, G
    <2>3. from = CHOOSE f : f = [t \in Int |-> IF t <= last THEN {t} \union f[NextBucketStart(t, bucket)] ELSE {}]
        BY <2>2
    <2> HIDE DEF from
    <2> QED
        BY <2>1, <2>3
<1> HIDE DEF from, last, first, all
<1>7. all = {b \in Starts(bucket) : first <= b /\ b <= last}
    BY <1>1, <1>2, <1>5, <1>6, LoopVisits
<1>8. IsFiniteSet(first..last) /\ all \subseteq first..last
    BY <1>3, <1>7, FS_Interval DEF Starts
<1>9. IsFiniteSet(all)
    BY <1>8, FS_Subset
<1> QED
    BY <1>7, <1>9 DEF all, first, last

\* Buckets begin in the order of their instants.
LEMMA BucketsInOrder ==
    ASSUME NEW bucket \in Buckets, NEW t \in Int, NEW u \in Int, t <= u
    PROVE  /\ BucketStart(t, bucket) \in Starts(bucket) /\ BucketStart(t, bucket) \in Int
           /\ BucketStart(t, bucket) <= BucketStart(u, bucket)
<1> DEFINE a == BucketStart(t, bucket)
           b == BucketStart(u, bucket)
           c == NextBucketStart(b, bucket)
<1>1. Divides(bucket)
    BY AllDivide
<1>2. a \in Starts(bucket) /\ a <= t /\ b \in Starts(bucket) /\ b <= u /\ u < c
    BY <1>1 DEF Divides
<1>3. a \in Int /\ BucketStart(a, bucket) = a /\ b \in Int
    BY <1>2 DEF Starts
<1>4. c \in Int /\ (b <= a /\ a < c => BucketStart(a, bucket) = b)
    BY <1>1, <1>2, <1>3 DEF Divides
<1>5. b <= t /\ t < c => a = b
    BY <1>1, <1>2 DEF Divides
<1> HIDE DEF a, b, c
<1>6. a <= b
    BY <1>2, <1>3, <1>4, <1>5
<1> QED
    BY <1>2, <1>3, <1>6 DEF a, b

\* A finite set of numbers has a least and a greatest.
LEMMA FiniteHasEnds ==
    ASSUME NEW S \in SUBSET Int, IsFiniteSet(S), S # {}
    PROVE  /\ \E x \in S : \A y \in S : x <= y
           /\ \E x \in S : \A y \in S : y <= x
<1> DEFINE Low(s) == \E x \in s : \A y \in s : x <= y
           High(s) == \E x \in s : \A y \in s : y <= x
           Good(n) == \A s \in SUBSET S : s # {} /\ Cardinality(s) = n => Low(s) /\ High(s)
           T == {n \in Nat : Good(n)}
<1>1. \A s \in SUBSET S : IsFiniteSet(s) /\ Cardinality(s) \in Nat
    BY FS_Subset, FS_CardinalityType
<1>2. 0 \in T
    <2>1. \A s \in SUBSET S : Cardinality(s) = 0 => s = {}
        BY <1>1, FS_EmptySet
    <2> QED
        BY <2>1
<1>3. \A n \in T : n + 1 \in T
    <2> SUFFICES ASSUME NEW n \in T
                 PROVE  n + 1 \in T
        OBVIOUS
    <2>1. n \in Nat /\ Good(n) /\ n + 1 \in Nat
        OBVIOUS
    <2> SUFFICES ASSUME NEW s \in SUBSET S, s # {}, Cardinality(s) = n + 1
                 PROVE  Low(s) /\ High(s)
        BY <2>1
    <2>2. PICK x \in s : TRUE
        OBVIOUS
    <2> DEFINE r == s \ {x}
    <2>3. Cardinality(r) = n /\ r \in SUBSET S /\ s = r \union {x} /\ x \in Int
        BY <1>1, <2>1, <2>2, FS_RemoveElement
    <2> HIDE DEF r
    <2>4. CASE r = {}
        BY <2>3, <2>4
    <2>5. CASE r # {}
        <3>1. Low(r) /\ High(r)
            BY <2>1, <2>3, <2>5
        <3>2. PICK a \in r : \A y \in r : a <= y
            BY <3>1
        <3>3. PICK b \in r : \A y \in r : y <= b
            BY <3>1
        <3>4. \A y \in r : y \in Int
            BY <2>3
        <3>5. Low(s)
            <4>1. CASE a <= x
                BY <2>3, <3>2, <4>1
            <4>2. CASE x <= a
                BY <2>3, <3>2, <3>4, <4>2
            <4> QED
                BY <2>3, <3>4, <4>1, <4>2
        <3>6. High(s)
            <4>1. CASE x <= b
                BY <2>3, <3>3, <4>1
            <4>2. CASE b <= x
                BY <2>3, <3>3, <3>4, <4>2
            <4> QED
                BY <2>3, <3>4, <4>1, <4>2
        <3> QED
            BY <3>5, <3>6
    <2> QED
        BY <2>4, <2>5
<1>4. T \in SUBSET Nat
    OBVIOUS
<1>5. T = Nat
    <2> HIDE DEF T
    <2> QED
        BY <1>2, <1>3, <1>4, AllNaturals
<1>6. Cardinality(S) \in T /\ S \in SUBSET S
    BY <1>1, <1>5
<1> QED
    BY <1>6

-----------------------------------------------------------------------------
\* What a range is: an interval and one of the buckets.
IsRange(range) == range.start \in Int /\ range.end \in Int /\ range.bucket \in Buckets

\* Every period resolves to a range that ends now, of one of the buckets.
LEMMA RangesResolve ==
    ASSUME NEW label, NEW now \in Int
    PROVE  /\ IsRange(ResolveTimeRange(label, now)) /\ ResolveTimeRange(label, now).end = now
           /\ IsRange(RoleSizeTimeRange(label, now)) /\ RoleSizeTimeRange(label, now).end = now
<1>1. \A l \in DOMAIN RANGE_OPTIONS : RANGE_OPTIONS[l] \in Int
    BY Units DEF RANGE_OPTIONS
<1>2. "30d" \in DOMAIN RANGE_OPTIONS /\ "1d" \in DOMAIN RANGE_OPTIONS /\ Forever \in Int
    BY DEF RANGE_OPTIONS, Forever
<1>3. \A l \in DOMAIN RANGE_OPTIONS \union {"all"}, bucket \in Buckets :
          IsRange(TimeRange(l, now, bucket)) /\ TimeRange(l, now, bucket).end = now
    BY <1>1, <1>2 DEF TimeRange, IsRange
<1>4. \A l : Normalized(l) \in DOMAIN RANGE_OPTIONS \union {"all"}
    BY <1>2 DEF Normalized
<1>5. \A l : BucketForRange(l) \in Buckets /\ RoleSizeBucketForRange(l) \in Buckets
    BY DEF BucketForRange, RoleSizeBucketForRange, Buckets
<1>6. ResolveTimeRange(label, now) = TimeRange(Normalized(label), now, BucketForRange(Normalized(label)))
    BY DEF ResolveTimeRange
<1>7. PICK l \in DOMAIN RANGE_OPTIONS \union {"all"} :
          RoleSizeTimeRange(label, now) = TimeRange(l, now, RoleSizeBucketForRange(l))
    BY <1>2, <1>4 DEF RoleSizeTimeRange
<1> QED
    BY <1>3, <1>4, <1>5, <1>6, <1>7

\* Whatever was observed within a range falls into one of its buckets.
LEMMA ObservedCovers ==
    ASSUME NEW range, IsRange(range), NEW observed \in SUBSET Int, IsFiniteSet(observed)
    PROVE  LET buckets == ObservedBuckets(range, observed)
           IN  /\ IsFiniteSet(buckets)
               /\ \A b \in buckets : b \in Starts(range.bucket)
               /\ \A t \in observed : Within(range, t) => BucketStart(t, range.bucket) \in buckets
<1> DEFINE seenBy == {t \in observed : t <= range.end}
           start == IF range.start # Forever THEN range.start
                    ELSE IF seenBy = {} THEN range.end ELSE Min(seenBy)
           buckets == ObservedBuckets(range, observed)
<1>1. buckets = GenerateBuckets(start, range.end, range.bucket)
    BY DEF ObservedBuckets
<1>2. seenBy # {} => Min(seenBy) \in seenBy /\ \A y \in seenBy : Min(seenBy) <= y
    <2> SUFFICES ASSUME seenBy # {}
                 PROVE  Min(seenBy) \in seenBy /\ \A y \in seenBy : Min(seenBy) <= y
        OBVIOUS
    <2>1. seenBy \in SUBSET Int /\ IsFiniteSet(seenBy)
        BY FS_Subset
    <2> HIDE DEF seenBy
    <2>2. \E x \in seenBy : \A y \in seenBy : x <= y
        BY <2>1, FiniteHasEnds
    <2> QED
        BY <2>2 DEF Min
<1>3. start \in Int /\ range.end \in Int /\ range.bucket \in Buckets
    BY <1>2 DEF IsRange
<1>4. \A t \in observed : Within(range, t) => start <= t /\ t <= range.end
    BY <1>2 DEF Within
<1> HIDE DEF start, buckets
<1>5. IsFiniteSet(buckets) /\ \A b \in buckets : b \in Starts(range.bucket)
    BY <1>1, <1>3, BucketsGenerated
<1>6. ASSUME NEW t \in observed, Within(range, t)
      PROVE  BucketStart(t, range.bucket) \in buckets
    <2>1. t \in Int /\ start <= t /\ t <= range.end
        BY <1>4, <1>6
    <2>2. /\ BucketStart(t, range.bucket) \in Starts(range.bucket)
          /\ BucketStart(start, range.bucket) <= BucketStart(t, range.bucket)
          /\ BucketStart(t, range.bucket) <= BucketStart(range.end, range.bucket)
        BY <1>3, <2>1, BucketsInOrder
    <2> QED
        BY <1>1, <1>3, <2>2, BucketsGenerated
<1> QED
    BY <1>5, <1>6 DEF buckets

-----------------------------------------------------------------------------
(*****************************************************************************)
(* The figures of a report: their types, and how they add up.                *)
(*****************************************************************************)
\* A series counted by bucket adds up to the rows it was made of.
LEMMA SeriesAddsUp ==
    ASSUME NEW rows, IsFiniteSet(rows), NEW buckets, IsFiniteSet(buckets), NEW bucket,
           \A row \in rows : BucketStart(row.time, bucket) \in buckets
    PROVE  SumFunction(PerBucket(rows, buckets, bucket)) = Cardinality(rows)
<1> DEFINE place == [row \in rows |-> BucketStart(row.time, bucket)]
           f == PerBucket(rows, buckets, bucket)
<1>1. DOMAIN f = buckets
    BY DEF PerBucket
<1>2. \A b \in buckets : f[b] = Cardinality(PlacedAt(rows, place, b))
    <2> TAKE b \in buckets
    <2>1. PlacedAt(rows, place, b) = {row \in rows : BucketStart(row.time, bucket) = b}
        BY DEF PlacedAt
    <2>2. f[b] = Cardinality({row \in rows : BucketStart(row.time, bucket) = b})
        BY DEF PerBucket
    <2> QED
        BY <2>1, <2>2
<1>3. PlacedIn(rows, place, buckets) = rows
    BY DEF PlacedIn
<1> HIDE DEF place, f
<1>4. SumFunctionOnSet(f, buckets) = Cardinality(PlacedIn(rows, place, buckets))
    BY <1>2, PartsMakeWhole
<1> QED
    BY <1>1, <1>3, <1>4 DEF SumFunction, f

LEMMA ImageFinite ==
    ASSUME NEW X, IsFiniteSet(X), NEW value, value = [x \in X |-> value[x]]
    PROVE  /\ IsFiniteSet({value[x] : x \in X})
           /\ Cardinality({value[x] : x \in X}) <= Cardinality(X)
<1> DEFINE Y == {value[x] : x \in X}
<1>1. value \in Surjection(X, Y)
    BY DEF Surjection
<1> HIDE DEF Y
<1>2. IsFiniteSet(Y) /\ Cardinality(Y) <= Cardinality(X)
    BY <1>1, FS_Surjection
<1> QED
    BY <1>2 DEF Y

LEMMA CountsAddUp ==
    ASSUME NEW X, IsFiniteSet(X), NEW value, value = [x \in X |-> value[x]]
    PROVE  SumFunction(CountBy(value)) = Cardinality({x \in X : value[x] # None})
<1> DEFINE B == Range(value) \ {None}
           f == CountBy(value)
<1>1. DOMAIN value = X /\ Range(value) = {value[x] : x \in X}
    BY DEF Range
<1>2. DOMAIN f = B /\ \A b \in B : f[b] = Cardinality(PlacedAt(X, value, b))
    BY <1>1 DEF CountBy, PlacedAt
<1>3. IsFiniteSet(B)
    <2>1. IsFiniteSet(Range(value))
        BY <1>1, ImageFinite
    <2> QED
        BY <2>1, FS_Subset
<1>4. PlacedIn(X, value, B) = {x \in X : value[x] # None}
    BY <1>1 DEF PlacedIn
<1> HIDE DEF f, B
<1>5. SumFunctionOnSet(f, B) = Cardinality(PlacedIn(X, value, B))
    BY <1>2, <1>3, PartsMakeWhole
<1> QED
    BY <1>2, <1>4, <1>5 DEF SumFunction, f

-----------------------------------------------------------------------------
(***************************************************************************)
(* The figures of /analytics.  A log has one row for each sailor, the      *)
(* tables are finite, and each chart among the images shows the figures    *)
(* its key names.                                                          *)
(***************************************************************************)
Drawn(image) ==
    \/ image.section = "overview" /\ \E f, o : image.key = OverviewKey(f, o) /\ image.chart = OverviewChart(o)
    \/ image.section = "ranks" /\ \E f, r : image.key = RankKey(f, r) /\ image.chart = RankChart(r)
    \/ image.section = "companions" /\ \E f, c : image.key = CompanionKey(f, c) /\ image.chart = CompanionChart(c)
    \/ image.section = "ships" /\ \E f, a : image.key = ActivityKey(f, a) /\ image.chart = ActivityChart(a)

FiguresInv ==
    /\ AnalyticsTypeOK
    /\ IsFiniteSet(hostedRows) /\ IsFiniteSet(voyageRows)
    /\ \A one, two \in voyageRows : one.log = two.log /\ one.sailor = two.sailor => one = two
    /\ \A image \in images : Drawn(image)

LEMMA FiguresBegin == AnalyticsInit => FiguresInv
BY FS_EmptySet DEF AnalyticsInit, FiguresInv, AnalyticsTypeOK

\* A report and its image agree whenever their keys do.
LEMMA KeysTell ==
    ASSUME NEW image, Drawn(image), NEW f, NEW key, NEW chart,
           Drawn([section |-> image.section, filters |-> f, key |-> key, chart |-> chart]),
           key = image.key
    PROVE  chart = image.chart
<1> DEFINE other == [section |-> image.section, filters |-> f, key |-> key, chart |-> chart]
<1>1. other.section = image.section /\ other.key = key /\ other.chart = chart /\ Drawn(other)
    OBVIOUS
<1> HIDE DEF other
<1>2. CASE image.section = "overview"
    <2>1. PICK f1, o1 : image.key = OverviewKey(f1, o1) /\ image.chart = OverviewChart(o1)
        BY <1>2 DEF Drawn
    <2>2. PICK f2, o2 : other.key = OverviewKey(f2, o2) /\ other.chart = OverviewChart(o2)
        BY <1>1, <1>2 DEF Drawn
    <2>3. OverviewKey(f1, o1) = OverviewKey(f2, o2)
        BY <1>1, <2>1, <2>2
    <2>4. o1.voyage_series = o2.voyage_series /\ o1.hosted_series = o2.hosted_series
        BY <2>3 DEF OverviewKey
    <2> QED
        BY <1>1, <2>1, <2>2, <2>4 DEF OverviewChart
<1>3. CASE image.section = "ranks"
    <2>1. PICK f1, o1 : image.key = RankKey(f1, o1) /\ image.chart = RankChart(o1)
        BY <1>3 DEF Drawn
    <2>2. PICK f2, o2 : other.key = RankKey(f2, o2) /\ other.chart = RankChart(o2)
        BY <1>1, <1>3 DEF Drawn
    <2>3. RankKey(f1, o1) = RankKey(f2, o2)
        BY <1>1, <2>1, <2>2
    <2>4. o1.rank_counts = o2.rank_counts
        BY <2>3 DEF RankKey
    <2> QED
        BY <1>1, <2>1, <2>2, <2>4 DEF RankChart
<1>4. CASE image.section = "companions"
    <2>1. PICK f1, o1 : image.key = CompanionKey(f1, o1) /\ image.chart = CompanionChart(o1)
        BY <1>4 DEF Drawn
    <2>2. PICK f2, o2 : other.key = CompanionKey(f2, o2) /\ other.chart = CompanionChart(o2)
        BY <1>1, <1>4 DEF Drawn
    <2>3. CompanionKey(f1, o1) = CompanionKey(f2, o2)
        BY <1>1, <2>1, <2>2
    <2>4. o1.companion_counts = o2.companion_counts
        BY <2>3 DEF CompanionKey
    <2> QED
        BY <1>1, <2>1, <2>2, <2>4 DEF CompanionChart
<1>5. CASE image.section = "ships"
    <2>1. PICK f1, o1 : image.key = ActivityKey(f1, o1) /\ image.chart = ActivityChart(o1)
        BY <1>5 DEF Drawn
    <2>2. PICK f2, o2 : other.key = ActivityKey(f2, o2) /\ other.chart = ActivityChart(o2)
        BY <1>1, <1>5 DEF Drawn
    <2>3. ActivityKey(f1, o1) = ActivityKey(f2, o2)
        BY <1>1, <2>1, <2>2
    <2>4. o1.hosted_series = o2.hosted_series /\ o1.voyage_series = o2.voyage_series
        BY <2>3 DEF ActivityKey
    <2> QED
        BY <1>1, <2>1, <2>2, <2>4 DEF ActivityChart
<1> QED
    BY <1>2, <1>3, <1>4, <1>5 DEF Drawn

\* The image kept for a report is drawn as its section draws: from its key and figures.
LEMMA ReportsDrawn ==
    ASSUME NEW section \in {"overview", "ranks", "companions", "ships"}, NEW f, NEW filters
    PROVE  Drawn([section |-> section, filters |-> filters,
                  key |-> Report(section, f).key, chart |-> Report(section, f).chart])
<1> DEFINE image == [section |-> section, filters |-> filters,
                     key |-> Report(section, f).key, chart |-> Report(section, f).chart]
<1>1. /\ image.section = section /\ image.key = Report(section, f).key
      /\ image.chart = Report(section, f).chart
    OBVIOUS
<1>2. /\ section = "overview" =>
             /\ image.key = OverviewKey(f, BuildOverview(f)) /\ image.chart = OverviewChart(BuildOverview(f))
      /\ section = "ranks" =>
             /\ image.key = RankKey(f, BuildRankShare(f)) /\ image.chart = RankChart(BuildRankShare(f))
      /\ section = "companions" =>
             /\ image.key = CompanionKey(f, BuildCompanionShare(f))
             /\ image.chart = CompanionChart(BuildCompanionShare(f))
      /\ section = "ships" =>
             /\ image.key = ActivityKey(f, BuildActivity(f)) /\ image.chart = ActivityChart(BuildActivity(f))
    BY DEF Report
<1> HIDE DEF image
<1>3. Drawn(image)
    BY <1>1, <1>2, Zenon DEF Drawn
<1> QED
    BY <1>3 DEF image

LEMMA ChartsAreTrue == FiguresInv => ChartsShowFigures
<1> SUFFICES ASSUME FiguresInv, NEW image \in images,
                    Report(image.section, image.filters).key = image.key
             PROVE  Report(image.section, image.filters).chart = image.chart
    BY DEF ChartsShowFigures
<1>1. Drawn(image)
    BY DEF FiguresInv
<1>2. image.section \in {"overview", "ranks", "companions", "ships"}
    BY <1>1 DEF Drawn
<1>3. Drawn([section |-> image.section, filters |-> image.filters,
             key |-> Report(image.section, image.filters).key,
             chart |-> Report(image.section, image.filters).chart])
    BY <1>2, ReportsDrawn
<1> QED
    BY <1>1, <1>3, KeysTell

\* Logging a voyage and opening a report keep the rows' types and how images are drawn.
LEMMA FiguresKept == FiguresInv /\ (AnalyticsNext \/ UNCHANGED analyticsVars) => FiguresInv'
<1> SUFFICES ASSUME FiguresInv, AnalyticsNext \/ UNCHANGED analyticsVars
             PROVE  FiguresInv'
    OBVIOUS
<1>1. /\ AnalyticsTypeOK /\ IsFiniteSet(hostedRows) /\ IsFiniteSet(voyageRows)
      /\ \A one, two \in voyageRows : one.log = two.log /\ one.sailor = two.sailor => one = two
      /\ \A image \in images : Drawn(image)
    BY DEF FiguresInv
<1>2. CASE LogHosted
    <2>1. PICK row \in HostedRow : hostedRows' = hostedRows \union {row}
        BY <1>2 DEF LogHosted
    <2>2. voyageRows' = voyageRows /\ images' = images
        BY <1>2 DEF LogHosted
    <2>3. IsFiniteSet(hostedRows')
        BY <1>1, <2>1, FS_AddElement
    <2> QED
        BY <1>1, <2>1, <2>2, <2>3 DEF FiguresInv, AnalyticsTypeOK
<1>3. CASE LogCrew
    <2>1. PICK log \in hostedRows, sailor \in Sailors, ship \in VoyageShips \union {NoShip} :
              /\ ~ \E row \in voyageRows : row.log = log.log /\ row.sailor = sailor
              /\ voyageRows' = voyageRows \union
                     {[log |-> log.log, sailor |-> sailor, ship |-> ship, time |-> log.time]}
        BY <1>3 DEF LogCrew
    <2>2. hostedRows' = hostedRows /\ images' = images
        BY <1>3 DEF LogCrew
    <2> DEFINE new == [log |-> log.log, sailor |-> sailor, ship |-> ship, time |-> log.time]
    <2>3. log \in HostedRow
        BY <1>1 DEF AnalyticsTypeOK
    <2>4. new \in VoyageRow /\ new.log = log.log /\ new.sailor = sailor
        BY <2>3 DEF HostedRow, VoyageRow
    <2> HIDE DEF new
    <2>5. voyageRows' = voyageRows \union {new}
        BY <2>1 DEF new
    <2>6. IsFiniteSet(voyageRows')
        BY <1>1, <2>5, FS_AddElement
    <2>7. \A one, two \in voyageRows' : one.log = two.log /\ one.sailor = two.sailor => one = two
        BY <1>1, <2>1, <2>4, <2>5
    <2> QED
        BY <1>1, <2>2, <2>4, <2>5, <2>6, <2>7 DEF FiguresInv, AnalyticsTypeOK
<1>4. ASSUME NEW section \in {"overview", "ranks", "companions", "ships"}, NEW f, RenderReport(section, f)
      PROVE  FiguresInv'
    <2> DEFINE new == [section |-> section, filters |-> f,
                       key |-> Report(section, f).key, chart |-> Report(section, f).chart]
    <2>1. images' = images \union {new}
        BY <1>4 DEF RenderReport
    <2>2. UNCHANGED <<hostedRows, voyageRows>>
        BY <1>4 DEF RenderReport
    <2>3. Drawn(new)
        BY ReportsDrawn
    <2> HIDE DEF new
    <2>4. \A image \in images' : Drawn(image)
        BY <1>1, <2>1, <2>3
    <2> QED
        BY <1>1, <2>2, <2>4 DEF FiguresInv, AnalyticsTypeOK
<1>5. CASE UNCHANGED analyticsVars
    BY <1>1, <1>5 DEF FiguresInv, AnalyticsTypeOK, analyticsVars
<1> QED
    BY <1>2, <1>3, <1>4, <1>5 DEF AnalyticsNext

-----------------------------------------------------------------------------
(*****************************************************************************)
(* Voyage figures (VoyageAnalytics): what each report adds up to.            *)
(*****************************************************************************)
\* What the tables say of any row.
LEMMA RowsAre ==
    ASSUME FiguresInv
    PROVE  /\ \A row \in hostedRows : row.time \in Int /\ row.host \in Sailors
           /\ \A row \in voyageRows : row.time \in Int /\ row.sailor \in Sailors /\ row.log \in 1..MaxRows
           /\ IsFiniteSet(hostedRows) /\ IsFiniteSet(voyageRows)
BY AnalyticsAssumption DEF FiguresInv, AnalyticsTypeOK, HostedRow, VoyageRow

\* Rows of a report: finitely many, of times within its range.
Rowset(rows, range) == IsFiniteSet(rows) /\ \A row \in rows : row.time \in Int /\ Within(range, row.time)

LEMMA TimesFinite ==
    ASSUME NEW rows, IsFiniteSet(rows), \A row \in rows : row.time \in Int
    PROVE  Times(rows) \in SUBSET Int /\ IsFiniteSet(Times(rows))
<1> DEFINE value == [row \in rows |-> row.time]
<1>1. value = [row \in rows |-> value[row]] /\ {value[row] : row \in rows} = Times(rows)
    BY DEF Times
<1> HIDE DEF value
<1>2. IsFiniteSet(Times(rows))
    BY <1>1, ImageFinite
<1>3. Times(rows) \in SUBSET Int
    BY DEF Times
<1> QED
    BY <1>2, <1>3

LEMMA BothSeriesAddUp ==
    ASSUME NEW range, IsRange(range), NEW one, NEW two, Rowset(one, range), Rowset(two, range)
    PROVE  LET buckets == ObservedBuckets(range, Times(one) \union Times(two))
           IN  /\ SumFunction(PerBucket(one, buckets, range.bucket)) = Cardinality(one)
               /\ SumFunction(PerBucket(two, buckets, range.bucket)) = Cardinality(two)
<1> DEFINE observed == Times(one) \union Times(two)
           buckets == ObservedBuckets(range, observed)
<1>1. observed \in SUBSET Int /\ IsFiniteSet(observed)
    <2>1. /\ Times(one) \in SUBSET Int /\ IsFiniteSet(Times(one))
          /\ Times(two) \in SUBSET Int /\ IsFiniteSet(Times(two))
        BY TimesFinite DEF Rowset
    <2> QED
        BY <2>1, FS_Union
<1>2. \A row \in one \union two : row.time \in observed /\ Within(range, row.time)
    BY DEF Times, Rowset
<1> HIDE DEF observed
<1>3. IsFiniteSet(buckets) /\ \A t \in observed : Within(range, t) => BucketStart(t, range.bucket) \in buckets
    BY <1>1, ObservedCovers
<1> HIDE DEF buckets
<1>4. \A row \in one \union two : BucketStart(row.time, range.bucket) \in buckets
    BY <1>2, <1>3
<1>5. /\ SumFunction(PerBucket(one, buckets, range.bucket)) = Cardinality(one)
      /\ SumFunction(PerBucket(two, buckets, range.bucket)) = Cardinality(two)
    BY <1>3, <1>4, SeriesAddsUp DEF Rowset
<1> QED
    BY <1>5 DEF buckets, observed

LEMMA FiltersHaveRanges ==
    /\ \A f \in VoyageFilters : IsRange(f.range) /\ f.user \in Sailors \union {None}
    /\ \A f \in ShipFilters : IsRange(f.range)
BY AnalyticsAssumption, RangesResolve DEF VoyageFilters, ShipFilters

\* Rows by somebody of a list, whoever that is, are all rows.
LEMMA ByPerson ==
    ASSUME NEW rows, IsFiniteSet(rows), NEW who, \A row \in rows : who[row] \in Sailors, NEW f,
           f = [u \in Sailors |-> Cardinality(PlacedAt(rows, who, u))]
    PROVE  SumFunction(f) = Cardinality(rows)
<1>1. IsFiniteSet(Sailors)
    BY AnalyticsAssumption
<1>2. DOMAIN f = Sailors /\ \A u \in Sailors : f[u] = Cardinality(PlacedAt(rows, who, u))
    OBVIOUS
<1>3. PlacedIn(rows, who, Sailors) = rows
    BY DEF PlacedIn
<1>4. SumFunctionOnSet(f, Sailors) = Cardinality(PlacedIn(rows, who, Sailors))
    BY <1>1, <1>2, PartsMakeWhole
<1> QED
    BY <1>2, <1>3, <1>4 DEF SumFunction

\* The overview: its series, and the figures of the sailors, add up to its totals.
LEMMA OverviewsAddUp ==
    ASSUME FiguresInv, NEW f \in VoyageFilters
    PROVE  OverviewAddsUp(f)
<1> DEFINE V(g) == VoyageQuery(g)
           H(g) == HostedByUserQuery(g)
           o == BuildOverview(f)
           buckets == ObservedBuckets(f.range, Times(V(f)) \union Times(H(f)))
<1>1. Rowset(V(f), f.range) /\ Rowset(H(f), f.range)
    <2>1. IsFiniteSet(V(f)) /\ IsFiniteSet(H(f))
        BY RowsAre, FS_Subset DEF VoyageQuery, HostedByUserQuery
    <2> QED
        BY <2>1, RowsAre DEF Rowset, VoyageQuery, HostedByUserQuery
<1>2. IsRange(f.range) /\ None \notin Sailors
    BY FiltersHaveRanges, AnalyticsAssumption
<1>3. /\ o.total_voyages = Cardinality(V(f)) /\ o.total_hosted = Cardinality(H(f))
      /\ o.voyage_series = PerBucket(V(f), buckets, f.range.bucket)
      /\ o.hosted_series = PerBucket(H(f), buckets, f.range.bucket)
      /\ o.top_voyagers = CountBy([row \in V(f) |-> row.sailor])
    BY DEF BuildOverview
<1>4. \A u \in Sailors : /\ BuildOverview([f EXCEPT !.user = u]).total_voyages = Cardinality(V([f EXCEPT !.user = u]))
                         /\ BuildOverview([f EXCEPT !.user = u]).total_hosted = Cardinality(H([f EXCEPT !.user = u]))
    BY DEF BuildOverview
<1>5. SumFunction(o.voyage_series) = o.total_voyages /\ SumFunction(o.hosted_series) = o.total_hosted
    <2> HIDE DEF V, H, o
    <2> QED
        BY <1>1, <1>2, <1>3, BothSeriesAddUp
<1>6. SumFunction(o.top_voyagers) = o.total_voyages
    <2> DEFINE value == [row \in V(f) |-> row.sailor]
    <2>1. value = [row \in V(f) |-> value[row]] /\ IsFiniteSet(V(f))
        BY <1>1 DEF Rowset
    <2>2. {row \in V(f) : value[row] # None} = V(f)
        BY <1>2, RowsAre DEF VoyageQuery
    <2> HIDE DEF value, V
    <2>3. SumFunction(CountBy(value)) = Cardinality({row \in V(f) : value[row] # None})
        BY <2>1, CountsAddUp
    <2> HIDE DEF o
    <2> QED
        BY <1>3, <2>2, <2>3 DEF value
<1>7. ASSUME f.user = None
      PROVE  /\ SumFunction([u \in Sailors |-> BuildOverview([f EXCEPT !.user = u]).total_voyages]) = o.total_voyages
             /\ SumFunction([u \in Sailors |-> BuildOverview([f EXCEPT !.user = u]).total_hosted]) = o.total_hosted
    <2>1. f \in [range : {ResolveTimeRange(label, Now) : label \in Labels}, ship : VoyageShips \union {None},
                 user : Sailors \union {None}, type : Types \union {None}]
        BY DEF VoyageFilters
    <2>2. ASSUME NEW u \in Sailors
          PROVE  LET g == [f EXCEPT !.user = u]
                 IN  g.range = f.range /\ g.ship = f.ship /\ g.user = u /\ g.type = f.type
        BY <2>1
    <2> DEFINE people == [row \in V(f) |-> row.sailor]
               hosts == [row \in H(f) |-> row.host]
    <2>3. ASSUME NEW u \in Sailors
          PROVE  /\ V([f EXCEPT !.user = u]) = PlacedAt(V(f), people, u)
                 /\ H([f EXCEPT !.user = u]) = PlacedAt(H(f), hosts, u)
        <3> DEFINE g == [f EXCEPT !.user = u]
        <3>1. g.range = f.range /\ g.ship = f.ship /\ g.user = u /\ g.type = f.type
            BY <2>2
        <3> HIDE DEF g
        <3>2. u # None
            BY <1>2
        <3>3. V(g) = {row \in V(f) : row.sailor = u}
            BY <1>7, <3>1, <3>2 DEF VoyageQuery, Fits
        <3>4. H(g) = {row \in H(f) : row.host = u}
            BY <1>7, <3>1, <3>2 DEF HostedByUserQuery, Fits
        <3> HIDE DEF V, H
        <3> QED
            BY <3>3, <3>4 DEF PlacedAt, g
    <2>4. [u \in Sailors |-> BuildOverview([f EXCEPT !.user = u]).total_voyages]
              = [u \in Sailors |-> Cardinality(PlacedAt(V(f), people, u))]
        <3> HIDE DEF V, H, people, hosts
        <3> QED
            BY <1>4, <2>3
    <2>5. [u \in Sailors |-> BuildOverview([f EXCEPT !.user = u]).total_hosted]
              = [u \in Sailors |-> Cardinality(PlacedAt(H(f), hosts, u))]
        <3> HIDE DEF V, H, people, hosts
        <3> QED
            BY <1>4, <2>3
    <2>6. \A row \in V(f) : people[row] \in Sailors
        BY RowsAre DEF VoyageQuery
    <2>7. \A row \in H(f) : hosts[row] \in Sailors
        BY RowsAre DEF HostedByUserQuery
    <2>8. IsFiniteSet(V(f)) /\ IsFiniteSet(H(f))
        BY <1>1 DEF Rowset
    <2> HIDE DEF V, H, people, hosts, o
    <2>9. SumFunction([u \in Sailors |-> Cardinality(PlacedAt(V(f), people, u))]) = Cardinality(V(f))
        BY <2>6, <2>8, ByPerson
    <2>10. SumFunction([u \in Sailors |-> Cardinality(PlacedAt(H(f), hosts, u))]) = Cardinality(H(f))
        BY <2>7, <2>8, ByPerson
    <2> QED
        BY <1>3, <2>4, <2>5, <2>9, <2>10
<1> HIDE DEF o
<1> QED
    BY <1>5, <1>6, <1>7 DEF OverviewAddsUp, o

\* A part of a whole is at most a hundred percent of it.
LEMMA AtMostWhole ==
    ASSUME NEW count \in Nat, NEW whole \in Nat, count <= whole
    PROVE  Percent(count, whole) <= 1000
<1>1. CASE whole = 0
    BY <1>1 DEF Percent
<1>2. CASE whole # 0
    <2>1. whole > 0 /\ 1000 * count <= 1000 * whole /\ 1000 * count \in Nat
        BY <1>2
    <2>2. \A n \in Nat, k \in Nat : k > 0 /\ n <= 1000 * k => n \div k <= 1000
        <3> SUFFICES ASSUME NEW n \in Nat, NEW k \in Nat, k > 0, n <= 1000 * k
                     PROVE  n \div k <= 1000
            OBVIOUS
        <3> DEFINE q == n \div k
        <3>1. q \in Nat /\ k * q <= n
            OBVIOUS
        <3> HIDE DEF q
        <3>2. SUFFICES ASSUME q > 1000
                       PROVE  FALSE
            BY <3>1 DEF q
        <3>3. q - 1001 \in Nat /\ q = 1001 + (q - 1001)
            BY <3>1, <3>2
        <3> DEFINE p == q - 1001
        <3>6. \A a, b \in Nat : a * (1001 + b) = 1001 * a + a * b /\ a * b \in Nat
            OBVIOUS
        <3>7. p \in Nat /\ q = 1001 + p
            BY <3>3
        <3> HIDE DEF p
        <3>4. k * q = 1001 * k + k * p /\ k * p \in Nat
            BY <3>6, <3>7
        <3> DEFINE x == k * q
                   y == k * p
        <3>5. x = 1001 * k + y /\ y \in Nat /\ x <= n /\ x \in Int
            BY <3>1, <3>4
        <3> HIDE DEF x, y
        <3> QED
            BY <3>5
    <2>3. (1000 * count) \div whole <= 1000
        BY <2>1, <2>2
    <2> QED
        BY <1>2, <2>3 DEF Percent
<1> QED
    BY <1>1, <1>2

\* As many rows of a sailor as logs, at most.
LEMMA RowsPerLog ==
    ASSUME FiguresInv, NEW rows \in SUBSET voyageRows, NEW logs, IsFiniteSet(logs),
           \A row \in rows : row.log \in logs, NEW u, \A row \in rows : row.sailor = u
    PROVE  /\ Cardinality(rows) \in Nat /\ Cardinality(logs) \in Nat
           /\ Cardinality(rows) <= Cardinality(logs)
<1> DEFINE value == [row \in rows |-> row.log]
<1>1. value \in [rows -> logs] /\ \A a, b \in rows : value[a] = value[b] => a = b
    BY DEF FiguresInv
<1> HIDE DEF value
<1>2. value \in Injection(rows, logs)
    BY <1>1 DEF Injection, IsInjective
<1>3. IsFiniteSet(rows) /\ Cardinality(rows) <= Cardinality(logs)
    BY <1>2, FS_Injection
<1> QED
    BY <1>3, FS_CardinalityType

LEMMA LogsFinite ==
    ASSUME NEW rows, IsFiniteSet(rows)
    PROVE  IsFiniteSet({row.log : row \in rows})
<1> DEFINE value == [row \in rows |-> row.log]
<1>1. value = [row \in rows |-> value[row]] /\ {value[row] : row \in rows} = {row.log : row \in rows}
    OBVIOUS
<1>2. IsFiniteSet({value[row] : row \in rows})
    <2> HIDE DEF value
    <2> QED
        BY <1>1, ImageFinite
<1> HIDE DEF value
<1> QED
    BY <1>1, <1>2, Zenon

\* Ranks add up to the voyages; a companion shares no more voyages than there are.
LEMMA SharesAddUp ==
    ASSUME FiguresInv, NEW f \in VoyageFilters
    PROVE  SharesWithinWhole(f)
<1> DEFINE rows == VoyageQuery(f)
           ranks == BuildRankShare(f)
           companions == BuildCompanionShare(f)
<1>1. IsFiniteSet(rows) /\ rows \in SUBSET voyageRows
    BY RowsAre, FS_Subset DEF VoyageQuery
<1>2. SumFunction(ranks.rank_counts) + ranks.unknown_count = Cardinality(rows)
    <2> DEFINE value == [row \in rows |-> RankName(row)]
               known == {row \in rows : value[row] # None}
               unknown == {row \in rows : RankName(row) = None}
    <2>1. value = [row \in rows |-> value[row]]
        OBVIOUS
    <2>2. ranks.rank_counts = CountBy(value) /\ ranks.unknown_count = Cardinality(unknown)
        BY DEF BuildRankShare
    <2>3. known \union unknown = rows /\ known \cap unknown = {}
        OBVIOUS
    <2> HIDE DEF ranks, unknown
    <2>4. SumFunction(CountBy(value)) = Cardinality(known)
        <3> HIDE DEF value, rows
        <3> QED
            BY <1>1, <2>1, CountsAddUp
    <2>5. IsFiniteSet(known) /\ IsFiniteSet(unknown)
        BY <1>1, <2>3, FS_Subset
    <2> HIDE DEF known, value, rows
    <2>6. /\ Cardinality(known \union unknown) = Cardinality(known) + Cardinality(unknown) - Cardinality(known \cap unknown)
          /\ Cardinality(known \cap unknown) = 0 /\ Cardinality(known) \in Nat /\ Cardinality(unknown) \in Nat
        BY <2>3, <2>5, FS_Union, FS_EmptySet, FS_CardinalityType
    <2> DEFINE k == Cardinality(known)
               m == Cardinality(unknown)
               w == Cardinality(rows)
    <2>7. k \in Nat /\ m \in Nat /\ w = k + m
        <3> DEFINE z == Cardinality(known \cap unknown)
        <3>1. k \in Nat /\ m \in Nat /\ z = 0
            BY <2>6
        <3>2. w = k + m - z
            BY <2>3, <2>6
        <3> HIDE DEF k, m, w, z
        <3> QED
            BY <3>1, <3>2
    <2>8. SumFunction(ranks.rank_counts) = k /\ ranks.unknown_count = m
        BY <2>2, <2>4
    <2> HIDE DEF k, m, w
    <2> QED
        BY <2>7, <2>8 DEF w
<1>3. ASSUME NEW other \in DOMAIN companions.companion_counts
      PROVE  Percent(companions.companion_counts[other], companions.shared_voyage_count) <= 1000
    <2> DEFINE shared == {row.log : row \in rows}
               mates == {row \in voyageRows : /\ row.log \in shared
                                              /\ row.sailor # f.user
                                              /\ Fits(f.ship, row.ship)}
               value == [row \in mates |-> row.sailor]
               his == {row \in mates : row.sailor = other}
    <2>1. companions.companion_counts = CountBy(value) /\ companions.shared_voyage_count = Cardinality(shared)
        BY DEF BuildCompanionShare
    <2>2. CountBy(value)[other] = Cardinality({row \in mates : value[row] = other})
        <3>1. other \in DOMAIN CountBy(value)
            BY <1>3, <2>1
        <3> HIDE DEF mates
        <3> QED
            BY <3>1 DEF CountBy
    <2>3. {row \in mates : value[row] = other} = his
        OBVIOUS
    <2>4. IsFiniteSet(shared)
        <3> HIDE DEF rows
        <3> QED
            BY <1>1, LogsFinite
    <2>5. his \in SUBSET voyageRows /\ \A row \in his : row.log \in shared /\ row.sailor = other
        OBVIOUS
    <2> HIDE DEF shared, mates, value, his
    <2>6. Cardinality(his) \in Nat /\ Cardinality(shared) \in Nat /\ Cardinality(his) <= Cardinality(shared)
        BY <2>4, <2>5, RowsPerLog
    <2>7. Percent(Cardinality(his), Cardinality(shared)) <= 1000
        BY <2>6, AtMostWhole
    <2> QED
        BY <2>1, <2>2, <2>3, <2>7
<1>4. ASSUME f.ship # None, Cardinality(HostedByUserQuery(f)) # 0
      PROVE  f.ship \in AvailableShips(f)
    <2>1. HostedByUserQuery(f) # {}
        BY <1>4, FS_EmptySet
    <2>2. PICK log \in HostedByUserQuery(f) : TRUE
        BY <2>1
    <2>3. /\ log \in hostedRows /\ Within(f.range, log.time) /\ log.ship = f.ship
          /\ f.user = None \/ f.user = log.host
          /\ Fits(f.type, log.type)
        BY <1>4, <2>2 DEF HostedByUserQuery, Fits
    <2> DEFINE g == [f EXCEPT !.ship = None]
    <2>4. g.range = f.range /\ g.user = f.user /\ g.type = f.type /\ g.ship = None
        BY DEF VoyageFilters
    <2> HIDE DEF g
    <2>5. log \in HostedLogQuery(g)
        BY <2>3, <2>4 DEF HostedLogQuery, Fits
    <2> QED
        BY <1>4, <2>3, <2>5 DEF AvailableShips, g, NoShip
<1> HIDE DEF ranks, companions
<1> QED
    BY <1>2, <1>3, <1>4 DEF SharesWithinWhole, ranks, companions

\* The activity of ships: series and pairings add up, no pair sails more than there was.
LEMMA ActivitiesAddUp ==
    ASSUME FiguresInv, NEW f \in ShipFilters
    PROVE  ActivityAddsUp(f)
<1> DEFINE H == ShipHostedQuery(f)
           V == ShipVoyageQuery(f)
           logs == {row.log : row \in H \union V}
           PH == {row \in hostedRows : row.log \in logs}
           PV == {row \in voyageRows : row.log \in logs}
           a == BuildActivity(f)
           buckets == ObservedBuckets(f.range, Times(H) \union Times(V))
<1>1. Rowset(H, f.range) /\ Rowset(V, f.range)
    <2>1. IsFiniteSet(H) /\ IsFiniteSet(V)
        BY RowsAre, FS_Subset DEF ShipHostedQuery, ShipVoyageQuery
    <2> QED
        BY <2>1, RowsAre DEF Rowset, ShipHostedQuery, ShipVoyageQuery
<1>2. /\ a.total_hosted = Cardinality(H) /\ a.total_voyages = Cardinality(V)
      /\ a.unique_voyage_logs = Cardinality(logs)
      /\ a.top_companion_pairs = TopCompanionPairs(V)
      /\ a.top_ship_pairs = TopShipPairs(PH, PV)
      /\ a.top_ship_pairings = TopShipPairings(PH, PV)
      /\ a.pairing_rows = {row \in PV : ValidShip(row.ship)}
      /\ a.hosted_series = PerBucket(H, buckets, f.range.bucket)
      /\ a.voyage_series = PerBucket(V, buckets, f.range.bucket)
    BY DEF BuildActivity
<1>3. IsFiniteSet(logs) /\ Cardinality(logs) \in Nat
    <2>1. IsFiniteSet(H \union V)
        BY <1>1, FS_Union DEF Rowset
    <2> HIDE DEF H, V
    <2> QED
        BY <2>1, LogsFinite, FS_CardinalityType
<1>4. IsFiniteSet(PV)
    BY RowsAre, FS_Subset
<1>5. {row.log : row \in V} \in SUBSET logs /\ {row.log : row \in PH \union PV} \in SUBSET logs
    OBVIOUS
<1> HIDE DEF H, V, PH, PV, a, logs
<1>6. SumFunction(a.hosted_series) = a.total_hosted /\ SumFunction(a.voyage_series) = a.total_voyages
    BY <1>1, <1>2, FiltersHaveRanges, BothSeriesAddUp
<1>7. SumFunction(a.top_ship_pairings) = Cardinality(a.pairing_rows)
    <2> DEFINE rows == {row \in PV : ValidShip(row.ship)}
               value == [row \in rows |-> ShipsOfLog(row.log, PH, PV)]
               B == {value[row] : row \in rows}
               g == TopShipPairings(PH, PV)
    <2>1. value = [row \in rows |-> value[row]] /\ IsFiniteSet(rows)
        BY <1>4, FS_Subset
    <2>2. DOMAIN g = B
        BY DEF TopShipPairings
    <2>3. \A b \in B : g[b] = Cardinality(PlacedAt(rows, value, b))
        <3> TAKE b \in B
        <3>1. PlacedAt(rows, value, b) = {row \in rows : ShipsOfLog(row.log, PH, PV) = b}
            BY DEF PlacedAt
        <3>2. b \in {ShipsOfLog(row.log, PH, PV) : row \in rows}
            OBVIOUS
        <3>3. g[b] = Cardinality({row \in rows : ShipsOfLog(row.log, PH, PV) = b})
            BY <3>2 DEF TopShipPairings
        <3> QED
            BY <3>1, <3>3
    <2>4. PlacedIn(rows, value, B) = rows
        BY DEF PlacedIn
    <2> HIDE DEF value, rows, g
    <2>5. IsFiniteSet(B)
        BY <2>1, ImageFinite
    <2> HIDE DEF B
    <2>6. SumFunctionOnSet(g, B) = Cardinality(PlacedIn(rows, value, B))
        BY <2>1, <2>3, <2>5, PartsMakeWhole
    <2> QED
        BY <1>2, <2>2, <2>4, <2>6 DEF SumFunction, g, rows
<1>8. ASSUME NEW crews, IsFiniteSet(DOMAIN crews), NEW p \in DOMAIN PairCounts(crews)
      PROVE  PairCounts(crews)[p] \in Nat /\ PairCounts(crews)[p] <= Cardinality(DOMAIN crews)
    <2> DEFINE in == {log \in DOMAIN crews : p \subseteq crews[log]}
    <2>1. PairCounts(crews)[p] = Cardinality(in)
        BY <1>8 DEF PairCounts
    <2>2. IsFiniteSet(in) /\ Cardinality(in) <= Cardinality(DOMAIN crews) /\ Cardinality(in) \in Nat
        BY <1>8, FS_Subset, FS_CardinalityType
    <2> QED
        BY <2>1, <2>2
<1>9. ASSUME NEW p \in DOMAIN a.top_companion_pairs
      PROVE  Percent(a.top_companion_pairs[p], a.unique_voyage_logs) <= 1000
    <2> DEFINE X == {row.log : row \in V}
               crews == [log \in X |-> {row.sailor : row \in {r \in V : r.log = log}}]
    <2>1. a.top_companion_pairs = PairCounts(crews) /\ DOMAIN crews = X
        BY <1>2 DEF TopCompanionPairs
    <2> HIDE DEF crews, X
    <2>2. IsFiniteSet(X) /\ Cardinality(X) <= Cardinality(logs) /\ Cardinality(X) \in Nat
        BY <1>3, <1>5, FS_Subset, FS_CardinalityType DEF X
    <2>3. PairCounts(crews)[p] \in Nat /\ PairCounts(crews)[p] <= Cardinality(X)
        BY <1>8, <1>9, <2>1, <2>2
    <2> DEFINE c == PairCounts(crews)[p]
    <2>4. c \in Nat /\ c <= Cardinality(logs)
        BY <1>3, <2>2, <2>3
    <2> HIDE DEF c
    <2>5. Percent(c, Cardinality(logs)) <= 1000
        BY <1>3, <2>4, AtMostWhole
    <2> QED
        BY <1>2, <2>1, <2>5 DEF c
<1>10. ASSUME NEW p \in DOMAIN a.top_ship_pairs
       PROVE  a.top_ship_pairs[p] <= a.unique_voyage_logs
    <2> DEFINE X == {row.log : row \in PH \union PV}
               crews == [log \in X |-> ShipsOfLog(log, PH, PV)]
    <2>1. a.top_ship_pairs = PairCounts(crews) /\ DOMAIN crews = X
        BY <1>2 DEF TopShipPairs
    <2> HIDE DEF crews, X
    <2>2. IsFiniteSet(X) /\ Cardinality(X) <= Cardinality(logs) /\ Cardinality(X) \in Nat
        BY <1>3, <1>5, FS_Subset, FS_CardinalityType DEF X
    <2>3. PairCounts(crews)[p] \in Nat /\ PairCounts(crews)[p] <= Cardinality(X)
        BY <1>8, <1>10, <2>1, <2>2
    <2> QED
        BY <1>2, <1>3, <2>1, <2>2, <2>3
<1> QED
    BY <1>6, <1>7, <1>9, <1>10 DEF ActivityAddsUp, a

LEMMA FiguresDoAddUp == FiguresInv => FiguresAddUp /\ ChartsShowFigures
BY OverviewsAddUp, SharesAddUp, ActivitiesAddUp, ChartsAreTrue DEF FiguresAddUp

-----------------------------------------------------------------------------
(*****************************************************************************)
(* Ping tracking (PingTracking): every ping of a summary counted once.       *)
(*****************************************************************************)
\* An event of the gateway.
Events == {"on_message", "on_raw_message_delete"} \X Messages
PingLogged(m) == \E row \in role_ping_logs : row.message = m
Deletes(queue, i, m) == queue[i][1] = "on_raw_message_delete" /\ queue[i][2] = m

PingsInv ==
    /\ TrackingTypeOK /\ events \in Seq(Events)
    /\ IsFiniteSet(role_ping_logs)
    /\ \A m \in Messages : discord[m] = "none" => ~PingLogged(m) /\ \A i \in DOMAIN events : events[i][2] # m
    /\ \A one, two \in role_ping_logs : one.message = two.message /\ one.role = two.role => one = two
    /\ \A row \in role_ping_logs, role \in PingedRoles :
           role \in content[row.message] => \E other \in role_ping_logs : other.message = row.message /\ other.role = role
    /\ \A row \in role_ping_logs :
           discord[row.message] = "deleted" =>
               row.deleted \/ row.message \in unseen \/ row.message \in DeletionsIn(events)
    /\ \A i \in DOMAIN events, m \in Messages :
           events[i] = <<"on_message", m>> /\ discord[m] = "deleted" =>
               m \in unseen \/ PingLogged(m) \/ \E j \in DOMAIN events : i < j /\ Deletes(events, j, m)

LEMMA PingsBegin == TrackingInit => PingsInv
<1> SUFFICES ASSUME TrackingInit
             PROVE  PingsInv
    OBVIOUS
<1>1. TrackingTypeOK
    BY PingAssumption DEF TrackingInit, TrackingTypeOK, GoneRole
<1>2. events \in Seq(Events) /\ events = <<>>
    BY DEF TrackingInit
<1> QED
    BY <1>1, <1>2, FS_EmptySet DEF TrackingInit, PingsInv, PingLogged

LEMMA DeletionsAre ==
    ASSUME NEW queue, NEW m
    PROVE  m \in DeletionsIn(queue) <=> \E i \in DOMAIN queue : Deletes(queue, i, m)
BY DEF DeletionsIn, Deletes

\* What is sent is last of the queue.
LEMMA QueueGrows ==
    ASSUME NEW queue \in Seq(Events), NEW event \in Events
    PROVE  /\ Append(queue, event) \in Seq(Events)
           /\ DOMAIN Append(queue, event) = DOMAIN queue \union {Len(queue) + 1}
           /\ \A i \in DOMAIN queue : Append(queue, event)[i] = queue[i] /\ i < Len(queue) + 1
           /\ Append(queue, event)[Len(queue) + 1] = event
OBVIOUS

LEMMA QueueShrinks ==
    ASSUME NEW queue \in Seq(Events), queue # <<>>
    PROVE  /\ Tail(queue) \in Seq(Events) /\ Head(queue) \in Events /\ Head(queue) = queue[1]
           /\ Len(queue) \in Nat \ {0}
           /\ DOMAIN Tail(queue) = 1 .. Len(queue) - 1
           /\ \A i \in DOMAIN Tail(queue) : Tail(queue)[i] = queue[i + 1]
OBVIOUS

\* Whether a deletion is on its way, when something is sent and when the first event is taken.
LEMMA DeletionsSent ==
    ASSUME NEW queue \in Seq(Events), NEW event \in Events
    PROVE  /\ DeletionsIn(queue) \subseteq DeletionsIn(Append(queue, event))
           /\ event[1] = "on_raw_message_delete" => event[2] \in DeletionsIn(Append(queue, event))
<1>1. ASSUME NEW m \in DeletionsIn(queue)
      PROVE  m \in DeletionsIn(Append(queue, event))
    <2>1. PICK i \in DOMAIN queue : Deletes(queue, i, m)
        BY DeletionsAre
    <2>2. i \in DOMAIN Append(queue, event) /\ Deletes(Append(queue, event), i, m)
        BY <2>1, QueueGrows DEF Deletes
    <2> QED
        BY <2>2, DeletionsAre
<1>2. ASSUME event[1] = "on_raw_message_delete"
      PROVE  event[2] \in DeletionsIn(Append(queue, event))
    <2>1. Len(queue) + 1 \in DOMAIN Append(queue, event) /\ Deletes(Append(queue, event), Len(queue) + 1, event[2])
        BY <1>2, QueueGrows DEF Deletes
    <2> QED
        BY <2>1, DeletionsAre
<1> QED
    BY <1>1, <1>2

LEMMA DeletionsTaken ==
    ASSUME NEW queue \in Seq(Events), queue # <<>>, NEW m \in DeletionsIn(queue)
    PROVE  \/ m \in DeletionsIn(Tail(queue))
           \/ Head(queue) = <<"on_raw_message_delete", m>> /\ m \in DeletionsIn(<<Head(queue)>>)
<1>1. PICK i \in DOMAIN queue : Deletes(queue, i, m)
    BY DeletionsAre
<1>2. i \in 1..Len(queue) /\ Len(queue) \in Nat
    BY QueueShrinks
<1>3. CASE i = 1
    <2>1. Head(queue) = <<"on_raw_message_delete", m>>
        BY <1>1, <1>3, QueueShrinks DEF Deletes, Events
    <2>2. 1 \in DOMAIN <<Head(queue)>> /\ Deletes(<<Head(queue)>>, 1, m)
        BY <2>1 DEF Deletes
    <2> QED
        BY <2>1, <2>2, DeletionsAre
<1>4. CASE i # 1
    <2>1. i - 1 \in DOMAIN Tail(queue) /\ Tail(queue)[i - 1] = queue[i]
        BY <1>2, <1>4, QueueShrinks
    <2>2. Deletes(Tail(queue), i - 1, m)
        BY <1>1, <2>1 DEF Deletes
    <2> QED
        BY <2>1, <2>2, DeletionsAre
<1> QED
    BY <1>3, <1>4

LEMMA PostKept == ASSUME PingsInv, NEW m \in Messages, Post(m) PROVE PingsInv'
<1>1. PICK roles \in SUBSET PingedRoles : content' = [content EXCEPT ![m] = roles]
    BY DEF Post
<1> DEFINE event == <<"on_message", m>>
<1>2. /\ discord[m] = "none" /\ discord' = [discord EXCEPT ![m] = "posted"]
      /\ UNCHANGED <<today, unseen, role_ping_logs, sizeVars>>
      /\ events' = Append(events, event) /\ event \in Events
      /\ events \in Seq(Events)
    BY DEF Post, Send, Events, PingsInv
<1>3. TrackingTypeOK'
    BY <1>1, <1>2 DEF PingsInv, TrackingTypeOK, sizeVars
<1>4. ~PingLogged(m) /\ \A i \in DOMAIN events : events[i][2] # m
    BY <1>2 DEF PingsInv
<1>5. \A n \in Messages : /\ n # m => discord'[n] = discord[n] /\ content'[n] = content[n]
                          /\ n = m => discord'[n] = "posted"
                          /\ PingLogged(n)' = PingLogged(n)
    BY <1>1, <1>2 DEF PingsInv, TrackingTypeOK, PingLogged
<1>6. \A row \in role_ping_logs : row.message \in Messages /\ row.message # m
    BY <1>4 DEF PingsInv, TrackingTypeOK, PingRow, PingLogged
<1>7. /\ events' \in Seq(Events) /\ DOMAIN events' = DOMAIN events \union {Len(events) + 1}
      /\ \A i \in DOMAIN events : events'[i] = events[i]
      /\ events'[Len(events) + 1] = event
    BY <1>2, QueueGrows
<1>8. DeletionsIn(events) \subseteq DeletionsIn(events)'
    BY <1>2, DeletionsSent
<1>9. \A n \in Messages : discord'[n] = "none" => ~PingLogged(n)' /\ \A i \in DOMAIN events' : events'[i][2] # n
    <2> SUFFICES ASSUME NEW n \in Messages, discord'[n] = "none"
                 PROVE  ~PingLogged(n)' /\ \A i \in DOMAIN events' : events'[i][2] # n
        OBVIOUS
    <2>1. n # m /\ discord[n] = "none"
        BY <1>5
    <2>2. event[2] # n
        BY <2>1
    <2> HIDE DEF event
    <2> QED
        BY <1>5, <1>7, <2>1, <2>2 DEF PingsInv
<1>10. \A i \in DOMAIN events', n \in Messages :
          events'[i] = <<"on_message", n>> /\ discord'[n] = "deleted" =>
              n \in unseen' \/ PingLogged(n)' \/ \E j \in DOMAIN events' : i < j /\ Deletes(events', j, n)
    <2> SUFFICES ASSUME NEW i \in DOMAIN events', NEW n \in Messages,
                        events'[i] = <<"on_message", n>>, discord'[n] = "deleted",
                        n \notin unseen', ~PingLogged(n)'
                 PROVE  \E j \in DOMAIN events' : i < j /\ Deletes(events', j, n)
        OBVIOUS
    <2>1. n # m /\ discord[n] = "deleted" /\ n \notin unseen /\ ~PingLogged(n)
        BY <1>2, <1>5
    <2>2. i \in DOMAIN events /\ events[i] = <<"on_message", n>>
        BY <1>7, <2>1
    <2>3. PICK j \in DOMAIN events : i < j /\ Deletes(events, j, n)
        BY <2>1, <2>2 DEF PingsInv
    <2> QED
        BY <1>7, <2>3 DEF Deletes
<1>11. \A row \in role_ping_logs', role \in PingedRoles :
           role \in content'[row.message] => \E other \in role_ping_logs' : other.message = row.message /\ other.role = role
    BY <1>2, <1>5, <1>6 DEF PingsInv
<1>12. \A row \in role_ping_logs' :
           discord'[row.message] = "deleted" =>
               row.deleted \/ row.message \in unseen' \/ row.message \in DeletionsIn(events)'
    BY <1>2, <1>5, <1>6, <1>8 DEF PingsInv
<1> QED
    BY <1>2, <1>3, <1>7, <1>9, <1>10, <1>11, <1>12 DEF PingsInv

LEMMA DeleteKept == ASSUME PingsInv, NEW m \in Messages, Delete(m) PROVE PingsInv'
<1> DEFINE event == <<"on_raw_message_delete", m>>
<1>2. /\ discord[m] = "posted" /\ discord' = [discord EXCEPT ![m] = "deleted"]
      /\ UNCHANGED <<today, content, unseen, role_ping_logs, sizeVars>>
      /\ events' = Append(events, event) /\ event \in Events /\ event[1] = "on_raw_message_delete" /\ event[2] = m
      /\ events \in Seq(Events)
    BY DEF Delete, Send, Events, PingsInv
<1>3. TrackingTypeOK'
    BY <1>2 DEF PingsInv, TrackingTypeOK, sizeVars
<1>5. \A n \in Messages : /\ n # m => discord'[n] = discord[n]
                          /\ n = m => discord'[n] = "deleted"
                          /\ PingLogged(n)' = PingLogged(n)
    BY <1>2 DEF PingsInv, TrackingTypeOK, PingLogged
<1>6. \A row \in role_ping_logs : row.message \in Messages
    BY DEF PingsInv, TrackingTypeOK, PingRow
<1>7. /\ events' \in Seq(Events) /\ DOMAIN events' = DOMAIN events \union {Len(events) + 1}
      /\ \A i \in DOMAIN events : events'[i] = events[i] /\ i < Len(events) + 1
      /\ events'[Len(events) + 1] = event
    BY <1>2, QueueGrows
<1>8. DeletionsIn(events) \subseteq DeletionsIn(events)' /\ m \in DeletionsIn(events)'
    BY <1>2, DeletionsSent
<1>9. \A n \in Messages : discord'[n] = "none" => ~PingLogged(n)' /\ \A i \in DOMAIN events' : events'[i][2] # n
    <2> SUFFICES ASSUME NEW n \in Messages, discord'[n] = "none"
                 PROVE  ~PingLogged(n)' /\ \A i \in DOMAIN events' : events'[i][2] # n
        OBVIOUS
    <2>1. n # m /\ discord[n] = "none"
        BY <1>5
    <2>2. event[2] # n
        BY <2>1
    <2> HIDE DEF event
    <2> QED
        BY <1>5, <1>7, <2>1, <2>2 DEF PingsInv
<1>10. \A i \in DOMAIN events', n \in Messages :
          events'[i] = <<"on_message", n>> /\ discord'[n] = "deleted" =>
              n \in unseen' \/ PingLogged(n)' \/ \E j \in DOMAIN events' : i < j /\ Deletes(events', j, n)
    <2> SUFFICES ASSUME NEW i \in DOMAIN events', NEW n \in Messages,
                        events'[i] = <<"on_message", n>>, discord'[n] = "deleted",
                        n \notin unseen', ~PingLogged(n)'
                 PROVE  \E j \in DOMAIN events' : i < j /\ Deletes(events', j, n)
        OBVIOUS
    <2>1. i \in DOMAIN events /\ events[i] = <<"on_message", n>>
        BY <1>7
    <2>2. CASE n = m
        BY <1>2, <1>7, <2>1, <2>2 DEF Deletes
    <2>3. CASE n # m
        <3>1. discord[n] = "deleted" /\ n \notin unseen /\ ~PingLogged(n)
            BY <1>2, <1>5, <2>3
        <3>2. PICK j \in DOMAIN events : i < j /\ Deletes(events, j, n)
            BY <2>1, <3>1 DEF PingsInv
        <3> QED
            BY <1>7, <3>2 DEF Deletes
    <2> QED
        BY <2>2, <2>3
<1>12. \A row \in role_ping_logs' :
           discord'[row.message] = "deleted" =>
               row.deleted \/ row.message \in unseen' \/ row.message \in DeletionsIn(events)'
    BY <1>2, <1>5, <1>6, <1>8 DEF PingsInv
<1> QED
    BY <1>2, <1>3, <1>7, <1>9, <1>10, <1>12 DEF PingsInv

LEMMA ResendKept == ASSUME PingsInv, NEW m \in Messages, Resend(m) PROVE PingsInv'
<1> DEFINE event == <<"on_message", m>>
<1>2. /\ discord[m] # "none"
      /\ UNCHANGED <<today, discord, content, role_ping_logs, sizeVars>>
      /\ events' = Append(events, event) /\ event \in Events /\ event[2] = m
      /\ events \in Seq(Events)
    BY DEF Resend, Send, Events, PingsInv
<1>3. unseen \subseteq unseen' /\ unseen' \subseteq Messages /\ (discord[m] = "deleted" => PingLogged(m) \/ m \in unseen')
    BY DEF Resend, PingLogged, PingsInv, TrackingTypeOK
<1>4. TrackingTypeOK'
    BY <1>2, <1>3 DEF PingsInv, TrackingTypeOK, sizeVars
<1>5. \A n \in Messages : PingLogged(n)' = PingLogged(n)
    BY <1>2 DEF PingLogged
<1>7. /\ events' \in Seq(Events) /\ DOMAIN events' = DOMAIN events \union {Len(events) + 1}
      /\ \A i \in DOMAIN events : events'[i] = events[i] /\ i < Len(events) + 1
      /\ events'[Len(events) + 1] = event
    BY <1>2, QueueGrows
<1>8. DeletionsIn(events) \subseteq DeletionsIn(events)'
    BY <1>2, DeletionsSent
<1>9. \A n \in Messages : discord'[n] = "none" => ~PingLogged(n)' /\ \A i \in DOMAIN events' : events'[i][2] # n
    <2> SUFFICES ASSUME NEW n \in Messages, discord'[n] = "none"
                 PROVE  ~PingLogged(n)' /\ \A i \in DOMAIN events' : events'[i][2] # n
        OBVIOUS
    <2>1. n # m /\ discord[n] = "none"
        BY <1>2
    <2>2. event[2] # n
        BY <2>1
    <2> HIDE DEF event
    <2> QED
        BY <1>5, <1>7, <2>1, <2>2 DEF PingsInv
<1>10. \A i \in DOMAIN events', n \in Messages :
          events'[i] = <<"on_message", n>> /\ discord'[n] = "deleted" =>
              n \in unseen' \/ PingLogged(n)' \/ \E j \in DOMAIN events' : i < j /\ Deletes(events', j, n)
    <2> SUFFICES ASSUME NEW i \in DOMAIN events', NEW n \in Messages,
                        events'[i] = <<"on_message", n>>, discord'[n] = "deleted",
                        n \notin unseen', ~PingLogged(n)'
                 PROVE  \E j \in DOMAIN events' : i < j /\ Deletes(events', j, n)
        OBVIOUS
    <2>1. discord[n] = "deleted" /\ n \notin unseen /\ ~PingLogged(n)
        BY <1>2, <1>3, <1>5
    <2>2. n # m
        BY <1>3, <2>1
    <2>3. i \in DOMAIN events /\ events[i] = <<"on_message", n>>
        BY <1>7, <2>2
    <2>4. PICK j \in DOMAIN events : i < j /\ Deletes(events, j, n)
        BY <2>1, <2>3 DEF PingsInv
    <2> QED
        BY <1>7, <2>4 DEF Deletes
<1>12. \A row \in role_ping_logs' :
           discord'[row.message] = "deleted" =>
               row.deleted \/ row.message \in unseen' \/ row.message \in DeletionsIn(events)'
    BY <1>2, <1>3, <1>8 DEF PingsInv
<1> QED
    BY <1>2, <1>4, <1>7, <1>9, <1>10, <1>12 DEF PingsInv

\* Taking the first event leaves the others in their order.
LEMMA OthersWait ==
    ASSUME PingsInv, events # <<>>, events' = Tail(events), discord' = discord, unseen \subseteq unseen',
           \A n \in Messages : PingLogged(n) => PingLogged(n)'
    PROVE  /\ events' \in Seq(Events)
           /\ \A n \in Messages : discord'[n] = "none" => \A i \in DOMAIN events' : events'[i][2] # n
           /\ \A i \in DOMAIN events', n \in Messages :
                 events'[i] = <<"on_message", n>> /\ discord'[n] = "deleted" =>
                    n \in unseen' \/ PingLogged(n)' \/ \E j \in DOMAIN events' : i < j /\ Deletes(events', j, n)
<1>1. events \in Seq(Events)
    BY DEF PingsInv
<1>2. /\ events' \in Seq(Events) /\ Len(events) \in Nat \ {0} /\ DOMAIN events = 1 .. Len(events)
      /\ DOMAIN events' = 1 .. Len(events) - 1
      /\ \A i \in DOMAIN events' : events'[i] = events[i + 1]
    BY <1>1, QueueShrinks
<1>3. \A i \in DOMAIN events' : i + 1 \in DOMAIN events
    BY <1>2
<1>4. ASSUME NEW i \in DOMAIN events', NEW n \in Messages,
             events'[i] = <<"on_message", n>>, discord'[n] = "deleted", n \notin unseen', ~PingLogged(n)'
      PROVE  \E j \in DOMAIN events' : i < j /\ Deletes(events', j, n)
    <2>1. events[i + 1] = <<"on_message", n>> /\ discord[n] = "deleted" /\ n \notin unseen /\ ~PingLogged(n)
        BY <1>2, <1>4
    <2>2. PICK j \in DOMAIN events : i + 1 < j /\ Deletes(events, j, n)
        BY <1>3, <2>1 DEF PingsInv
    <2>3. j - 1 \in DOMAIN events' /\ i < j - 1
        BY <1>2, <2>2
    <2>4. events'[j - 1] = events[j]
        BY <1>2, <2>3
    <2> QED
        BY <2>2, <2>3, <2>4 DEF Deletes
<1> QED
    BY <1>2, <1>3, <1>4 DEF PingsInv

LEMMA MessageKept == ASSUME PingsInv, OnMessage PROVE PingsInv'
<1> DEFINE m == Head(events)[2]
<1>1. /\ events # <<>> /\ events' = Tail(events) /\ Head(events)[1] = "on_message"
      /\ UNCHANGED <<today, discord, content, unseen, sizeVars>> /\ events \in Seq(Events)
    BY DEF OnMessage, PingsInv
<1>2. PICK snapshot \in Snapshots : LogPingsBulk(PingRows(m, content[m], snapshot))
    BY DEF OnMessage
<1> DEFINE new == {row \in PingRows(m, content[m], snapshot) :
                      ~ \E old \in role_ping_logs : old.message = row.message /\ old.role = row.role}
<1>3. role_ping_logs' = role_ping_logs \union new
    BY <1>2 DEF LogPingsBulk
<1>4. Head(events) \in Events /\ Head(events) = events[1] /\ 1 \in DOMAIN events /\ events[1] = <<"on_message", m>>
    BY <1>1, QueueShrinks DEF Events
<1>5. m \in Messages /\ content[m] \in SUBSET PingedRoles /\ discord[m] # "none" /\ content \in [Messages -> SUBSET PingedRoles]
    BY <1>4 DEF Events, PingsInv, TrackingTypeOK
<1>6. Clock \in Int
    BY DEF Clock, PingsInv, TrackingTypeOK, Day, Hour
<1>7. \A row \in new : /\ row.message = m /\ row.role \in content[m] /\ ~row.deleted
                       /\ row = [message |-> m, role |-> row.role, ship |-> snapshot.ship, vp |-> snapshot.vp,
                                 deleted |-> FALSE, time |-> Clock]
                       /\ ~ \E old \in role_ping_logs : old.message = m /\ old.role = row.role
    BY DEF PingRows
<1>8. \A role \in content[m] : (\E old \in role_ping_logs : old.message = m /\ old.role = role)
                               \/ \E row \in new : row.message = m /\ row.role = role
    <2> SUFFICES ASSUME NEW role \in content[m],
                        ~ \E old \in role_ping_logs : old.message = m /\ old.role = role
                 PROVE  \E row \in new : row.message = m /\ row.role = role
        OBVIOUS
    <2> DEFINE row == [message |-> m, role |-> role, ship |-> snapshot.ship, vp |-> snapshot.vp,
                       deleted |-> FALSE, time |-> Clock]
    <2>1. row \in PingRows(m, content[m], snapshot)
        BY DEF PingRows
    <2>2. row.message = m /\ row.role = role
        OBVIOUS
    <2> HIDE DEF row
    <2> QED
        BY <2>1, <2>2
<1>9. new \subseteq PingRow
    <2>1. snapshot.ship \in {s.ship : s \in Snapshots} /\ snapshot.vp \in BOOLEAN
        BY PingAssumption
    <2> SUFFICES ASSUME NEW row \in new
                 PROVE  row \in PingRow
        OBVIOUS
    <2>2. row.role \in PingedRoles
        BY <1>5, <1>7
    <2> HIDE DEF new, m
    <2>3. [message |-> m, role |-> row.role, ship |-> snapshot.ship, vp |-> snapshot.vp,
           deleted |-> FALSE, time |-> Clock] \in PingRow
        BY <1>5, <1>6, <2>1, <2>2 DEF PingRow
    <2> QED
        BY <1>7, <2>3
<1>10. IsFiniteSet(new)
    <2> DEFINE roles == content[m]
               value == [role \in roles |-> [message |-> m, role |-> role, ship |-> snapshot.ship, vp |-> snapshot.vp,
                                             deleted |-> FALSE, time |-> Clock]]
    <2>1. IsFiniteSet(roles)
        BY <1>5, PingAssumption, FS_Subset
    <2>2. value = [role \in roles |-> value[role]] /\ {value[role] : role \in roles} = PingRows(m, roles, snapshot)
        BY DEF PingRows
    <2> HIDE DEF value, roles
    <2>3. IsFiniteSet({value[role] : role \in roles})
        BY <2>1, <2>2, ImageFinite
    <2>4. IsFiniteSet(PingRows(m, roles, snapshot))
        BY <2>2, <2>3
    <2> USE DEF roles
    <2> QED
        BY <2>4, FS_Subset
<1> HIDE DEF new, m
<1>11. IsFiniteSet(role_ping_logs')
    BY <1>3, <1>10, FS_Union DEF PingsInv
<1>12. \A n \in Messages : PingLogged(n) => PingLogged(n)'
    BY <1>3 DEF PingLogged
<1>13. \A n \in Messages : PingLogged(n)' => PingLogged(n) \/ n = m
    BY <1>3, <1>7 DEF PingLogged
<1>14. TrackingTypeOK'
    BY <1>1, <1>3, <1>9 DEF PingsInv, TrackingTypeOK, sizeVars
<1>15. \A one, two \in role_ping_logs' : one.message = two.message /\ one.role = two.role => one = two
    <2> TAKE one, two \in role_ping_logs'
    <2> HAVE one.message = two.message /\ one.role = two.role
    <2>1. CASE one \in role_ping_logs /\ two \in role_ping_logs
        BY <2>1 DEF PingsInv
    <2>2. CASE one \in new /\ two \in new
        <3>1. one.role = two.role
            OBVIOUS
        <3> QED
            BY <1>7, <2>2, <3>1
    <2>3. CASE one \in role_ping_logs /\ two \in new
        BY <1>7, <2>3
    <2>4. CASE one \in new /\ two \in role_ping_logs
        BY <1>7, <2>4
    <2> QED
        BY <1>3, <2>1, <2>2, <2>3, <2>4
<1>16. \A row \in role_ping_logs', role \in PingedRoles :
           role \in content'[row.message] => \E other \in role_ping_logs' : other.message = row.message /\ other.role = role
    <2> SUFFICES ASSUME NEW row \in role_ping_logs', NEW role \in PingedRoles, role \in content[row.message]
                 PROVE  \E other \in role_ping_logs' : other.message = row.message /\ other.role = role
        BY <1>1
    <2>1. CASE row \in role_ping_logs
        BY <1>3, <2>1 DEF PingsInv
    <2>2. CASE row \in new
        BY <1>3, <1>7, <1>8, <2>2
    <2> QED
        BY <1>3, <2>1, <2>2
<1>17. DeletionsIn(events) \subseteq DeletionsIn(Tail(events))
    <2> SUFFICES ASSUME NEW n \in DeletionsIn(events)
                 PROVE  n \in DeletionsIn(Tail(events))
        OBVIOUS
    <2>1. Head(events) # <<"on_raw_message_delete", n>>
        BY <1>1
    <2> QED
        BY <1>1, <2>1, DeletionsTaken
<1>18. \A row \in role_ping_logs' :
           discord'[row.message] = "deleted" =>
               row.deleted \/ row.message \in unseen' \/ row.message \in DeletionsIn(events)'
    <2> SUFFICES ASSUME NEW row \in role_ping_logs', discord[row.message] = "deleted"
                 PROVE  row.deleted \/ row.message \in unseen \/ row.message \in DeletionsIn(Tail(events))
        BY <1>1
    <2>1. CASE row \in role_ping_logs
        BY <1>17, <2>1 DEF PingsInv
    <2>2. CASE row \in new
        <3>1. row.message = m /\ row.role \in content[m] /\ discord[m] = "deleted" /\ row.role \in PingedRoles
            BY <1>5, <1>7, <2>2
        <3>2. ~PingLogged(m)
            <4> SUFFICES ASSUME PingLogged(m)
                         PROVE  FALSE
                OBVIOUS
            <4>1. PICK old \in role_ping_logs : old.message = m
                BY DEF PingLogged
            <4>2. \E other \in role_ping_logs : other.message = m /\ other.role = row.role
                BY <3>1, <4>1 DEF PingsInv
            <4> QED
                BY <1>7, <2>2, <4>2
        <3>3. m \in unseen \/ \E j \in DOMAIN events : 1 < j /\ Deletes(events, j, m)
            BY <1>4, <1>5, <3>1, <3>2 DEF PingsInv
        <3>4. CASE m \in unseen
            BY <3>1, <3>4
        <3>5. CASE \E j \in DOMAIN events : 1 < j /\ Deletes(events, j, m)
            BY <1>17, <3>1, <3>5, DeletionsAre
        <3> QED
            BY <3>3, <3>4, <3>5
    <2> QED
        BY <1>3, <2>1, <2>2
<1>19. unseen \subseteq unseen' /\ discord' = discord
    BY <1>1
<1>20. \A n \in Messages : discord'[n] = "none" => ~PingLogged(n)'
    BY <1>5, <1>13, <1>19 DEF PingsInv
<1> QED
    BY <1>1, <1>11, <1>12, <1>14, <1>15, <1>16, <1>18, <1>19, <1>20, OthersWait DEF PingsInv

LEMMA MarkKept == ASSUME PingsInv, OnRawMessageDelete PROVE PingsInv'
<1> DEFINE m == Head(events)[2]
           Marked(row) == [row EXCEPT !.deleted = @ \/ row.message = m]
<1>1. /\ events # <<>> /\ events' = Tail(events) /\ Head(events)[1] = "on_raw_message_delete"
      /\ UNCHANGED <<today, discord, content, unseen, sizeVars>> /\ events \in Seq(Events)
    BY DEF OnRawMessageDelete, PingsInv
<1>2. role_ping_logs' = {Marked(row) : row \in role_ping_logs}
    BY DEF OnRawMessageDelete, MarkAsDeleted
<1>3. \A row \in role_ping_logs :
          /\ Marked(row) \in PingRow /\ Marked(row).message = row.message /\ Marked(row).role = row.role
          /\ (Marked(row).deleted <=> row.deleted \/ row.message = m)
    <2> TAKE row \in role_ping_logs
    <2>1. row \in PingRow
        BY DEF PingsInv, TrackingTypeOK
    <2> DEFINE d == row.deleted \/ row.message = m
    <2>2. d \in BOOLEAN /\ Marked(row) = [row EXCEPT !.deleted = d]
        OBVIOUS
    <2> HIDE DEF d, Marked
    <2>3. Marked(row) \in PingRow /\ Marked(row).message = row.message /\ Marked(row).role = row.role
          /\ Marked(row).deleted = d
        BY <2>1, <2>2 DEF PingRow
    <2> QED
        BY <2>3 DEF d
<1>4. IsFiniteSet(role_ping_logs')
    <2> DEFINE value == [row \in role_ping_logs |-> Marked(row)]
    <2>1. value = [row \in role_ping_logs |-> value[row]] /\ {value[row] : row \in role_ping_logs} = role_ping_logs'
        BY <1>2
    <2>2. IsFiniteSet(role_ping_logs)
        BY DEF PingsInv
    <2> HIDE DEF value
    <2>3. IsFiniteSet({value[row] : row \in role_ping_logs})
        BY <2>1, <2>2, ImageFinite
    <2> QED
        BY <2>1, <2>3
<1> HIDE DEF Marked
<1>5. \A n \in Messages : PingLogged(n)' = PingLogged(n)
    BY <1>2, <1>3 DEF PingLogged
<1>6. TrackingTypeOK'
    BY <1>1, <1>2, <1>3 DEF PingsInv, TrackingTypeOK, sizeVars
<1>7. \A one, two \in role_ping_logs' : one.message = two.message /\ one.role = two.role => one = two
    <2> TAKE one, two \in role_ping_logs'
    <2>1. PICK a \in role_ping_logs : one = Marked(a)
        BY <1>2
    <2>2. PICK b \in role_ping_logs : two = Marked(b)
        BY <1>2
    <2> QED
        BY <1>3, <2>1, <2>2 DEF PingsInv
<1>8. \A row \in role_ping_logs', role \in PingedRoles :
           role \in content'[row.message] => \E other \in role_ping_logs' : other.message = row.message /\ other.role = role
    <2> SUFFICES ASSUME NEW row \in role_ping_logs', NEW role \in PingedRoles, role \in content[row.message]
                 PROVE  \E other \in role_ping_logs' : other.message = row.message /\ other.role = role
        BY <1>1
    <2>1. PICK a \in role_ping_logs : row = Marked(a)
        BY <1>2
    <2>2. role \in content[a.message]
        BY <1>3, <2>1
    <2>3. PICK b \in role_ping_logs : b.message = a.message /\ b.role = role
        BY <2>2 DEF PingsInv
    <2>4. Marked(b) \in role_ping_logs' /\ Marked(b).message = row.message /\ Marked(b).role = role
        BY <1>2, <1>3, <2>1, <2>3
    <2> QED
        BY <2>4
<1>9. \A row \in role_ping_logs' :
           discord'[row.message] = "deleted" =>
               row.deleted \/ row.message \in unseen' \/ row.message \in DeletionsIn(events)'
    <2> SUFFICES ASSUME NEW row \in role_ping_logs', discord[row.message] = "deleted"
                 PROVE  row.deleted \/ row.message \in unseen \/ row.message \in DeletionsIn(Tail(events))
        BY <1>1
    <2>1. PICK a \in role_ping_logs : row = Marked(a)
        BY <1>2
    <2>2. row.message = a.message /\ (a.deleted \/ a.message = m => row.deleted)
        BY <1>3, <2>1
    <2>3. a.deleted \/ a.message \in unseen \/ a.message \in DeletionsIn(events)
        BY <2>2 DEF PingsInv
    <2>4. ASSUME a.message \in DeletionsIn(events), a.message # m
          PROVE  a.message \in DeletionsIn(Tail(events))
        <3>1. Head(events) # <<"on_raw_message_delete", a.message>>
            BY <2>4
        <3> QED
            BY <1>1, <2>4, <3>1, DeletionsTaken
    <2> QED
        BY <2>2, <2>3, <2>4
<1>10. unseen \subseteq unseen' /\ discord' = discord
    BY <1>1
<1>11. \A n \in Messages : discord'[n] = "none" => ~PingLogged(n)'
    BY <1>5, <1>10 DEF PingsInv
<1>12. \A n \in Messages : PingLogged(n) => PingLogged(n)'
    BY <1>5
<1> QED
    BY <1>1, <1>4, <1>6, <1>7, <1>8, <1>9, <1>10, <1>11, <1>12, OthersWait DEF PingsInv

LEMMA FailureKept == ASSUME PingsInv, ListenerFails PROVE PingsInv'
<1>1. /\ events # <<>> /\ events' = Tail(events) /\ events \in Seq(Events)
      /\ UNCHANGED <<today, discord, content, role_ping_logs, sizeVars>>
      /\ unseen' = unseen \union DeletionsIn(<<Head(events)>>)
    BY DEF ListenerFails, PingsInv
<1>2. DeletionsIn(<<Head(events)>>) \subseteq Messages
    <2>1. Head(events) \in Events
        BY <1>1, QueueShrinks
    <2>2. \A n \in DeletionsIn(<<Head(events)>>) : Head(events)[2] = n
        BY DeletionsAre DEF Deletes
    <2> QED
        BY <2>1, <2>2 DEF Events
<1>3. TrackingTypeOK'
    BY <1>1, <1>2 DEF PingsInv, TrackingTypeOK, sizeVars
<1>4. \A n \in Messages : PingLogged(n)' = PingLogged(n)
    BY <1>1 DEF PingLogged
<1>5. DeletionsIn(events) \subseteq DeletionsIn(Tail(events)) \union DeletionsIn(<<Head(events)>>)
    BY <1>1, DeletionsTaken
<1>6. \A row \in role_ping_logs' :
           discord'[row.message] = "deleted" =>
               row.deleted \/ row.message \in unseen' \/ row.message \in DeletionsIn(events)'
    BY <1>1, <1>5 DEF PingsInv
<1>7. unseen \subseteq unseen' /\ discord' = discord
    BY <1>1
<1>8. \A n \in Messages : discord'[n] = "none" => ~PingLogged(n)'
    BY <1>4, <1>7 DEF PingsInv
<1>9. \A n \in Messages : PingLogged(n) => PingLogged(n)'
    BY <1>4
<1> QED
    BY <1>1, <1>3, <1>6, <1>7, <1>8, <1>9, OthersWait DEF PingsInv

LEMMA RestartKept == ASSUME PingsInv, Restart PROVE PingsInv'
<1>1. /\ events' = <<>> /\ events \in Seq(Events)
      /\ UNCHANGED <<today, discord, content, role_ping_logs, sizeVars>>
      /\ unseen' = unseen \union DeletionsIn(events)
    BY DEF Restart, PingsInv
<1>2. DeletionsIn(events) \subseteq Messages
    <2>1. \A i \in DOMAIN events : events[i] \in Events
        BY <1>1
    <2> QED
        BY <2>1, DeletionsAre DEF Events, Deletes
<1>3. TrackingTypeOK'
    BY <1>1, <1>2 DEF PingsInv, TrackingTypeOK, sizeVars
<1>4. events' \in Seq(Events) /\ DOMAIN events' = {}
    BY <1>1
<1>5. \A n \in Messages : PingLogged(n)' = PingLogged(n)
    BY <1>1 DEF PingLogged
<1> QED
    BY <1>1, <1>3, <1>4, <1>5 DEF PingsInv

\* Every step of the listeners and of the gateway keeps what is known of the pings.
LEMMA PingsKept == PingsInv /\ PingsNext => PingsInv'
BY PostKept, DeleteKept, ResendKept, MessageKept, MarkKept, FailureKept, RestartKept DEF PingsNext

\* Days pass, roles change in size, and the daily task runs: nothing happens to the pings.
LEMMA PingsStay == ASSUME PingsInv, UNCHANGED pingVars, TrackingTypeOK' PROVE PingsInv'
<1>1. UNCHANGED <<discord, content, events, unseen, role_ping_logs>>
    BY DEF pingVars
<1>2. \A n \in Messages : PingLogged(n)' = PingLogged(n)
    BY <1>1 DEF PingLogged
<1>3. DeletionsIn(events)' = DeletionsIn(events)
    BY <1>1 DEF DeletionsIn
<1> QED
    BY <1>1, <1>2, <1>3 DEF PingsInv

\* A summary's series add up to the pings that are not deleted, with voyage permissions and without.
LEMMA SummariesAddUp ==
    ASSUME PingsInv, NEW f \in PingFilters
    PROVE  /\ SumFunction(BuildPingSummary(f).total) = BuildPingSummary(f).total_pings
           /\ SumFunction(BuildPingSummary(f).vp_enabled) + SumFunction(BuildPingSummary(f).non_vp)
                  = BuildPingSummary(f).total_pings
<1> DEFINE summary == BuildPingSummary(f)
           active == {row \in PingQuery(f) : ~row.deleted}
           yes == {row \in active : row.vp}
           no == {row \in active : ~row.vp}
           buckets == ObservedBuckets(f.range, Times(active))
           bucket == f.range.bucket
<1>1. Clock \in Int
    BY DEF Clock, PingsInv, TrackingTypeOK, Day, Hour
<1>2. IsRange(f.range)
    BY <1>1, RangesResolve DEF PingFilters
<1>3. \A row \in role_ping_logs : row.time \in Int
    BY DEF PingsInv, TrackingTypeOK, PingRow
<1>4. \A row \in active : row \in role_ping_logs /\ Within(f.range, row.time)
    BY DEF PingQuery
<1>5. IsFiniteSet(active) /\ IsFiniteSet(yes) /\ IsFiniteSet(no)
    <2>1. IsFiniteSet(role_ping_logs) /\ active \subseteq role_ping_logs
        BY <1>4 DEF PingsInv
    <2> QED
        BY <2>1, FS_Subset
<1>6. Times(active) = {row.time : row \in active}
    BY DEF Times
<1>7. /\ summary.total_pings = Cardinality(active)
      /\ summary.total = PerBucket(active, buckets, bucket)
      /\ summary.vp_enabled = PerBucket(yes, buckets, bucket)
      /\ summary.non_vp = PerBucket(no, buckets, bucket)
    <2> DEFINE In(b) == {r \in active : BucketStart(r.time, bucket) = b}
               InYes(b) == {row \in In(b) : row.vp}
               InNo(b) == {row \in In(b) : ~row.vp}
               Yes(b) == {row \in yes : BucketStart(row.time, bucket) = b}
               No(b) == {row \in no : BucketStart(row.time, bucket) = b}
    <2>1. \A b : InYes(b) = Yes(b) /\ InNo(b) = No(b)
        OBVIOUS
    <2>2. summary.total_pings = Cardinality(active)
        BY DEF BuildPingSummary
    <2>3. summary.total = PerBucket(active, buckets, bucket)
        BY <1>6 DEF BuildPingSummary, PerBucket
    <2>4. /\ summary.vp_enabled = [b \in buckets |-> Cardinality(InYes(b))]
          /\ summary.non_vp = [b \in buckets |-> Cardinality(InNo(b))]
        BY <1>6 DEF BuildPingSummary
    <2>5. /\ PerBucket(yes, buckets, bucket) = [b \in buckets |-> Cardinality(Yes(b))]
          /\ PerBucket(no, buckets, bucket) = [b \in buckets |-> Cardinality(No(b))]
        BY DEF PerBucket
    <2> HIDE DEF summary, active, yes, no, buckets, bucket, In, InYes, InNo, Yes, No
    <2> QED
        BY <2>1, <2>2, <2>3, <2>4, <2>5
<1> HIDE DEF summary, active
<1>8. Times(active) \in SUBSET Int /\ IsFiniteSet(Times(active))
    BY <1>3, <1>4, <1>5, TimesFinite
<1>9. IsFiniteSet(buckets) /\ \A t \in Times(active) : Within(f.range, t) => BucketStart(t, bucket) \in buckets
    BY <1>2, <1>8, ObservedCovers
<1> HIDE DEF buckets, bucket
<1>10. \A row \in active : BucketStart(row.time, bucket) \in buckets
    BY <1>4, <1>6, <1>9
<1>11. /\ SumFunction(PerBucket(active, buckets, bucket)) = Cardinality(active)
       /\ SumFunction(PerBucket(yes, buckets, bucket)) = Cardinality(yes)
       /\ SumFunction(PerBucket(no, buckets, bucket)) = Cardinality(no)
    BY <1>5, <1>9, <1>10, SeriesAddsUp
<1>12. Cardinality(active) = Cardinality(yes) + Cardinality(no)
    <2>1. yes \union no = active /\ yes \cap no = {}
        OBVIOUS
    <2> HIDE DEF yes, no
    <2> DEFINE z == Cardinality(yes \cap no)
               a == Cardinality(yes \union no)
    <2>2. a = Cardinality(yes) + Cardinality(no) - z
        BY <1>5, FS_Union
    <2>3. z = 0 /\ a = Cardinality(active) /\ Cardinality(yes) \in Nat /\ Cardinality(no) \in Nat
        BY <1>5, <2>1, FS_EmptySet, FS_CardinalityType
    <2> HIDE DEF z, a
    <2> QED
        BY <2>2, <2>3
<1> HIDE DEF yes, no
<1> QED
    BY <1>7, <1>11, <1>12 DEF summary

LEMMA PingsDoCountOnce == PingsInv => PingsCountOnce
<1> SUFFICES ASSUME PingsInv
             PROVE  PingsCountOnce
    OBVIOUS
<1>1. \A row \in role_ping_logs :
           discord[row.message] = "deleted" =>
               row.deleted \/ row.message \in unseen \union DeletionsIn(events)
    BY DEF PingsInv
<1>2. \A one, two \in role_ping_logs : one.message = two.message /\ one.role = two.role => one = two
    BY DEF PingsInv
<1> QED
    BY <1>1, <1>2, SummariesAddUp DEF PingsCountOnce

-----------------------------------------------------------------------------
(*****************************************************************************)
(* Role sizes (PingTracking): every estimate is of a day's own row.          *)
(*****************************************************************************)
\* Rows of one role: finitely many, no two of the same instant.
OneAtATime(rows) ==
    /\ IsFiniteSet(rows)
    /\ \A row \in rows : row.time \in Int
    /\ \A one, two \in rows : one.time = two.time => one = two

LEMMA OneAtATimeIn == ASSUME NEW rows, OneAtATime(rows), NEW some \in SUBSET rows PROVE OneAtATime(some)
BY FS_Subset DEF OneAtATime

LEMMA LatestExists ==
    ASSUME NEW rows, IsFiniteSet(rows), rows # {}, \A row \in rows : row.time \in Int
    PROVE  \E top \in rows : \A row \in rows : row.time <= top.time
<1>1. Times(rows) \in SUBSET Int /\ IsFiniteSet(Times(rows))
    BY TimesFinite
<1>2. Times(rows) # {}
    BY DEF Times
<1>3. \E x \in Times(rows) : \A y \in Times(rows) : y <= x
    BY <1>1, <1>2, FiniteHasEnds
<1> QED
    BY <1>3 DEF Times

LEMMA LastIs ==
    ASSUME NEW rows, OneAtATime(rows), NEW top \in rows, \A row \in rows : row.time <= top.time
    PROVE  LastSize(rows) = top.size
<1> DEFINE P(row) == \A other \in rows : other.time <= row.time
           last == CHOOSE row \in rows : P(row)
<1>1. last \in rows /\ P(last)
    <2>1. top \in rows /\ P(top)
        OBVIOUS
    <2> HIDE DEF P
    <2> QED
        BY <2>1
<1>2. LastSize(rows) = last.size
    BY DEF LastSize
<1> HIDE DEF last
<1>3. last.time = top.time
    <2>1. last.time <= top.time /\ top.time <= last.time /\ last.time \in Int /\ top.time \in Int
        BY <1>1 DEF OneAtATime
    <2> QED
        BY <2>1
<1>4. last = top
    BY <1>1, <1>3 DEF OneAtATime
<1> QED
    BY <1>2, <1>4

\* The last row of a bucket, or else the last before it, is the last before its end.
LEMMA EstimateIsLast ==
    ASSUME NEW rows, OneAtATime(rows), NEW from \in Int, NEW to \in Int, from <= to
    PROVE  EstimateSizeAt(rows, from, to) = LastSize({row \in rows : row.time < to})
<1> DEFINE inBucket == {row \in rows : from <= row.time /\ row.time < to}
           before == {row \in rows : row.time < to}
           earlier == {row \in rows : row.time < from}
<1>1. EstimateSizeAt(rows, from, to) = IF inBucket # {} THEN LastSize(inBucket) ELSE LastSize(earlier)
    BY DEF EstimateSizeAt
<1>2. \A row \in rows : row.time \in Int
    BY DEF OneAtATime
<1>3. CASE inBucket = {}
    <2>1. before = earlier
        BY <1>2, <1>3
    <2> HIDE DEF inBucket, before, earlier
    <2>2. EstimateSizeAt(rows, from, to) = LastSize(earlier)
        BY <1>1, <1>3
    <2> QED
        BY <2>1, <2>2 DEF before
<1>4. CASE inBucket # {}
    <2>1. OneAtATime(inBucket) /\ OneAtATime(before)
        BY OneAtATimeIn
    <2>2. PICK top \in inBucket : \A row \in inBucket : row.time <= top.time
        <3> HIDE DEF inBucket
        <3> QED
            BY <1>4, <2>1, LatestExists DEF OneAtATime
    <2>3. top \in before /\ \A row \in before : row.time <= top.time
        <3> SUFFICES ASSUME NEW row \in before
                     PROVE  row.time <= top.time
            BY <2>2
        <3>1. row.time \in Int /\ top.time \in Int /\ from <= top.time
            BY <1>2, <2>2
        <3>2. CASE from <= row.time
            BY <2>2, <3>2
        <3>3. CASE row.time < from
            BY <3>1, <3>3
        <3> QED
            BY <3>1, <3>2, <3>3
    <2> HIDE DEF inBucket, before, earlier
    <2>4. LastSize(inBucket) = top.size /\ LastSize(before) = top.size
        BY <2>1, <2>2, <2>3, LastIs
    <2> QED
        BY <1>1, <1>4, <2>4 DEF before
<1> QED
    BY <1>3, <1>4

-----------------------------------------------------------------------------
(***************************************************************************)
(* The rows about the sizes of roles.  Only changes are written, and so    *)
(* before any instant the last row of a role has the size that the daily   *)
(* task saw last.                                                          *)
(***************************************************************************)
Before(rows, role, x) == {row \in rows : row.role = role /\ row.time < x}
SizeTable(rows) ==
    /\ IsFiniteSet(rows) /\ rows \subseteq SizeRow
    /\ \A row \in rows : row.time <= TaskTime
    /\ \A one, two \in rows : one.role = two.role /\ one.time = two.time => one = two

SizesInv ==
    /\ TrackingTypeOK /\ SizeTable(role_size) /\ SizeTable(seen)
    /\ \A row \in role_size : row.time = TaskTime => \E other \in seen : other.time = TaskTime
    /\ \A role \in TrackedRoles, x \in Int :
           LastSize(Before(role_size, role, x)) = LastSize(Before(seen, role, x))

LEMMA SizesBegin == TrackingInit => SizesInv
<1> SUFFICES ASSUME TrackingInit
             PROVE  SizesInv
    OBVIOUS
<1>1. TrackingTypeOK
    BY PingAssumption DEF TrackingInit, TrackingTypeOK, GoneRole
<1>2. role_size = {} /\ seen = {}
    BY DEF TrackingInit
<1> QED
    BY <1>1, <1>2, FS_EmptySet DEF SizesInv, SizeTable

LEMMA TaskTimes == today \in Int => TaskTime \in Int /\ Clock \in Int /\ TaskTime < Clock
BY DEF TaskTime, Clock, Day, Hour

LEMMA BeforeOneAtATime ==
    ASSUME NEW rows, SizeTable(rows), NEW role, NEW x
    PROVE  OneAtATime(Before(rows, role, x)) /\ OneAtATime({row \in rows : row.role = role})
BY FS_Subset DEF SizeTable, OneAtATime, Before, SizeRow

\* What a run adds about a role is the last about it.
Fresh(rows, roles) ==
    /\ SizeTable(rows) /\ today \in Int /\ \A row \in rows : row.time # TaskTime
    /\ roles \subseteq TrackedRoles /\ \A role \in roles : members[role] \in 0 .. MaxSizeOf
Latest(rows, roles, all) ==
    /\ SizeTable(all)
    /\ \A role \in TrackedRoles, x \in Int :
           ~ (role \in roles /\ TaskTime < x) => Before(all, role, x) = Before(rows, role, x)
    /\ \A role \in roles, x \in Int : TaskTime < x => LastSize(Before(all, role, x)) = members[role]

\* What the daily task adds is, after its time, the last size of each role it wrote.
LEMMA AddedIsLast ==
    ASSUME NEW rows, NEW roles, Fresh(rows, roles)
    PROVE  Latest(rows, roles, rows \union Sized(roles))
<1> USE DEF Fresh
<1> DEFINE new == Sized(roles)
<1>1. \A row \in new : row.role \in roles /\ row = [role |-> row.role, size |-> members[row.role], time |-> TaskTime]
                       /\ row.time = TaskTime
    BY DEF Sized
<1>2. TaskTime \in Int
    BY TaskTimes
<1>3. \A row \in rows : row.time \in Int /\ row.time < TaskTime
    BY <1>2 DEF SizeTable, SizeRow
<1>4. IsFiniteSet(new)
    <2> DEFINE value == [role \in roles |-> [role |-> role, size |-> members[role], time |-> TaskTime]]
    <2>1. value = [role \in roles |-> value[role]] /\ {value[role] : role \in roles} = new
        BY DEF Sized
    <2>2. IsFiniteSet(roles)
        <3> DEFINE at == [i \in DOMAIN SizedRoles |-> SizedRoles[i]]
        <3>1. at = [i \in DOMAIN SizedRoles |-> at[i]] /\ {at[i] : i \in DOMAIN SizedRoles} = TrackedRoles
            BY DEF TrackedRoles
        <3>2. IsFiniteSet(DOMAIN SizedRoles)
            <4>1. DOMAIN SizedRoles = 1 .. Len(SizedRoles) /\ Len(SizedRoles) \in Nat
                BY PingAssumption
            <4> QED
                BY <4>1, FS_Interval
        <3> HIDE DEF at
        <3>3. IsFiniteSet({at[i] : i \in DOMAIN SizedRoles})
            BY <3>1, <3>2, ImageFinite
        <3> QED
            BY <3>1, <3>3, FS_Subset
    <2> HIDE DEF value, new
    <2>3. IsFiniteSet({value[role] : role \in roles})
        BY <2>1, <2>2, ImageFinite
    <2> QED
        BY <2>1, <2>3
<1>5. \A role \in roles : [role |-> role, size |-> members[role], time |-> TaskTime] \in new
    BY DEF Sized
<1>6. new \subseteq SizeRow
    <2> SUFFICES ASSUME NEW row \in new
                 PROVE  row \in SizeRow
        OBVIOUS
    <2>1. row.role \in TrackedRoles /\ members[row.role] \in 0 .. MaxSizeOf
        BY <1>1
    <2>2. [role |-> row.role, size |-> members[row.role], time |-> TaskTime] \in SizeRow
        BY <1>2, <2>1 DEF SizeRow
    <2> QED
        BY <1>1, <2>2
<1> HIDE DEF new
<1>7. SizeTable(rows \union new)
    <2>1. IsFiniteSet(rows \union new) /\ rows \union new \subseteq SizeRow
        BY <1>4, <1>6, FS_Union DEF SizeTable
    <2>2. \A row \in rows \union new : row.time <= TaskTime
        BY <1>1, <1>2, <1>3
    <2>3. \A one, two \in rows \union new : one.role = two.role /\ one.time = two.time => one = two
        <3> TAKE one, two \in rows \union new
        <3> HAVE one.role = two.role /\ one.time = two.time
        <3>1. CASE one \in rows /\ two \in rows
            BY <3>1 DEF SizeTable
        <3>2. CASE one \in new /\ two \in new
            BY <1>1, <3>2
        <3>3. CASE one \in rows /\ two \in new
            BY <1>1, <3>3
        <3>4. CASE one \in new /\ two \in rows
            BY <1>1, <3>4
        <3> QED
            BY <3>1, <3>2, <3>3, <3>4
    <2> QED
        BY <2>1, <2>2, <2>3 DEF SizeTable
<1>8. \A role \in TrackedRoles, x \in Int : ~ (role \in roles /\ TaskTime < x) => Before(rows \union new, role, x) = Before(rows, role, x)
    BY <1>1 DEF Before
<1>9. ASSUME NEW role \in roles, NEW x \in Int, TaskTime < x
      PROVE  LastSize(Before(rows \union new, role, x)) = members[role]
    <2> DEFINE top == [role |-> role, size |-> members[role], time |-> TaskTime]
               all == Before(rows \union new, role, x)
    <2>1. top \in all
        BY <1>5, <1>9 DEF Before
    <2>2. \A row \in all : row.time <= top.time
        BY <1>1, <1>2, <1>3 DEF Before
    <2>3. OneAtATime(all)
        BY <1>7, BeforeOneAtATime
    <2>4. top.size = members[role]
        OBVIOUS
    <2> HIDE DEF top, all
    <2>5. LastSize(all) = top.size
        BY <2>1, <2>2, <2>3, LastIs
    <2> QED
        BY <2>4, <2>5 DEF all
<1> QED
    BY <1>7, <1>8, <1>9 DEF new, Latest

LEMMA TaskKept == ASSUME SizesInv, AutoTrackRoleSize PROVE SizesInv'
<1>1. PICK n \in 1 .. Len(SizedRoles) :
          /\ role_size' = role_size \union Sized(Changed(n))
          /\ seen' = seen \union Sized(Present(n))
    BY DEF AutoTrackRoleSize
<1>2. UNCHANGED <<today, pingVars, members>> /\ ~ \E row \in seen : row.time = TaskTime
    BY DEF AutoTrackRoleSize
<1>3. SizeTable(role_size) /\ SizeTable(seen) /\ today \in Int /\ TaskTime \in Int
    BY TaskTimes, PingAssumption DEF SizesInv, TrackingTypeOK
<1>4. (\A row \in seen : row.time # TaskTime) /\ (\A row \in role_size : row.time # TaskTime)
    BY <1>2 DEF SizesInv
<1>5. \A i \in 1 .. n : i \in DOMAIN SizedRoles
    BY PingAssumption
<1>6. \A role \in TrackedRoles : members[role] \in GoneRole .. MaxSizeOf
    BY DEF SizesInv, TrackingTypeOK
<1>7. /\ Present(n) \subseteq TrackedRoles /\ Changed(n) \subseteq Present(n)
      /\ \A role \in Present(n) : members[role] \in 0 .. MaxSizeOf
      /\ \A role \in Present(n) \ Changed(n) : members[role] = MostRecentSize(role)
    <2>1. FirstRoles(n) \subseteq TrackedRoles
        BY <1>5 DEF FirstRoles, TrackedRoles
    <2>2. \A role \in TrackedRoles : members[role] # GoneRole => members[role] \in 0 .. MaxSizeOf
        BY <1>6, PingAssumption DEF GoneRole
    <2>3. Present(n) = {role \in FirstRoles(n) : members[role] # GoneRole}
        BY DEF Present
    <2>4. Changed(n) = {role \in Present(n) : members[role] # MostRecentSize(role)}
        BY <2>3 DEF Changed
    <2> QED
        BY <2>1, <2>2, <2>3, <2>4
<1> DEFINE p == Present(n)
           c == Changed(n)
<1> HIDE DEF p, c
<1>8. /\ p \subseteq TrackedRoles /\ c \subseteq TrackedRoles /\ c \subseteq p
      /\ \A role \in p : members[role] \in 0 .. MaxSizeOf
      /\ \A role \in c : members[role] \in 0 .. MaxSizeOf
      /\ \A role \in p \ c : members[role] = MostRecentSize(role)
      /\ role_size' = role_size \union Sized(c) /\ seen' = seen \union Sized(p)
    BY <1>1, <1>7 DEF p, c
<1>9. /\ SizeTable(role_size')
      /\ \A role \in TrackedRoles, x \in Int :
             ~ (role \in c /\ TaskTime < x) => Before(role_size', role, x) = Before(role_size, role, x)
      /\ \A role \in c, x \in Int : TaskTime < x => LastSize(Before(role_size', role, x)) = members[role]
    <2>1. Fresh(role_size, c)
        BY <1>3, <1>4, <1>8 DEF Fresh
    <2>2. Latest(role_size, c, role_size')
        BY <1>8, <2>1, AddedIsLast
    <2> QED
        BY <2>2 DEF Latest
<1>10. /\ SizeTable(seen')
       /\ \A role \in TrackedRoles, x \in Int :
              ~ (role \in p /\ TaskTime < x) => Before(seen', role, x) = Before(seen, role, x)
       /\ \A role \in p, x \in Int : TaskTime < x => LastSize(Before(seen', role, x)) = members[role]
    <2>1. Fresh(seen, p)
        BY <1>3, <1>4, <1>8 DEF Fresh
    <2>2. Latest(seen, p, seen')
        BY <1>8, <2>1, AddedIsLast
    <2> QED
        BY <2>2 DEF Latest
<1>11. TaskTime' = TaskTime
    BY <1>2 DEF TaskTime
<1>12. SizeTable(role_size)' /\ SizeTable(seen)'
    BY <1>8, <1>9, <1>10, <1>11 DEF SizeTable
<1>13. TrackingTypeOK'
    BY <1>2, <1>12 DEF SizesInv, TrackingTypeOK, pingVars, SizeTable
<1>14. \A row \in role_size' : row.time = TaskTime' => \E other \in seen' : other.time = TaskTime'
    <2> SUFFICES ASSUME NEW row \in role_size', row.time = TaskTime
                 PROVE  \E other \in seen' : other.time = TaskTime
        BY <1>11
    <2>1. row \in Sized(c)
        BY <1>4, <1>8
    <2>2. row \in Sized(p)
        BY <1>8, <2>1 DEF Sized
    <2> QED
        BY <1>8, <2>2
<1>15. ASSUME NEW role \in TrackedRoles, NEW x \in Int
       PROVE  LastSize(Before(role_size', role, x)) = LastSize(Before(seen', role, x))
    <2>1. LastSize(Before(role_size, role, x)) = LastSize(Before(seen, role, x))
        BY DEF SizesInv
    <2>2. CASE ~ (role \in p /\ TaskTime < x)
        <3>1. ~ (role \in c /\ TaskTime < x)
            BY <1>8, <2>2
        <3> QED
            BY <1>9, <1>10, <2>1, <2>2, <3>1
    <2>3. CASE role \in c /\ TaskTime < x
        BY <1>8, <1>9, <1>10, <2>3
    <2>4. CASE role \in p \ c /\ TaskTime < x
        <3>1. LastSize(Before(seen', role, x)) = members[role] /\ members[role] = MostRecentSize(role)
            BY <1>8, <1>10, <2>4
        <3>2. Before(role_size', role, x) = Before(role_size, role, x)
            BY <1>9, <2>4
        <3>3. Before(role_size, role, x) = {row \in role_size : row.role = role}
            BY <1>3, <2>4 DEF Before, SizeTable, SizeRow
        <3> QED
            BY <3>1, <3>2, <3>3 DEF MostRecentSize
    <2> QED
        BY <2>2, <2>3, <2>4
<1> QED
    BY <1>12, <1>13, <1>14, <1>15 DEF SizesInv

LEMMA ResizeKept == ASSUME SizesInv, Resize PROVE SizesInv'
<1>1. UNCHANGED <<today, pingVars, role_size, seen>>
    BY DEF Resize
<1>2. members' \in [TrackedRoles -> GoneRole .. MaxSizeOf]
    BY DEF Resize, SizesInv, TrackingTypeOK
<1>3. TrackingTypeOK'
    BY <1>1, <1>2 DEF SizesInv, TrackingTypeOK, pingVars
<1>4. TaskTime' = TaskTime
    BY <1>1 DEF TaskTime
<1> QED
    BY <1>1, <1>3, <1>4 DEF SizesInv, SizeTable

LEMMA DayKept == ASSUME SizesInv, PassDay PROVE SizesInv'
<1>1. UNCHANGED <<pingVars, members, role_size, seen>> /\ today' = today + 1 /\ today < MaxDay
    BY DEF PassDay, sizeVars
<1>2. today \in 0 .. MaxDay
    BY DEF SizesInv, TrackingTypeOK
<1>3. TrackingTypeOK'
    BY <1>1, <1>2, PingAssumption DEF SizesInv, TrackingTypeOK, pingVars
<1>4. TaskTime \in Int /\ TaskTime' \in Int /\ TaskTime < TaskTime'
    BY <1>1, <1>2, PingAssumption DEF TaskTime, Day, Hour
<1>5. (\A row \in role_size : row.time \in Int /\ row.time <= TaskTime) /\ (\A row \in seen : row.time \in Int /\ row.time <= TaskTime)
    BY DEF SizesInv, SizeTable, SizeRow
<1>6. (\A row \in role_size : row.time <= TaskTime' /\ row.time # TaskTime') /\ (\A row \in seen : row.time <= TaskTime')
    BY <1>4, <1>5
<1> QED
    BY <1>1, <1>3, <1>6 DEF SizesInv, SizeTable

LEMMA SizesStay == ASSUME SizesInv, UNCHANGED <<today, sizeVars>>, TrackingTypeOK' PROVE SizesInv'
<1>1. UNCHANGED <<role_size, seen>> /\ TaskTime' = TaskTime
    BY DEF sizeVars, TaskTime
<1> QED
    BY <1>1 DEF SizesInv, SizeTable

\* What a chart takes for a role's size in a bucket is the last size that was seen
\* before the bucket's end.
LEMMA EstimatesAreTrue == SizesInv => EstimatesTrue
<1> SUFFICES ASSUME SizesInv, NEW role \in TrackedRoles, NEW label \in PingLabels,
                    NEW b \in DOMAIN BuildSizeSummary(role, RoleSizeTimeRange(label, Clock))
             PROVE  BuildSizeSummary(role, RoleSizeTimeRange(label, Clock))[b] =
                        LastSize({row \in seen : /\ row.role = role
                                                 /\ row.time < NextBucketStart(b, RoleSizeTimeRange(label, Clock).bucket)})
    BY DEF EstimatesTrue
<1> DEFINE range == RoleSizeTimeRange(label, Clock)
           mine == {row \in role_size : row.role = role}
           rows == {row \in role_size : row.role = role /\ row.time <= range.end}
           next == NextBucketStart(b, range.bucket)
           buckets == ObservedBuckets(range, {row.time : row \in rows})
<1>1. today \in Int /\ TaskTime \in Int /\ Clock \in Int /\ TaskTime < Clock
    BY TaskTimes, PingAssumption DEF SizesInv, TrackingTypeOK
<1>2. IsRange(range) /\ range.end = Clock
    BY <1>1, RangesResolve
<1>3. rows = mine
    BY <1>1, <1>2 DEF SizesInv, SizeTable, SizeRow
<1>4. OneAtATime(mine)
    BY BeforeOneAtATime DEF SizesInv
<1>5. BuildSizeSummary(role, range) = [d \in buckets |-> EstimateSizeAt(rows, d, NextBucketStart(d, range.bucket))]
    BY DEF BuildSizeSummary
<1>6. b \in buckets /\ BuildSizeSummary(role, range)[b] = EstimateSizeAt(rows, b, next)
    BY <1>5
<1> HIDE DEF rows, mine
<1>7. b \in Starts(range.bucket)
    <2>1. {row.time : row \in rows} = Times(rows)
        BY DEF Times
    <2>2. Times(rows) \in SUBSET Int /\ IsFiniteSet(Times(rows))
        BY <1>3, <1>4, TimesFinite DEF OneAtATime
    <2>3. \A d \in ObservedBuckets(range, Times(rows)) : d \in Starts(range.bucket)
        BY <1>2, <2>2, ObservedCovers
    <2> QED
        BY <1>6, <2>1, <2>3
<1>8. b \in Int /\ next \in Int /\ b <= next
    <2>1. Divides(range.bucket) /\ b \in Int /\ BucketStart(b, range.bucket) = b
        BY <1>2, <1>7, AllDivide DEF IsRange, Starts
    <2> QED
        BY <2>1 DEF Divides
<1>9. EstimateSizeAt(mine, b, next) = LastSize({row \in mine : row.time < next})
    BY <1>4, <1>8, EstimateIsLast
<1>10. {row \in mine : row.time < next} = Before(role_size, role, next)
    BY DEF mine, Before
<1>11. LastSize(Before(role_size, role, next)) = LastSize(Before(seen, role, next))
    BY <1>8 DEF SizesInv
<1> HIDE DEF next, range
<1> QED
    BY <1>3, <1>6, <1>9, <1>10, <1>11 DEF Before, next, range

-----------------------------------------------------------------------------
(*****************************************************************************)
(* Pocket watch (PocketWatch): its windows and its counts.                   *)
(*****************************************************************************)
WatchInv == WatchTypeOK /\ IsFiniteSet(attended) /\ IsFiniteSet(hosted)

LEMMA WatchBegins == WatchInit => WatchInv
BY FS_EmptySet DEF WatchInit, WatchInv, WatchTypeOK

LEMMA WatchKept == WatchInv /\ (WatchNext \/ UNCHANGED watchVars) => WatchInv'
<1> SUFFICES ASSUME WatchInv, WatchNext \/ UNCHANGED watchVars
             PROVE  WatchInv'
    OBVIOUS
<1>1. CASE UNCHANGED watchVars
    BY <1>1 DEF watchVars, WatchInv, WatchTypeOK
<1>2. ASSUME NEW t \in WatchTimes, Attend(t)
      PROVE  WatchInv'
    <2>1. IsFiniteSet(attended \union {t})
        BY FS_AddElement DEF WatchInv
    <2> QED
        BY <1>2, <2>1 DEF Attend, WatchInv, WatchTypeOK
<1>3. ASSUME NEW t \in WatchTimes, Host(t)
      PROVE  WatchInv'
    <2>1. IsFiniteSet(hosted \union {t})
        BY FS_AddElement DEF WatchInv
    <2> QED
        BY <1>3, <2>1 DEF Host, WatchInv, WatchTypeOK
<1> QED
    BY <1>1, <1>2, <1>3 DEF WatchNext

\* What has a place among some values is counted once by them.
LEMMA AllCounted ==
    ASSUME NEW X, IsFiniteSet(X), NEW values, IsFiniteSet(values), NEW place, place = [x \in X |-> place[x]],
           \A x \in X : place[x] \in values
    PROVE  SumFunction(CountAt(place, values)) = Cardinality(X)
<1> DEFINE f == CountAt(place, values)
<1>1. DOMAIN place = X
    OBVIOUS
<1>2. DOMAIN f = values /\ \A v \in values : f[v] = Cardinality(PlacedAt(X, place, v))
    BY <1>1 DEF CountAt, PlacedAt
<1>3. PlacedIn(X, place, values) = X
    BY DEF PlacedIn
<1> HIDE DEF f
<1>4. SumFunctionOnSet(f, values) = Cardinality(PlacedIn(X, place, values))
    BY <1>2, PartsMakeWhole
<1> QED
    BY <1>2, <1>3, <1>4 DEF SumFunction, f

\* A count is a number, and a place that something has is counted.
LEMMA CountsAre ==
    ASSUME NEW X, IsFiniteSet(X), NEW values, NEW place, place = [x \in X |-> place[x]]
    PROVE  /\ DOMAIN CountAt(place, values) = values
           /\ \A v \in values : CountAt(place, values)[v] \in Nat
           /\ \A x \in X : place[x] \in values => CountAt(place, values)[place[x]] > 0
<1>1. DOMAIN place = X
    OBVIOUS
<1>2. DOMAIN CountAt(place, values) = values
      /\ \A v \in values : CountAt(place, values)[v] = Cardinality(PlacedAt(X, place, v))
    BY <1>1 DEF CountAt, PlacedAt
<1>3. \A v \in values : IsFiniteSet(PlacedAt(X, place, v)) /\ Cardinality(PlacedAt(X, place, v)) \in Nat
    <2>1. \A v \in values : IsFiniteSet(PlacedAt(X, place, v))
        BY FS_Subset DEF PlacedAt
    <2> QED
        BY <2>1, FS_CardinalityType
<1>4. ASSUME NEW x \in X, place[x] \in values
      PROVE  CountAt(place, values)[place[x]] > 0
    <2>1. PlacedAt(X, place, place[x]) # {}
        BY DEF PlacedAt
    <2>2. Cardinality(PlacedAt(X, place, place[x])) # 0
        BY <1>3, <1>4, <2>1, FS_EmptySet
    <2> QED
        BY <1>2, <1>3, <1>4, <2>2
<1> QED
    BY <1>2, <1>3, <1>4

\* The first of the hours with the most has no fewer than any other.
LEMMA MostActiveIs ==
    ASSUME NEW counts, DOMAIN counts \subseteq Int, IsFiniteSet(DOMAIN counts), DOMAIN counts # {},
           \A v \in DOMAIN counts : counts[v] \in Nat
    PROVE  MostActive(counts) \in DOMAIN counts /\ \A w \in DOMAIN counts : counts[w] <= counts[MostActive(counts)]
<1> DEFINE D == DOMAIN counts
           value == [v \in D |-> counts[v]]
           V == {value[v] : v \in D}
           P(v) == \A w \in D : counts[w] < counts[v] \/ (counts[w] = counts[v] /\ v <= w)
<1>1. IsFiniteSet(V) /\ V \in SUBSET Int /\ V # {}
    <2>1. value = [v \in D |-> value[v]]
        OBVIOUS
    <2>2. \A v \in D : value[v] \in Int
        OBVIOUS
    <2> HIDE DEF value
    <2> QED
        BY <2>1, <2>2, ImageFinite
<1>2. PICK m \in V : \A n \in V : n <= m
    <2> HIDE DEF V
    <2> QED
        BY <1>1, FiniteHasEnds
<1> DEFINE best == {v \in D : counts[v] = m}
<1>3. m \in Int /\ \A w \in D : counts[w] <= m
    BY <1>1, <1>2
<1>4. best \in SUBSET Int /\ IsFiniteSet(best) /\ best # {}
    BY <1>2, FS_Subset
<1>5. PICK v \in best : \A w \in best : v <= w
    <2> HIDE DEF best
    <2> QED
        BY <1>4, FiniteHasEnds
<1>6. v \in D /\ P(v)
    BY <1>3, <1>5
<1>7. MostActive(counts) \in D /\ P(MostActive(counts))
    <2>1. MostActive(counts) = CHOOSE u \in D : P(u)
        BY DEF MostActive
    <2> HIDE DEF P, D
    <2> QED
        BY <1>6, <2>1
<1> QED
    BY <1>7

-----------------------------------------------------------------------------
\* The labelled weeks: the first and the last, and not too many.
LEMMA Division ==
    ASSUME NEW a \in Nat, NEW b \in Nat \ {0}
    PROVE  a = b * (a \div b) + (a % b) /\ a \div b \in Nat /\ a % b \in 0 .. b - 1
OBVIOUS

LEMMA MultiplesFew ==
    ASSUME NEW step \in Nat \ {0}, NEW n \in Nat, NEW i \in Nat, NEW j \in Nat,
           i < step * n, i % step = 0, j % step = 0
    PROVE  /\ i \div step \in 0 .. n - 1
           /\ i \div step = j \div step => i = j
<1>1. i = step * (i \div step) + (i % step) /\ i \div step \in Nat
    BY Division
<1>2. j = step * (j \div step) + (j % step) /\ j \div step \in Nat
    BY Division
<1> DEFINE a == i \div step
           b == j \div step
<1>3. i = step * a /\ a \in Nat /\ j = step * b /\ b \in Nat
    BY <1>1, <1>2
<1> HIDE DEF a, b
<1>4. a < n
    <2> SUFFICES ASSUME n <= a
                 PROVE  FALSE
        BY <1>3
    <2>1. step * n <= step * a
        BY <1>3
    <2>2. step * n \in Nat /\ step * a \in Nat
        BY <1>3
    <2> QED
        BY <1>3, <2>1, <2>2
<1> QED
    BY <1>3, <1>4 DEF a, b

LEMMA TicksFew ==
    ASSUME NEW total \in Nat \ {0}
    PROVE  {0, total - 1} \subseteq TickPositions(total) /\ Cardinality(TickPositions(total)) <= MaxLabels + 1
<1> DEFINE step == (total + MaxLabels - 1) \div MaxLabels
           every == {i \in 0 .. total - 1 : i % step = 0}
<1>1. MaxLabels \in Nat \ {0}
    BY WatchAssumption
<1>2. CASE total <= MaxLabels
    <2>1. TickPositions(total) = 0 .. total - 1
        BY <1>2 DEF TickPositions
    <2>2. Cardinality(0 .. total - 1) = total
        BY FS_Interval
    <2> QED
        BY <1>1, <1>2, <2>1, <2>2
<1>3. CASE ~ (total <= MaxLabels)
    <2>1. TickPositions(total) = every \union {total - 1}
        BY <1>3 DEF TickPositions
    <2>2. step \in Nat \ {0} /\ total <= step * MaxLabels
        <3> DEFINE a == total + MaxLabels - 1
                   q == a \div MaxLabels
                   r == a % MaxLabels
        <3>1. a \in Nat /\ a = MaxLabels * q + r /\ q \in Nat /\ r \in 0 .. MaxLabels - 1
            BY <1>1, Division
        <3> HIDE DEF q, r
        <3>2. q # 0
            BY <1>1, <1>3, <3>1
        <3>3. MaxLabels * q = q * MaxLabels /\ q * MaxLabels \in Nat
            BY <1>1, <3>1
        <3>4. total <= q * MaxLabels
            BY <1>1, <3>1, <3>3
        <3> QED
            BY <3>1, <3>2, <3>4 DEF q
    <2> HIDE DEF step
    <2> DEFINE quotient == [i \in every |-> i \div step]
    <2>3. quotient \in Injection(every, 0 .. MaxLabels - 1)
        <3>1. \A i \in every : i \in Nat /\ i < step * MaxLabels /\ i % step = 0
            <4>1. step * MaxLabels \in Nat
                BY <1>1, <2>2
            <4> QED
                BY <2>2, <4>1
        <3>2. \A i \in every : quotient[i] \in 0 .. MaxLabels - 1
            BY <1>1, <2>2, <3>1, MultiplesFew
        <3>3. \A i, j \in every : quotient[i] = quotient[j] => i = j
            BY <1>1, <2>2, <3>1, MultiplesFew
        <3> HIDE DEF every
        <3> QED
            BY <3>2, <3>3 DEF Injection, IsInjective
    <2>4. IsFiniteSet(0 .. MaxLabels - 1) /\ Cardinality(0 .. MaxLabels - 1) = MaxLabels
        BY <1>1, FS_Interval
    <2>5. IsFiniteSet(every) /\ Cardinality(every) <= MaxLabels
        <3> HIDE DEF every, quotient
        <3> QED
            BY <2>3, <2>4, FS_Injection
    <2>6. 0 \in every
        BY <2>2
    <2> HIDE DEF every
    <2>7. Cardinality(every \union {total - 1}) <= MaxLabels + 1
        <3>1. /\ Cardinality(every) \in Nat
              /\ Cardinality(every \union {total - 1}) = IF total - 1 \in every THEN Cardinality(every) ELSE Cardinality(every) + 1
            BY <2>5, FS_AddElement, FS_CardinalityType
        <3> DEFINE w == Cardinality(every \union {total - 1})
                   c == Cardinality(every)
        <3>2. c \in Nat /\ c <= MaxLabels /\ (w = c \/ w = c + 1)
            BY <2>5, <3>1
        <3> HIDE DEF w, c
        <3>3. w <= MaxLabels + 1
            BY <1>1, <3>2
        <3> QED
            BY <3>3 DEF w
    <2> QED
        BY <2>1, <2>6, <2>7
<1> QED
    BY <1>2, <1>3

\* What a sailor did within the window, in the time of the zone.
Windowed(times, days, offset) ==
    {Local(t, offset) : t \in {u \in times : WatchNow - days * Day <= u /\ u <= WatchNow}}

\* What sailed within a window: finitely many, each in a week, weekday and hour of it.
LEMMA WindowsAre ==
    ASSUME NEW times \in SUBSET WatchTimes, IsFiniteSet(times), NEW days \in WatchDays, NEW offset \in Offsets
    PROVE  LET sailed == Windowed(times, days, offset)
               weeks == WeekRange(WatchNow - days * Day, WatchNow, offset)
           IN  /\ IsFiniteSet(sailed) /\ sailed \in SUBSET Int
               /\ IsFiniteSet(weeks)
               /\ \A t \in sailed : StartOfWeek(t) \in weeks /\ Weekday(DayOf(t)) \in 0 .. 6 /\ HourOf(t) \in 0 .. 23
<1> DEFINE start == WatchNow - days * Day
           some == {u \in times : start <= u /\ u <= WatchNow}
           sailed == Windowed(times, days, offset)
           weeks == WeekRange(start, WatchNow, offset)
           value == [u \in some |-> Local(u, offset)]
<1>1. WatchNow \in Int /\ times \in SUBSET Int /\ days \in Int /\ offset \in Int
    BY WatchAssumption
<1>2. Day = 1440 /\ Hour = 60
    BY Units
<1>3. start \in Int
    BY <1>1, <1>2
<1>4. sailed = {value[u] : u \in some} /\ value = [u \in some |-> value[u]]
    BY DEF Windowed
<1>5. IsFiniteSet(some)
    BY FS_Subset
<1>6. \A u \in some : u \in Int /\ value[u] = u + offset /\ start + offset <= value[u] /\ value[u] <= WatchNow + offset
    BY <1>1, <1>3 DEF Local
<1>7. weeks = GenerateBuckets(start + offset, WatchNow + offset, "week")
    BY DEF WeekRange, Local
<1> HIDE DEF start, some, value, weeks, sailed
<1>8. IsFiniteSet(sailed)
    BY <1>4, <1>5, ImageFinite
<1>9. \A t \in sailed : t \in Int /\ start + offset <= t /\ t <= WatchNow + offset
    BY <1>1, <1>4, <1>6
<1> DEFINE from == start + offset
           to == WatchNow + offset
<1>10. "week" \in Buckets /\ from \in Int /\ to \in Int
    BY <1>1, <1>3 DEF Buckets
<1>11. \A t \in sailed : t \in Int /\ from <= t /\ t <= to
    BY <1>9
<1>12. weeks = GenerateBuckets(from, to, "week")
    BY <1>7
<1> HIDE DEF from, to
<1>13. IsFiniteSet(weeks) /\ weeks = {b \in Starts("week") : BucketStart(from, "week") <= b /\ b <= BucketStart(to, "week")}
    BY <1>10, <1>12, BucketsGenerated
<1>14. ASSUME NEW t \in sailed
       PROVE  StartOfWeek(t) \in weeks /\ Weekday(DayOf(t)) \in 0 .. 6 /\ HourOf(t) \in 0 .. 23
    <2>1. /\ BucketStart(t, "week") \in Starts("week")
          /\ BucketStart(from, "week") <= BucketStart(t, "week")
          /\ BucketStart(t, "week") <= BucketStart(to, "week")
        BY <1>10, <1>11, BucketsInOrder
    <2>2. StartOfWeek(t) \in weeks
        BY <1>13, <2>1 DEF StartOfWeek
    <2>3. t \in Int
        BY <1>11
    <2>4. HourOf(t) \in 0 .. 23
        BY <1>2, <2>3 DEF HourOf
    <2>5. Weekday(DayOf(t)) \in 0 .. 6
        BY <1>2, <2>3 DEF Weekday, DayOf
    <2> QED
        BY <2>2, <2>4, <2>5
<1>15. sailed \in SUBSET Int
    BY <1>9
<1> QED
    BY <1>8, <1>13, <1>14, <1>15 DEF sailed, weeks, start

\* If something has a place among finitely many, some of them are active.
LEMMA SomeActive ==
    ASSUME NEW X, IsFiniteSet(X), NEW values, IsFiniteSet(values), NEW place, place = [x \in X |-> place[x]],
           \A x \in X : place[x] \in values
    PROVE  LET active == Cardinality({v \in values : CountAt(place, values)[v] > 0})
           IN  /\ active \in Nat /\ Cardinality(values) \in Nat /\ active <= Cardinality(values)
               /\ Cardinality(X) > 0 => active > 0
<1> DEFINE A == {v \in values : CountAt(place, values)[v] > 0}
<1>1. IsFiniteSet(A) /\ Cardinality(A) <= Cardinality(values)
    BY FS_Subset
<1>2. Cardinality(A) \in Nat /\ Cardinality(values) \in Nat
    BY <1>1, FS_CardinalityType
<1>3. ASSUME Cardinality(X) > 0
      PROVE  Cardinality(A) > 0
    <2>1. X # {}
        BY <1>3, FS_EmptySet
    <2>2. PICK x \in X : TRUE
        BY <2>1
    <2>3. place[x] \in A
        BY <2>2, CountsAre
    <2> HIDE DEF A
    <2>4. Cardinality(A) # 0
        BY <1>1, <2>3, FS_EmptySet
    <2> QED
        BY <1>2, <2>4
<1> QED
    BY <1>1, <1>2, <1>3

LEMMA ReportOfWatch ==
    ASSUME NEW days \in WatchDays, NEW offset \in Offsets, Analyze(days, offset).outcome = "report"
    PROVE  LET sailed == Windowed(attended, days, offset)
               led == Windowed(hosted, days, offset)
               weeks == WeekRange(WatchNow - days * Day, WatchNow, offset)
               weekly == CountAt([t \in sailed |-> StartOfWeek(t)], weeks)
               weeklyHosted == CountAt([t \in led |-> StartOfWeek(t)], weeks)
               hourly == CountAt([t \in sailed |-> HourOf(t)], 0 .. 23)
               report == Analyze(days, offset)
           IN  /\ ~ (Cardinality(sailed) < MinVoyages) /\ ~ (Cardinality({w \in weeks : weekly[w] > 0}) < MinWeeks)
               /\ report.total_voyages = Cardinality(sailed) /\ report.total_hosted = Cardinality(led)
               /\ report.active_weeks = Cardinality({w \in weeks : weekly[w] > 0})
               /\ report.active_hosted_weeks = Cardinality({w \in weeks : weeklyHosted[w] > 0})
               /\ report.total_weeks = Cardinality(weeks) /\ report.weekly = weekly
               /\ report.weekly_hosted = weeklyHosted
               /\ report.weekday = CountAt([t \in sailed |-> Weekday(DayOf(t))], 0 .. 6)
               /\ report.hourly = hourly /\ report.busiest = MostActive(hourly)
               /\ report.ticks = TickPositions(Cardinality(weeks))
<1> DEFINE sailed == Windowed(attended, days, offset)
           led == Windowed(hosted, days, offset)
           weeks == WeekRange(WatchNow - days * Day, WatchNow, offset)
           weekly == CountAt([t \in sailed |-> StartOfWeek(t)], weeks)
           weeklyHosted == CountAt([t \in led |-> StartOfWeek(t)], weeks)
           hourly == CountAt([t \in sailed |-> HourOf(t)], 0 .. 23)
           whole == [outcome |-> "report", total_voyages |-> Cardinality(sailed), total_hosted |-> Cardinality(led),
                     active_weeks |-> Cardinality({w \in weeks : weekly[w] > 0}),
                     active_hosted_weeks |-> Cardinality({w \in weeks : weeklyHosted[w] > 0}),
                     total_weeks |-> Cardinality(weeks), weekly |-> weekly, weekly_hosted |-> weeklyHosted,
                     weekday |-> CountAt([t \in sailed |-> Weekday(DayOf(t))], 0 .. 6), hourly |-> hourly,
                     busiest |-> MostActive(hourly),
                     ticks |-> TickPositions(Cardinality(weeks))]
           few == Cardinality(sailed) < MinVoyages \/ Cardinality({w \in weeks : weekly[w] > 0}) < MinWeeks
<1>1. Analyze(days, offset) = IF ~ValidDays(days) THEN [outcome |-> "invalid"]
                              ELSE IF few THEN [outcome |-> "insufficient"] ELSE whole
    BY DEF Analyze, Windowed
<1>2. Analyze(days, offset) = whole /\ ~few
    <2> HIDE DEF whole, few
    <2>1. [outcome |-> "invalid"].outcome # "report" /\ [outcome |-> "insufficient"].outcome # "report"
        OBVIOUS
    <2> QED
        BY <1>1, <2>1
<1> HIDE DEF sailed, led, weeks, weekly, weeklyHosted, hourly
<1> QED
    BY <1>2 DEF sailed, led, weeks, weekly, weeklyHosted, hourly

\* The watch's hours, days and weeks add up to the voyages of its window.
LEMMA WeeksDoAddUp == WatchInv => WeeksAddUp
<1> SUFFICES ASSUME WatchInv, NEW days \in WatchDays, NEW offset \in Offsets, Analyze(days, offset).outcome = "report"
             PROVE  LET report == Analyze(days, offset)
                    IN  /\ SumFunction(report.weekly) = report.total_voyages
                        /\ SumFunction(report.weekly_hosted) = report.total_hosted
                        /\ SumFunction(report.weekday) = report.total_voyages
                        /\ SumFunction(report.hourly) = report.total_voyages
                        /\ report.total_hosted > 0 => report.active_hosted_weeks > 0
                        /\ report.active_weeks <= report.total_weeks
                        /\ report.hourly[report.busiest] > 0
                        /\ {0, report.total_weeks - 1} \subseteq report.ticks
                        /\ Cardinality(report.ticks) <= MaxLabels + 1
    BY DEF WeeksAddUp
<1> DEFINE sailed == Windowed(attended, days, offset)
           led == Windowed(hosted, days, offset)
           weeks == WeekRange(WatchNow - days * Day, WatchNow, offset)
           weekOf == [t \in sailed |-> StartOfWeek(t)]
           weekLed == [t \in led |-> StartOfWeek(t)]
           dayOf == [t \in sailed |-> Weekday(DayOf(t))]
           hourOf == [t \in sailed |-> HourOf(t)]
           weekly == CountAt(weekOf, weeks)
           weeklyHosted == CountAt(weekLed, weeks)
           weekday == CountAt(dayOf, 0 .. 6)
           hourly == CountAt(hourOf, 0 .. 23)
           active == Cardinality({w \in weeks : weekly[w] > 0})
           activeHosted == Cardinality({w \in weeks : weeklyHosted[w] > 0})
           report == Analyze(days, offset)
<1>1. /\ ~ (Cardinality(sailed) < MinVoyages) /\ ~ (active < MinWeeks)
      /\ report.total_voyages = Cardinality(sailed) /\ report.total_hosted = Cardinality(led)
      /\ report.active_weeks = active /\ report.active_hosted_weeks = activeHosted
      /\ report.total_weeks = Cardinality(weeks) /\ report.weekly = weekly
      /\ report.weekly_hosted = weeklyHosted /\ report.weekday = weekday
      /\ report.hourly = hourly /\ report.busiest = MostActive(hourly)
      /\ report.ticks = TickPositions(Cardinality(weeks))
    BY ReportOfWatch
<1> HIDE DEF report
<1>2. /\ IsFiniteSet(sailed) /\ IsFiniteSet(weeks) /\ IsFiniteSet(led)
      /\ \A t \in sailed : StartOfWeek(t) \in weeks /\ Weekday(DayOf(t)) \in 0 .. 6 /\ HourOf(t) \in 0 .. 23
      /\ \A t \in led : StartOfWeek(t) \in weeks
    <2>1. attended \in SUBSET WatchTimes /\ IsFiniteSet(attended) /\ hosted \in SUBSET WatchTimes /\ IsFiniteSet(hosted)
        BY DEF WatchInv, WatchTypeOK
    <2> QED
        BY <2>1, WindowsAre
<1> HIDE DEF sailed, led, weeks
<1>3. /\ weekOf = [t \in sailed |-> weekOf[t]] /\ weekLed = [t \in led |-> weekLed[t]]
      /\ dayOf = [t \in sailed |-> dayOf[t]] /\ hourOf = [t \in sailed |-> hourOf[t]]
      /\ \A t \in sailed : weekOf[t] \in weeks /\ dayOf[t] \in 0 .. 6 /\ hourOf[t] \in 0 .. 23
      /\ \A t \in led : weekLed[t] \in weeks
    BY <1>2
<1> HIDE DEF weekOf, weekLed, dayOf, hourOf
<1>4. IsFiniteSet(0 .. 6) /\ IsFiniteSet(0 .. 23)
    <2>1. \A n \in Nat : IsFiniteSet(0 .. n)
        BY FS_Interval
    <2> QED
        BY <2>1
<1>5. /\ SumFunction(weekly) = Cardinality(sailed) /\ SumFunction(weeklyHosted) = Cardinality(led)
      /\ SumFunction(weekday) = Cardinality(sailed) /\ SumFunction(hourly) = Cardinality(sailed)
    BY <1>2, <1>3, <1>4, AllCounted
<1>6. /\ active \in Nat /\ Cardinality(weeks) \in Nat /\ active <= Cardinality(weeks)
      /\ Cardinality(led) > 0 => activeHosted > 0
    BY <1>2, <1>3, SomeActive
<1>7. MinVoyages \in Nat \ {0} /\ MinWeeks \in Nat \ {0}
    BY WatchAssumption
<1>8. hourly[MostActive(hourly)] > 0
    <2>1. Cardinality(sailed) # 0
        BY <1>1, <1>7
    <2>2. PICK t \in sailed : TRUE
        BY <1>2, <2>1, FS_EmptySet
    <2>3. DOMAIN hourly = 0 .. 23 /\ (\A v \in 0 .. 23 : hourly[v] \in Nat) /\ hourly[hourOf[t]] > 0
        BY <1>2, <1>3, CountsAre
    <2>4. hourOf[t] \in 0 .. 23
        BY <1>3
    <2> DEFINE h == hourOf[t]
               top == MostActive(hourly)
    <2>5. DOMAIN hourly \subseteq Int /\ IsFiniteSet(DOMAIN hourly) /\ DOMAIN hourly # {}
          /\ \A v \in DOMAIN hourly : hourly[v] \in Nat
        BY <1>4, <2>3
    <2> HIDE DEF h, hourly
    <2>6. top \in DOMAIN hourly /\ \A w \in DOMAIN hourly : hourly[w] <= hourly[top]
        BY <2>5, MostActiveIs
    <2>7. hourly[h] > 0 /\ h \in DOMAIN hourly
        BY <2>3, <2>4 DEF h
    <2> QED
        BY <2>5, <2>6, <2>7
<1>9. Cardinality(weeks) \in Nat \ {0}
    <2> HIDE DEF active
    <2> QED
        BY <1>1, <1>6, <1>7
<1>10. /\ {0, Cardinality(weeks) - 1} \subseteq TickPositions(Cardinality(weeks))
       /\ Cardinality(TickPositions(Cardinality(weeks))) <= MaxLabels + 1
    BY <1>9, TicksFew
<1> HIDE DEF weekly, weeklyHosted, weekday, hourly, active, activeHosted
<1>11. /\ SumFunction(report.weekly) = report.total_voyages
       /\ SumFunction(report.weekly_hosted) = report.total_hosted
       /\ SumFunction(report.weekday) = report.total_voyages
       /\ SumFunction(report.hourly) = report.total_voyages
    BY <1>1, <1>5
<1>12. /\ report.total_hosted > 0 => report.active_hosted_weeks > 0
       /\ report.active_weeks <= report.total_weeks
       /\ report.hourly[report.busiest] > 0
    BY <1>1, <1>6, <1>8
<1>13. {0, report.total_weeks - 1} \subseteq report.ticks /\ Cardinality(report.ticks) <= MaxLabels + 1
    BY <1>1, <1>10
<1> QED
    BY <1>11, <1>12, <1>13 DEF report

-----------------------------------------------------------------------------
(*****************************************************************************)
(* Streaks (Streaks): one pass over the days finds the runs.                 *)
(*****************************************************************************)
\* A run: days in a row, with neither the day before nor the day after.
IsRun(D, a, b) == a \in Int /\ b \in Int /\ a <= b /\ a .. b \subseteq D /\ a - 1 \notin D /\ b + 1 \notin D

LEMMA RunsApart ==
    ASSUME NEW D \in SUBSET Int, NEW a, NEW b, NEW c, NEW d, IsRun(D, a, b), IsRun(D, c, d), c \in a .. b \/ d \in a .. b
    PROVE  a = c /\ b = d
<1>1. a \in Int /\ b \in Int /\ c \in Int /\ d \in Int /\ a <= b /\ c <= d
    BY DEF IsRun
<1>2. a - 1 \notin D /\ b + 1 \notin D /\ c - 1 \notin D /\ d + 1 \notin D
    BY DEF IsRun
<1>3. (\A x \in Int : a <= x /\ x <= b => x \in D) /\ \A x \in Int : c <= x /\ x <= d => x \in D
    BY DEF IsRun
<1>4. ~ (a < c /\ c <= b) /\ ~ (a <= d /\ d < b) /\ ~ (c < a /\ a <= d) /\ ~ (c <= b /\ b < d)
    <2>1. ASSUME a < c /\ c <= b PROVE FALSE
        <3>1. c - 1 \in Int /\ a <= c - 1 /\ c - 1 <= b
            BY <1>1, <2>1
        <3> QED
            BY <1>2, <1>3, <3>1
    <2>2. ASSUME a <= d /\ d < b PROVE FALSE
        <3>1. d + 1 \in Int /\ a <= d + 1 /\ d + 1 <= b
            BY <1>1, <2>2
        <3> QED
            BY <1>2, <1>3, <3>1
    <2>3. ASSUME c < a /\ a <= d PROVE FALSE
        <3>1. a - 1 \in Int /\ c <= a - 1 /\ a - 1 <= d
            BY <1>1, <2>3
        <3> QED
            BY <1>2, <1>3, <3>1
    <2>4. ASSUME c <= b /\ b < d PROVE FALSE
        <3>1. b + 1 \in Int /\ c <= b + 1 /\ b + 1 <= d
            BY <1>1, <2>4
        <3> QED
            BY <1>2, <1>3, <3>1
    <2> QED
        BY <2>1, <2>2, <2>3, <2>4
<1> QED
    BY <1>1, <1>4

-----------------------------------------------------------------------------
\* The days in descending order: each at its rank, and every day has one.
Lists(list, D) ==
    /\ list \in Seq(D) /\ Len(list) = Cardinality(D)
    /\ \A i, j \in 1 .. Len(list) : i < j => list[j] < list[i]
    /\ \A d \in D : \E i \in 1 .. Len(list) : list[i] = d

\* The list of days is every day once, the latest first.
LEMMA DescendingLists ==
    ASSUME NEW D \in SUBSET Int, IsFiniteSet(D)
    PROVE  Lists(Descending(D), D)
<1> DEFINE N == Cardinality(D)
           Later(d) == {e \in D : e > d}
           rank == [d \in D |-> Cardinality(Later(d))]
           list == Descending(D)
<1>1. N \in Nat
    BY FS_CardinalityType
<1>2. \A d \in D : IsFiniteSet(Later(d)) /\ Cardinality(Later(d)) \in Nat
    <2> TAKE d \in D
    <2>1. IsFiniteSet(Later(d))
        BY FS_Subset
    <2> QED
        BY <2>1, FS_CardinalityType
<1>3. \A d, e \in D : d < e => rank[e] < rank[d]
    <2> SUFFICES ASSUME NEW d \in D, NEW e \in D, d < e
                 PROVE  rank[e] < rank[d]
        OBVIOUS
    <2>1. Later(e) \in SUBSET Later(d) /\ e \in Later(d) /\ e \notin Later(e)
        <3>1. \A x \in D : x \in Int
            OBVIOUS
        <3>2. \A x \in D : x > e => x > d
            BY <3>1
        <3>3. e > d /\ ~ (e > e)
            BY <3>1
        <3>4. Later(e) \subseteq Later(d)
            BY <3>2
        <3> QED
            BY <3>3, <3>4
    <2> HIDE DEF Later
    <2>2. Cardinality(Later(e)) <= Cardinality(Later(d)) /\ Cardinality(Later(e)) # Cardinality(Later(d))
        BY <1>2, <2>1, FS_Subset
    <2> QED
        BY <1>2, <2>2
<1>4. \A d \in D : rank[d] \in 0 .. N - 1
    <2> TAKE d \in D
    <2>1. Later(d) \in SUBSET D /\ d \notin Later(d)
        OBVIOUS
    <2>2. Cardinality(Later(d)) <= N /\ Cardinality(Later(d)) # N
        <3> HIDE DEF Later
        <3> QED
            BY <2>1, FS_Subset
    <2> QED
        BY <1>1, <1>2, <2>2
<1>5. \A d, e \in D : rank[d] = rank[e] => d = e
    <2> TAKE d, e \in D
    <2>1. rank[d] \in Int /\ rank[e] \in Int /\ d \in Int /\ e \in Int
        BY <1>4
    <2> HIDE DEF rank
    <2> QED
        BY <1>3, <2>1
<1>6. \A k \in 0 .. N - 1 : \E d \in D : rank[d] = k
    <2>1. rank \in Injection(D, 0 .. N - 1)
        BY <1>4, <1>5 DEF Injection, IsInjective
    <2>2. IsFiniteSet(0 .. N - 1) /\ Cardinality(0 .. N - 1) = N
        BY <1>1, FS_Interval
    <2> HIDE DEF rank
    <2>3. rank \in Surjection(D, 0 .. N - 1)
        BY <2>1, <2>2, FS_Injection
    <2> QED
        BY <2>3 DEF Surjection
<1>7. \A i \in 1 .. N : list[i] \in D /\ rank[list[i]] = i - 1
    <2> SUFFICES ASSUME NEW i \in 1 .. N
                 PROVE  list[i] \in D /\ rank[list[i]] = i - 1
        OBVIOUS
    <2>1. list[i] = CHOOSE d \in D : Cardinality(Later(d)) = i - 1
        BY DEF Descending
    <2>2. \E d \in D : Cardinality(Later(d)) = i - 1
        <3>1. i - 1 \in 0 .. N - 1
            BY <1>1
        <3> QED
            BY <1>6, <3>1
    <2> HIDE DEF list, Later
    <2>3. list[i] \in D /\ Cardinality(Later(list[i])) = i - 1
        BY <2>1, <2>2
    <2> QED
        BY <2>3
<1>8. list \in Seq(D) /\ Len(list) = N
    <2> DEFINE At(i) == CHOOSE d \in D : Cardinality({e \in D : e > d}) = i - 1
    <2>1. list = [i \in 1 .. N |-> At(i)]
        BY DEF Descending
    <2> HIDE DEF list, N, At
    <2>2. list \in [1 .. N -> D]
        BY <1>7, <2>1
    <2> QED
        BY <1>1, <2>2
<1> HIDE DEF rank, list
<1>9. \A i, j \in 1 .. N : i < j => list[j] < list[i]
    <2> SUFFICES ASSUME NEW i \in 1 .. N, NEW j \in 1 .. N, i < j
                 PROVE  list[j] < list[i]
        OBVIOUS
    <2>1. list[i] \in D /\ list[j] \in D /\ rank[list[i]] = i - 1 /\ rank[list[j]] = j - 1
        BY <1>7
    <2>2. i \in Int /\ j \in Int
        BY <1>1
    <2> DEFINE d == list[i]
               e == list[j]
    <2> HIDE DEF d, e, N
    <2>3. d \in D /\ e \in D /\ rank[d] = i - 1 /\ rank[e] = j - 1
        BY <2>1 DEF d, e
    <2>4. d # e /\ ~ (d < e)
        <3>1. d < e => rank[e] < rank[d]
            BY <1>3, <2>3
        <3> QED
            BY <2>2, <2>3, <3>1
    <2>5. d \in Int /\ e \in Int
        BY <2>3
    <2>6. e < d
        BY <2>4, <2>5
    <2> QED
        BY <2>6 DEF d, e
<1>10. \A d \in D : \E i \in 1 .. N : list[i] = d
    <2> SUFFICES ASSUME NEW d \in D
                 PROVE  \E i \in 1 .. N : list[i] = d
        OBVIOUS
    <2>1. rank[d] + 1 \in 1 .. N /\ rank[d] \in Int
        BY <1>1, <1>4
    <2>2. list[rank[d] + 1] \in D /\ rank[list[rank[d] + 1]] = rank[d]
        BY <1>7, <2>1
    <2> QED
        BY <1>5, <2>1, <2>2
<1> QED
    BY <1>8, <1>9, <1>10 DEF Lists, list

\* The last of the list is the first of the days, and nothing is between two neighbours.
LEMMA Neighbours ==
    ASSUME NEW D \in SUBSET Int, NEW list, Lists(list, D), NEW i \in 1 .. Len(list)
    PROVE  /\ list[i] \in D /\ list[1] \in D /\ \A d \in D : d <= list[1]
           /\ i < Len(list) => list[i + 1] \in D /\ list[i + 1] < list[i] /\ \A d \in D : list[i + 1] < d => list[i] <= d
           /\ i = Len(list) => \A d \in D : list[i] <= d
<1>1. Len(list) \in Nat /\ \A k \in 1 .. Len(list) : list[k] \in D /\ list[k] \in Int
    <2>1. list \in Seq(D)
        BY DEF Lists
    <2>2. Len(list) \in Nat /\ \A k \in 1 .. Len(list) : list[k] \in D
        BY <2>1
    <2> QED
        BY <2>2
<1>2. 1 \in 1 .. Len(list)
    BY <1>1
<1>3. \A j, k \in 1 .. Len(list) : j <= k => list[k] <= list[j]
    BY <1>1 DEF Lists
<1>4. ASSUME NEW d \in D
      PROVE  /\ d <= list[1] /\ (i = Len(list) => list[i] <= d)
             /\ i < Len(list) /\ list[i + 1] < d => list[i] <= d
    <2>1. PICK k \in 1 .. Len(list) : list[k] = d
        BY DEF Lists
    <2>2. d <= list[1]
        BY <1>1, <1>2, <1>3, <2>1
    <2>3. i = Len(list) => list[i] <= d
        BY <1>1, <1>3, <2>1
    <2>4. ASSUME i < Len(list), list[i + 1] < d
          PROVE  list[i] <= d
        <3>1. i + 1 \in 1 .. Len(list)
            BY <1>1, <2>4
        <3>2. ~ (i + 1 <= k)
            <4> SUFFICES ASSUME i + 1 <= k
                         PROVE  FALSE
                OBVIOUS
            <4>1. list[k] <= list[i + 1] /\ list[i + 1] \in Int /\ list[k] \in Int
                BY <1>1, <1>3, <3>1
            <4> QED
                BY <2>1, <2>4, <4>1
        <3>3. k <= i
            BY <1>1, <3>2
        <3> QED
            BY <1>3, <2>1, <3>3
    <2> QED
        BY <2>2, <2>3, <2>4
<1>5. ASSUME i < Len(list)
      PROVE  list[i + 1] \in D /\ list[i + 1] < list[i]
    <2>1. i + 1 \in 1 .. Len(list) /\ i < i + 1
        BY <1>1, <1>5
    <2> QED
        BY <1>1, <2>1 DEF Lists
<1> QED
    BY <1>1, <1>2, <1>4, <1>5

-----------------------------------------------------------------------------
(***************************************************************************)
(* The pass over the days.  What it knows after i of them: the run it is   *)
(* in, the best of those it has left, and how long the first one was.      *)
(***************************************************************************)
Recent(list) == list[1] >= Today - 1
BestOf(s, last) ==
    IF s.run >= s.best.length THEN [length |-> s.run, start |-> last, end |-> s.from] ELSE s.best
StepOf(list, s, i) ==
    IF list[i] = list[i - 1] - 1
    THEN [s EXCEPT !.run = @ + 1,
                   !.current = IF Recent(list) /\ s.current = i - 1 THEN @ + 1 ELSE @]
    ELSE [s EXCEPT !.best = BestOf(s, list[i - 1]), !.run = 1, !.from = list[i]]
FromOf(list) ==
    [current |-> IF Recent(list) THEN 1 ELSE 0, run |-> 1, from |-> list[1],
     best |-> [length |-> 1, start |-> list[1], end |-> list[1]]]
ReportOf(list, s) ==
    [current |-> s.current, longest |-> BestOf(s, list[Len(list)]).length,
     start |-> BestOf(s, list[Len(list)]).start, end |-> BestOf(s, list[Len(list)]).end,
     expiry |-> IF Recent(list) THEN list[1] + 2 ELSE NoDay]
PassesTo(f, list, n) == f = [i \in 1 .. n |-> IF i = 1 THEN FromOf(list) ELSE StepOf(list, f[i - 1], i)]

\* The pass over the list is the sequence its recursion describes.
LEMMA PassExists ==
    ASSUME NEW list, NEW n \in Nat
    PROVE  \E f : PassesTo(f, list, n)
<1> DEFINE T == {k \in Nat : \E f : PassesTo(f, list, k)}
<1>1. 0 \in T
    <2> DEFINE f == [i \in 1 .. 0 |-> FromOf(list)]
    <2>1. PassesTo(f, list, 0)
        BY DEF PassesTo
    <2> HIDE DEF f
    <2> QED
        BY <2>1
<1>2. ASSUME NEW k \in T
      PROVE  k + 1 \in T
    <2>1. PICK f : PassesTo(f, list, k)
        OBVIOUS
    <2>2. k \in Nat /\ k + 1 \in Nat
        OBVIOUS
    <2> DEFINE g == [i \in 1 .. k + 1 |-> IF i = 1 THEN FromOf(list) ELSE StepOf(list, f[i - 1], i)]
    <2>3. \A i \in 1 .. k : g[i] = f[i]
        BY <2>1, <2>2 DEF PassesTo
    <2>4. \A i \in 1 .. k + 1 : i # 1 => g[i - 1] = f[i - 1]
        <3> TAKE i \in 1 .. k + 1
        <3> HAVE i # 1
        <3>1. i - 1 \in 1 .. k
            BY <2>2
        <3> HIDE DEF g
        <3> QED
            BY <2>3, <3>1
    <2>5. PassesTo(g, list, k + 1)
        <3> DEFINE h == [i \in 1 .. k + 1 |-> IF i = 1 THEN FromOf(list) ELSE StepOf(list, g[i - 1], i)]
        <3>1. \A i \in 1 .. k + 1 : g[i] = h[i]
            <4> TAKE i \in 1 .. k + 1
            <4>1. g[i] = IF i = 1 THEN FromOf(list) ELSE StepOf(list, f[i - 1], i)
                OBVIOUS
            <4>2. h[i] = IF i = 1 THEN FromOf(list) ELSE StepOf(list, g[i - 1], i)
                OBVIOUS
            <4> HIDE DEF g, h
            <4> QED
                BY <2>4, <4>1, <4>2
        <3>2. g = [i \in 1 .. k + 1 |-> g[i]] /\ h = [i \in 1 .. k + 1 |-> h[i]]
            OBVIOUS
        <3>3. g = h
            <4> HIDE DEF g, h
            <4> QED
                BY <3>1, <3>2
        <3> QED
            BY <3>3 DEF PassesTo
    <2> HIDE DEF g
    <2> QED
        BY <2>2, <2>5
<1>3. T = Nat
    <2>1. T \in SUBSET Nat
        OBVIOUS
    <2> HIDE DEF T
    <2> QED
        BY <1>1, <1>2, <2>1, AllNaturals
<1> QED
    BY <1>3

LEMMA PassReports ==
    ASSUME NEW list \in Seq(Int), list # <<>>
    PROVE  \E f : PassesTo(f, list, Len(list)) /\ ComputeStreaks(list) = ReportOf(list, f[Len(list)])
<1> DEFINE n == Len(list)
           p == CHOOSE f : PassesTo(f, list, n)
<1>1. n \in Nat /\ DOMAIN list = 1 .. n
    OBVIOUS
<1>2. PassesTo(p, list, n)
    <2>1. \E f : PassesTo(f, list, n)
        BY <1>1, PassExists
    <2> QED
        BY <2>1, Zenon
<1>3. ComputeStreaks(list) =
          LET passed == CHOOSE f : f = [i \in DOMAIN list |-> IF i = 1 THEN FromOf(list) ELSE StepOf(list, f[i - 1], i)]
          IN  ReportOf(list, passed[n])
    BY DEF ComputeStreaks, FromOf, StepOf, BestOf, ReportOf, Recent
<1>4. p = CHOOSE f : f = [i \in DOMAIN list |-> IF i = 1 THEN FromOf(list) ELSE StepOf(list, f[i - 1], i)]
    BY <1>1 DEF PassesTo
<1> HIDE DEF p, n
<1>5. ComputeStreaks(list) = ReportOf(list, p[n])
    BY <1>3, <1>4
<1> QED
    BY <1>2, <1>5 DEF n

BestAbove(D, best, below) ==
    /\ below < best.start /\ IsRun(D, best.start, best.end) /\ best.length = best.end - best.start + 1
    /\ \A a, b \in Int : IsRun(D, a, b) /\ below < a =>
           b - a + 1 <= best.length /\ (a < best.start => b - a + 1 < best.length)

PassState == [current : Nat, run : Nat, from : Int, best : [length : Nat, start : Int, end : Int]]

Passed(D, list, s, i) ==
    /\ s \in PassState /\ 1 <= s.run /\ s.run <= i
    /\ s.from \in D /\ s.from = list[i] + s.run - 1 /\ list[i] .. s.from \subseteq D /\ s.from + 1 \notin D
    /\ s.from = list[1] => s.best.length = 1 /\ s.run = i
    /\ s.from # list[1] => BestAbove(D, s.best, s.from)
    /\ Recent(list) /\ s.from = list[1] => s.current = i
    /\ Recent(list) /\ s.from # list[1] =>
           1 <= s.current /\ s.current < i /\ IsRun(D, list[1] - s.current + 1, list[1])
    /\ ~Recent(list) => s.current = 0

\* Where a run ends, the best so far is chosen between it and those before.
LEMMA BestCloses ==
    ASSUME NEW D \in SUBSET Int, NEW list, Lists(list, D), NEW i \in 1 .. Len(list), NEW s, Passed(D, list, s, i),
           list[i] - 1 \notin D, NEW below \in Int, below < list[i], \A d \in D : below < d => list[i] <= d
    PROVE  /\ BestAbove(D, BestOf(s, list[i]), below) /\ BestOf(s, list[i]) \in [length : Nat, start : Int, end : Int]
           /\ IsRun(D, list[i], s.from) /\ BestOf(s, list[i]).length >= 1
<1> DEFINE last == list[i]
           best == BestOf(s, list[i])
<1>1. last \in D /\ last \in Int /\ list[1] \in Int /\ \A d \in D : d <= list[1]
    BY Neighbours
<1>2. /\ s.run \in Nat /\ 1 <= s.run /\ s.from \in D /\ s.from \in Int /\ s.from = last + s.run - 1
      /\ s.best \in [length : Nat, start : Int, end : Int]
      /\ s.from + 1 \notin D /\ last .. s.from \subseteq D
    BY DEF Passed, PassState
<1>3. IsRun(D, last, s.from)
    BY <1>1, <1>2 DEF IsRun
<1>4. best \in [length : Nat, start : Int, end : Int]
    BY <1>1, <1>2 DEF BestOf
<1>5. ASSUME NEW a \in Int, NEW b \in Int, IsRun(D, a, b), below < a
      PROVE  (a = last /\ b = s.from) \/ s.from < a
    <2>1. a \in D /\ last <= a
        BY <1>5 DEF IsRun
    <2>2. CASE a <= s.from
        <3>1. a \in last .. s.from
            BY <1>1, <1>2, <2>1, <2>2
        <3> QED
            BY <1>3, <1>5, <3>1, RunsApart
    <2>3. CASE s.from < a
        BY <2>3
    <2> QED
        BY <1>2, <2>2, <2>3
<1>6. s.best.length \in Nat /\ (s.from = list[1] => s.best.length = 1)
      /\ (s.from # list[1] => BestAbove(D, s.best, s.from))
    BY <1>2 DEF Passed
<1> HIDE DEF last
<1> DEFINE r == s.run
           l == s.best.length
           u == s.from
<1>9. last \in Int /\ u \in Int /\ r \in Nat /\ 1 <= r /\ u = last + r - 1 /\ l \in Nat
    BY <1>1, <1>2, <1>6
<1>10. below < last
    BY DEF last
<1>11. last <= u /\ r = u - last + 1
    <2> HIDE DEF r, l, u
    <2> QED
        BY <1>9
<1>7. CASE s.run >= s.best.length
    <2>1. best = [length |-> s.run, start |-> last, end |-> s.from]
        BY <1>7 DEF BestOf, last
    <2>2. best.start = last /\ best.end = s.from /\ best.length = s.run
        BY <2>1
    <2>3. ASSUME NEW a \in Int, NEW b \in Int, IsRun(D, a, b), below < a
          PROVE  b - a + 1 <= s.run /\ ~ (a < last)
        <3>1. CASE a = last /\ b = s.from
            BY <1>1, <1>2, <3>1
        <3>2. CASE s.from < a
            <4>1. a \in D
                BY <2>3 DEF IsRun
            <4>2. s.from # list[1]
                BY <1>1, <1>2, <3>2, <4>1
            <4>3. b - a + 1 <= s.best.length
                BY <1>6, <2>3, <3>2, <4>2 DEF BestAbove
            <4>4. l <= r /\ u < a /\ b - a + 1 <= l
                BY <1>7, <3>2, <4>3
            <4> HIDE DEF r, l, u
            <4>5. b - a + 1 <= r /\ ~ (a < last)
                BY <1>9, <1>11, <4>4
            <4> QED
                BY <4>5 DEF r
        <3> QED
            BY <1>5, <2>3, <3>1, <3>2
    <2>4. below < last /\ s.run = s.from - last + 1
        BY <1>10, <1>11
    <2> HIDE DEF best
    <2>5. BestAbove(D, best, below)
        BY <1>3, <2>2, <2>3, <2>4 DEF BestAbove
    <2> QED
        BY <1>2, <1>3, <1>4, <2>2, <2>5 DEF best, last
<1>8. CASE ~ (s.run >= s.best.length)
    <2>1. best = s.best
        BY <1>8 DEF BestOf
    <2>2. s.from # list[1]
        BY <1>2, <1>6, <1>8
    <2>3. BestAbove(D, s.best, s.from)
        BY <1>6, <2>2
    <2>4. s.best.start \in Int /\ s.run < s.best.length /\ below < last /\ last <= s.from
        BY <1>1, <1>2, <1>6, <1>8 DEF last
    <2>5. below < s.best.start
        BY <1>1, <1>2, <2>3, <2>4 DEF BestAbove
    <2>6. ASSUME NEW a \in Int, NEW b \in Int, IsRun(D, a, b), below < a
          PROVE  b - a + 1 <= s.best.length /\ (a < s.best.start => b - a + 1 < s.best.length)
        <3>1. CASE a = last /\ b = s.from
            <4>1. a = last /\ b = u /\ r < l
                BY <2>4, <3>1
            <4> HIDE DEF r, l, u
            <4>2. b - a + 1 < l
                BY <1>9, <1>11, <4>1
            <4> QED
                BY <1>9, <4>2 DEF l
        <3>2. CASE s.from < a
            BY <2>3, <2>6, <3>2 DEF BestAbove
        <3> QED
            BY <1>5, <2>6, <3>1, <3>2
    <2>7. BestAbove(D, s.best, below)
        BY <2>3, <2>5, <2>6 DEF BestAbove
    <2> QED
        BY <1>2, <1>3, <1>4, <1>6, <2>1, <2>4, <2>7 DEF last
<1> QED
    BY <1>7, <1>8

LEMMA FirstPassed ==
    ASSUME NEW D \in SUBSET Int, NEW list, Lists(list, D), 1 \in 1 .. Len(list)
    PROVE  Passed(D, list, FromOf(list), 1)
<1>1. list[1] \in D /\ list[1] \in Int /\ \A d \in D : d <= list[1]
    BY Neighbours
<1>2. list[1] + 1 \notin D /\ list[1] .. list[1] \subseteq D /\ list[1] = list[1] + 1 - 1
    BY <1>1
<1> DEFINE s == FromOf(list)
           cur == IF Recent(list) THEN 1 ELSE 0
           first == [length |-> 1, start |-> list[1], end |-> list[1]]
<1>3. s = [current |-> cur, run |-> 1, from |-> list[1], best |-> first]
    BY DEF FromOf
<1>4. cur \in Nat /\ first \in [length : Nat, start : Int, end : Int] /\ first.length = 1
    BY <1>1
<1> HIDE DEF first
<1>5. s.current = cur /\ s.run = 1 /\ s.from = list[1] /\ s.best.length = 1
    BY <1>3, <1>4
<1>6. s \in PassState
    BY <1>1, <1>3, <1>4 DEF PassState
<1>7. (Recent(list) => s.current = 1) /\ (~Recent(list) => s.current = 0)
    BY <1>5
<1> HIDE DEF s, cur
<1>8. 1 <= s.run /\ s.run <= 1 /\ s.from = list[1] + s.run - 1
    BY <1>1, <1>5
<1>9. s.from \in D /\ list[1] .. s.from \subseteq D /\ s.from + 1 \notin D
    BY <1>1, <1>2, <1>5
<1>10. Passed(D, list, s, 1)
    BY <1>5, <1>6, <1>7, <1>8, <1>9 DEF Passed
<1> QED
    BY <1>10 DEF s

\* One more day of the list: the run goes on, or closes and another begins.
LEMMA StepPasses ==
    ASSUME NEW D \in SUBSET Int, NEW list, Lists(list, D), NEW i \in 1 .. Len(list), i < Len(list),
           NEW s, Passed(D, list, s, i)
    PROVE  Passed(D, list, StepOf(list, s, i + 1), i + 1)
<1> DEFINE j == i + 1
           t == StepOf(list, s, j)
           x == list[i]
           y == list[j]
           first == list[1]
<1>1. /\ x \in D /\ y \in D /\ y < x /\ first \in D
      /\ (\A d \in D : y < d => x <= d) /\ \A d \in D : d <= first
    BY Neighbours
<1>2. x \in Int /\ y \in Int /\ first \in Int /\ i \in Nat /\ 1 <= i /\ j = i + 1 /\ j - 1 = i
    <2>1. i \in Nat /\ 1 <= i
        BY DEF Lists
    <2>2. \A d \in D : d \in Int
        OBVIOUS
    <2>3. x \in Int /\ y \in Int /\ first \in Int
        BY <1>1, <2>2
    <2> HIDE DEF x, y, first
    <2>4. j = i + 1 /\ j - 1 = i
        BY <2>1
    <2> QED
        BY <2>1, <2>3, <2>4
<1>3. /\ s \in PassState /\ 1 <= s.run /\ s.run <= i
      /\ s.from \in D /\ s.from = x + s.run - 1 /\ x .. s.from \subseteq D /\ s.from + 1 \notin D
      /\ s.from = first => s.best.length = 1 /\ s.run = i
      /\ s.from # first => BestAbove(D, s.best, s.from)
      /\ Recent(list) /\ s.from = first => s.current = i
      /\ Recent(list) /\ s.from # first =>
           1 <= s.current /\ s.current < i /\ IsRun(D, first - s.current + 1, first)
      /\ ~Recent(list) => s.current = 0
    BY DEF Passed
<1>4. s.run \in Nat /\ s.current \in Nat /\ s.from \in Int /\ s.best \in [length : Nat, start : Int, end : Int]
    BY <1>3 DEF PassState
<1>5. list[j] = y /\ list[j - 1] = x /\ list[1] = first /\ list[i] = x
    BY <1>2
<1> HIDE DEF j, x, y, first
<1>6. CASE y = x - 1
    <2> DEFINE cur == IF Recent(list) /\ s.current = i THEN s.current + 1 ELSE s.current
    <2>1. t = [s EXCEPT !.run = @ + 1, !.current = cur]
        BY <1>2, <1>5, <1>6 DEF StepOf
    <2>2. cur \in Nat
        BY <1>4
    <2> HIDE DEF cur
    <2>3. t \in PassState /\ t.run = s.run + 1 /\ t.current = cur /\ t.from = s.from /\ t.best = s.best
        <3>1. s = [current |-> s.current, run |-> s.run, from |-> s.from, best |-> s.best]
            BY <1>3 DEF PassState
        <3> DEFINE u == [current |-> cur, run |-> s.run + 1, from |-> s.from, best |-> s.best]
        <3>2. t = u
            BY <2>1, <3>1
        <3>3. u \in PassState
            BY <1>4, <2>2 DEF PassState
        <3> QED
            BY <3>2, <3>3
    <2> HIDE DEF t
    <2>4. t.from = y + t.run - 1 /\ t.run <= j /\ 1 <= t.run
        <3> DEFINE r == s.run
                   u == s.from
                   v == t.run
                   w == t.from
        <3>1. r \in Nat /\ 1 <= r /\ r <= i /\ u = x + r - 1 /\ u \in Int /\ v = r + 1 /\ w = u
            BY <1>3, <1>4, <2>3
        <3> HIDE DEF r, u, v, w
        <3>2. w = y + v - 1 /\ v <= j /\ 1 <= v
            BY <1>2, <1>6, <3>1
        <3> QED
            BY <3>2 DEF v, w
    <2>5. y .. t.from \subseteq D
        BY <1>1, <1>2, <1>3, <1>4, <1>6, <2>3
    <2>6. t.from = first => t.best.length = 1 /\ t.run = j
        BY <1>2, <1>3, <2>3
    <2>7. Recent(list) /\ t.from = first => t.current = j
        BY <1>2, <1>3, <2>3 DEF cur
    <2>8. Recent(list) /\ t.from # first =>
              1 <= t.current /\ t.current < j /\ IsRun(D, first - t.current + 1, first)
        <3> SUFFICES ASSUME Recent(list), t.from # first
                     PROVE  1 <= t.current /\ t.current < j /\ IsRun(D, first - t.current + 1, first)
            OBVIOUS
        <3>1. 1 <= s.current /\ s.current < i /\ IsRun(D, first - s.current + 1, first)
            BY <1>3, <2>3
        <3>2. t.current = s.current
            BY <1>2, <1>4, <2>3, <3>1 DEF cur
        <3> QED
            BY <1>2, <1>4, <3>1, <3>2
    <2>9. ~Recent(list) => t.current = 0
        BY <1>3, <2>3 DEF cur
    <2> QED
        BY <1>3, <1>5, <2>3, <2>4, <2>5, <2>6, <2>7, <2>8, <2>9 DEF Passed, t, j
<1>7. CASE y # x - 1
    <2> DEFINE best == BestOf(s, x)
    <2>1. t = [s EXCEPT !.best = best, !.run = 1, !.from = y]
        BY <1>5, <1>7 DEF StepOf
    <2>2. x - 1 \notin D /\ y + 1 \notin D
        BY <1>1, <1>2, <1>7
    <2>3. BestAbove(D, best, y) /\ best \in [length : Nat, start : Int, end : Int] /\ IsRun(D, x, s.from)
        <3>1. list[i] - 1 \notin D /\ y < list[i] /\ (\A d \in D : y < d => list[i] <= d) /\ y \in Int
            BY <1>1, <1>2, <1>5, <2>2
        <3>2. BestAbove(D, BestOf(s, list[i]), y) /\ BestOf(s, list[i]) \in [length : Nat, start : Int, end : Int]
              /\ IsRun(D, list[i], s.from)
            BY <3>1, BestCloses
        <3> QED
            BY <1>5, <3>2
    <2> HIDE DEF best
    <2>4. t \in PassState /\ t.run = 1 /\ t.current = s.current /\ t.from = y /\ t.best = best
        <3>1. s = [current |-> s.current, run |-> s.run, from |-> s.from, best |-> s.best]
            BY <1>3 DEF PassState
        <3> DEFINE u == [current |-> s.current, run |-> 1, from |-> y, best |-> best]
        <3>2. t = u
            BY <2>1, <3>1
        <3>3. u \in PassState
            BY <1>2, <1>4, <2>3 DEF PassState
        <3> QED
            BY <3>2, <3>3
    <2> HIDE DEF t
    <2>5. t.from = y + t.run - 1 /\ t.run <= j /\ 1 <= t.run /\ y .. t.from \subseteq D /\ t.from # first
        BY <1>1, <1>2, <2>4
    <2>6. Recent(list) => 1 <= t.current /\ t.current < j /\ IsRun(D, first - t.current + 1, first)
        <3> SUFFICES ASSUME Recent(list)
                     PROVE  1 <= t.current /\ t.current < j /\ IsRun(D, first - t.current + 1, first)
            OBVIOUS
        <3>1. CASE s.from = first
            <4>1. s.current = i /\ s.run = i
                BY <1>3, <3>1
            <4>2. first - s.current + 1 = x
                BY <1>2, <1>3, <3>1, <4>1
            <4> QED
                BY <1>2, <2>3, <2>4, <3>1, <4>1, <4>2
        <3>2. CASE s.from # first
            BY <1>2, <1>3, <1>4, <2>4, <3>2
        <3> QED
            BY <3>1, <3>2
    <2>7. ~Recent(list) => t.current = 0
        BY <1>3, <2>4
    <2> QED
        BY <1>1, <1>5, <2>2, <2>3, <2>4, <2>5, <2>6, <2>7 DEF Passed, t, j
<1> QED
    BY <1>6, <1>7

LEMMA AllPassed ==
    ASSUME NEW D \in SUBSET Int, NEW list, Lists(list, D), NEW f, PassesTo(f, list, Len(list)), Len(list) \in Nat \ {0}
    PROVE  Passed(D, list, f[Len(list)], Len(list))
<1> DEFINE n == Len(list)
           T == {k \in Nat : k + 1 <= n => Passed(D, list, f[k + 1], k + 1)}
<1> HIDE DEF n
<1>1. n \in Nat \ {0} /\ \A i \in 1 .. n : f[i] = IF i = 1 THEN FromOf(list) ELSE StepOf(list, f[i - 1], i)
    BY DEF n, PassesTo
<1>2. 0 \in T
    <2>1. 1 \in 1 .. Len(list) /\ f[1] = FromOf(list)
        BY <1>1 DEF n
    <2>2. Passed(D, list, f[1], 1)
        BY <2>1, FirstPassed
    <2> QED
        BY <2>2
<1>3. ASSUME NEW k \in T
      PROVE  k + 1 \in T
    <2> SUFFICES ASSUME k + 2 <= n
                 PROVE  Passed(D, list, f[k + 2], k + 2)
        <3>1. k \in Nat /\ k + 1 \in Nat /\ k + 1 + 1 = k + 2
            OBVIOUS
        <3> QED
            BY <3>1
    <2> DEFINE i == k + 1
    <2>1. i \in 1 .. n /\ i < n /\ i + 1 = k + 2 /\ i + 1 \in 1 .. n /\ i + 1 # 1 /\ i + 1 - 1 = i
        BY <1>1
    <2>2. Passed(D, list, f[i], i)
        BY <1>1, <2>1
    <2> HIDE DEF i
    <2>3. f[i + 1] = StepOf(list, f[i], i + 1)
        BY <1>1, <2>1
    <2>4. Passed(D, list, StepOf(list, f[i], i + 1), i + 1)
        BY <2>1, <2>2, StepPasses DEF n
    <2> QED
        BY <2>1, <2>3, <2>4
<1>4. T = Nat
    <2>1. T \in SUBSET Nat
        OBVIOUS
    <2> HIDE DEF T
    <2> QED
        BY <1>2, <1>3, <2>1, AllNaturals
<1>5. n - 1 \in Nat /\ n - 1 + 1 = n /\ n - 1 \in T
    <2>1. n - 1 \in Nat /\ n - 1 + 1 = n
        BY <1>1
    <2> HIDE DEF T
    <2> QED
        BY <1>4, <2>1
<1>6. Passed(D, list, f[n], n)
    BY <1>1, <1>5
<1> QED
    BY <1>6 DEF n

\* What the report says of days: the current run, and the longest, the earliest of its length.
ReportRight(D, report, top) ==
    /\ top \in D /\ \A d \in D : d <= top
    /\ IsRun(D, report.start, report.end) /\ report.longest = report.end - report.start + 1
    /\ \A a, b \in Int : IsRun(D, a, b) =>
           b - a + 1 <= report.longest /\ (a < report.start => b - a + 1 < report.longest)
    /\ top >= Today - 1 => /\ report.current \in Nat \ {0} /\ IsRun(D, top - report.current + 1, top)
                           /\ report.expiry = top + 2
    /\ ~ (top >= Today - 1) => report.current = 0 /\ report.expiry = NoDay

\* At the end of the pass the best run is the longest, and the current streak is
\* the run that holds today or yesterday.
LEMMA ReportsRight ==
    ASSUME NEW D \in SUBSET Int, IsFiniteSet(D), D # {}
    PROVE  \E top : ReportRight(D, ComputeStreaks(Descending(D)), top)
<1> DEFINE list == Descending(D)
           n == Len(list)
           top == list[1]
<1>1. Lists(list, D)
    BY DescendingLists
<1> HIDE DEF list
<1>2. list \in Seq(Int) /\ n \in Nat \ {0} /\ list # <<>> /\ n \in 1 .. Len(list) /\ n = Len(list)
    <2>1. list \in Seq(D) /\ n = Cardinality(D)
        BY <1>1 DEF Lists
    <2>2. n \in Nat \ {0}
        BY <2>1, FS_EmptySet, FS_CardinalityType
    <2>3. list \in Seq(Int)
        BY <2>1, SeqMonotonic
    <2> QED
        BY <2>2, <2>3
<1>3. PICK f : PassesTo(f, list, Len(list)) /\ ComputeStreaks(list) = ReportOf(list, f[Len(list)])
    BY <1>2, PassReports
<1> DEFINE s == f[n]
           report == ReportOf(list, s)
           last == list[n]
           best == BestOf(s, last)
           below == last - 1
<1>4. Passed(D, list, s, n)
    BY <1>1, <1>2, <1>3, AllPassed
<1>5. top \in D /\ (\A d \in D : d <= top) /\ last \in D /\ \A d \in D : last <= d
    BY <1>1, <1>2, Neighbours
<1>6. \A d \in D : d \in Int
    OBVIOUS
<1> HIDE DEF last, best, s, n
<1>7. below \in Int /\ below < last /\ below \notin D /\ (\A d \in D : below < d => last <= d) /\ last \in Int /\ top \in Int
    <2> HIDE DEF top
    <2>1. last \in Int /\ top \in Int
        BY <1>5, <1>6
    <2>2. below \in Int /\ below < last
        BY <2>1
    <2>3. below \notin D
        BY <1>5, <2>1, <2>2
    <2> QED
        BY <1>5, <2>1, <2>2, <2>3
<1>8. BestAbove(D, best, below) /\ best \in [length : Nat, start : Int, end : Int] /\ IsRun(D, last, s.from) /\ best.length >= 1
    <2>1. list[n] - 1 \notin D /\ below \in Int /\ below < list[n] /\ \A d \in D : below < d => list[n] <= d
        BY <1>7 DEF last
    <2> HIDE DEF below
    <2>2. /\ BestAbove(D, BestOf(s, list[n]), below) /\ BestOf(s, list[n]) \in [length : Nat, start : Int, end : Int]
          /\ IsRun(D, list[n], s.from) /\ BestOf(s, list[n]).length >= 1
        BY <1>1, <1>2, <1>4, <2>1, BestCloses
    <2> QED
        BY <2>2 DEF best, last
<1>9. /\ report.current = s.current /\ report.longest = best.length /\ report.start = best.start /\ report.end = best.end
      /\ report.expiry = IF Recent(list) THEN top + 2 ELSE NoDay
    BY DEF ReportOf, best, last, n
<1> HIDE DEF report
<1>10. \A a, b \in Int : IsRun(D, a, b) => b - a + 1 <= best.length /\ (a < best.start => b - a + 1 < best.length)
    <2> SUFFICES ASSUME NEW a \in Int, NEW b \in Int, IsRun(D, a, b)
                 PROVE  below < a
        BY <1>8 DEF BestAbove
    <2>1. a \in D
        BY DEF IsRun
    <2> QED
        BY <1>5, <1>7, <2>1
<1>11. /\ s.run \in Nat /\ 1 <= s.run /\ s.current \in Nat /\ s.from \in Int /\ s.from = last + s.run - 1
       /\ s.from = top => s.run = n
       /\ Recent(list) /\ s.from = top => s.current = n
       /\ Recent(list) /\ s.from # top => 1 <= s.current /\ IsRun(D, top - s.current + 1, top)
       /\ ~Recent(list) => s.current = 0
    BY <1>4 DEF Passed, PassState, last
<1>12. ASSUME Recent(list)
       PROVE  s.current \in Nat \ {0} /\ IsRun(D, top - s.current + 1, top)
    <2>1. CASE s.from # top
        BY <1>11, <1>12, <2>1
    <2>2. CASE s.from = top
        <3>1. s.current = s.run
            BY <1>11, <1>12, <2>2
        <3> DEFINE r == s.run
                   u == s.from
        <3>2. r \in Nat /\ 1 <= r /\ u = last + r - 1 /\ u = top
            BY <1>11, <2>2
        <3> HIDE DEF r, u, top
        <3>3. top - r + 1 = last /\ r \in Nat \ {0}
            BY <1>7, <3>2
        <3>4. IsRun(D, last, top)
            BY <1>8, <2>2
        <3> QED
            BY <3>1, <3>3, <3>4 DEF r
    <2> QED
        BY <2>1, <2>2
<1>13. Recent(list) <=> top >= Today - 1
    BY DEF Recent
<1>14. IsRun(D, report.start, report.end) /\ report.longest = report.end - report.start + 1
    BY <1>8, <1>9 DEF BestAbove
<1> HIDE DEF top
<1>15. ReportRight(D, report, top)
    BY <1>5, <1>9, <1>10, <1>11, <1>12, <1>13, <1>14 DEF ReportRight
<1>16. report = ComputeStreaks(Descending(D))
    BY <1>3 DEF report, s, n, list
<1> QED
    BY <1>15, <1>16

-----------------------------------------------------------------------------
\* The way of the query: the days of a run, less their row numbers, are the same day.
AnchorOf(D, day) == day - Cardinality({d \in D : d <= day})

LEMMA SameAnchor ==
    ASSUME NEW D \in SUBSET Int, IsFiniteSet(D), NEW d \in D, NEW e \in D, d <= e
    PROVE  AnchorOf(D, d) = AnchorOf(D, e) <=> d .. e \subseteq D
<1> DEFINE Up(x) == {y \in D : y <= x}
           gap == {y \in D : d < y /\ y <= e}
           whole == d + 1 .. e
           p == Cardinality(Up(d))
           q == Cardinality(Up(e))
           g == Cardinality(gap)
           z == Cardinality(Up(d) \cap gap)
<1>1. \A x \in D : x \in Int
    OBVIOUS
<1>2. d \in Int /\ e \in Int
    OBVIOUS
<1>3. AnchorOf(D, d) = d - p /\ AnchorOf(D, e) = e - q
    BY DEF AnchorOf
<1>4. IsFiniteSet(Up(d)) /\ IsFiniteSet(gap)
    BY FS_Subset
<1>5. Up(e) = Up(d) \union gap /\ Up(d) \cap gap = {}
    <2>1. \A y \in D : y <= e <=> y <= d \/ (d < y /\ y <= e)
        BY <1>1, <1>2
    <2>2. \A y \in D : ~ (y <= d /\ d < y)
        BY <1>1, <1>2
    <2>3. Up(e) = Up(d) \union gap
        BY <2>1
    <2> QED
        BY <2>2, <2>3
<1>6. IsFiniteSet(whole) /\ Cardinality(whole) = e - d
    <2> DEFINE c == d + 1
    <2>1. c \in Int /\ (c > e => e = d) /\ e - c + 1 = e - d
        BY <1>2
    <2> HIDE DEF c
    <2>2. IsFiniteSet(c .. e) /\ Cardinality(c .. e) = IF c > e THEN 0 ELSE e - c + 1
        BY <1>2, <2>1, FS_Interval
    <2>3. Cardinality(c .. e) = e - d
        BY <1>2, <2>1, <2>2
    <2> QED
        BY <2>2, <2>3 DEF c
<1>7. gap \in SUBSET whole
    <2>1. \A y \in D : d < y /\ y <= e => y \in d + 1 .. e
        BY <1>1, <1>2
    <2> QED
        BY <2>1
<1>8. (gap = whole) <=> d .. e \subseteq D
    <2>1. ASSUME gap = whole, NEW x \in d .. e
          PROVE  x \in D
        <3>1. x = d \/ x \in whole
            BY <1>2
        <3> QED
            BY <2>1, <3>1
    <2>2. ASSUME d .. e \subseteq D
          PROVE  gap = whole
        <3>1. \A y \in d + 1 .. e : y \in D /\ d < y /\ y <= e
            BY <1>2, <2>2
        <3>2. \A y \in whole : y \in gap
            BY <3>1
        <3> HIDE DEF gap, whole
        <3> QED
            BY <1>7, <3>2
    <2> QED
        BY <2>1, <2>2
<1> HIDE DEF Up, gap, whole
<1>9. q = p + g - z /\ z = 0 /\ p \in Nat /\ g \in Nat
    BY <1>4, <1>5, FS_Union, FS_EmptySet, FS_CardinalityType
<1>10. g <= e - d /\ (g = e - d <=> gap = whole)
    BY <1>6, <1>7, FS_Subset
<1> HIDE DEF p, q, g, z
<1>11. d - p = e - q <=> g = e - d
    BY <1>2, <1>9
<1> QED
    BY <1>3, <1>8, <1>10, <1>11

LEMMA RunAround ==
    ASSUME NEW D \in SUBSET Int, IsFiniteSet(D), NEW d \in D
    PROVE  \E a, b \in Int : /\ IsRun(D, a, b) /\ a <= d /\ d <= b
                             /\ {e \in D : AnchorOf(D, e) = AnchorOf(D, d)} = a .. b
<1> DEFINE S == {e \in D : AnchorOf(D, e) = AnchorOf(D, d)}
<1>1. S \in SUBSET Int /\ IsFiniteSet(S) /\ d \in S
    BY FS_Subset
<1>2. \A e \in S : e \in D /\ AnchorOf(D, e) = AnchorOf(D, d) /\ e \in Int
    OBVIOUS
<1>3. \A e \in D : AnchorOf(D, e) = AnchorOf(D, d) => e \in S
    OBVIOUS
<1>4. \A e \in D : e \in Int
    OBVIOUS
<1> HIDE DEF S
<1>5. PICK a \in S : \A e \in S : a <= e
    BY <1>1, FiniteHasEnds
<1>6. PICK b \in S : \A e \in S : e <= b
    BY <1>1, FiniteHasEnds
<1>7. a \in Int /\ b \in Int /\ a \in D /\ b \in D /\ a <= d /\ d <= b /\ d \in Int /\ AnchorOf(D, a) = AnchorOf(D, b)
    BY <1>1, <1>2, <1>5, <1>6
<1>8. a <= b
    BY <1>7
<1>9. a .. b \subseteq D
    BY <1>7, <1>8, SameAnchor
<1>10. ASSUME NEW e \in a .. b
       PROVE  e \in S
    <2>1. e \in D /\ a <= e /\ e \in Int
        BY <1>7, <1>9
    <2>2. a .. e \subseteq D
        BY <1>7, <1>9, <2>1
    <2>3. AnchorOf(D, a) = AnchorOf(D, e)
        BY <1>7, <2>1, <2>2, SameAnchor
    <2> QED
        BY <1>2, <1>3, <2>1, <2>3
<1>11. S = a .. b
    <2>1. \A e \in S : e \in a .. b
        BY <1>2, <1>5, <1>6, <1>7
    <2> QED
        BY <1>10, <2>1
<1>12. a - 1 \notin D
    <2> SUFFICES ASSUME a - 1 \in D
                 PROVE  FALSE
        OBVIOUS
    <2>1. a - 1 .. a \subseteq D /\ a - 1 <= a /\ a - 1 \in Int
        BY <1>7
    <2> DEFINE c == a - 1
    <2>2. c < a /\ c \in D
        BY <1>7
    <2> HIDE DEF c
    <2>3. AnchorOf(D, c) = AnchorOf(D, a)
        BY <1>7, <2>1, SameAnchor DEF c
    <2>4. c \in S
        BY <1>2, <1>3, <2>2, <2>3
    <2> QED
        BY <1>4, <1>5, <1>7, <2>2, <2>4
<1>13. b + 1 \notin D
    <2> SUFFICES ASSUME b + 1 \in D
                 PROVE  FALSE
        OBVIOUS
    <2>1. b .. b + 1 \subseteq D /\ b <= b + 1 /\ b + 1 \in Int
        BY <1>7
    <2> DEFINE c == b + 1
    <2>2. b < c /\ c \in D
        BY <1>7
    <2> HIDE DEF c
    <2>3. AnchorOf(D, b) = AnchorOf(D, c)
        BY <1>7, <2>1, SameAnchor DEF c
    <2>4. c \in S
        BY <1>2, <1>3, <2>2, <2>3
    <2> QED
        BY <1>4, <1>6, <1>7, <2>2, <2>4
<1>14. IsRun(D, a, b)
    BY <1>7, <1>8, <1>9, <1>12, <1>13 DEF IsRun
<1> QED
    BY <1>7, <1>11, <1>14 DEF S

\* What the query finds are the runs: their lengths, and their last days.
LEMMA StreaksAreRuns ==
    ASSUME NEW D \in SUBSET Int, IsFiniteSet(D)
    PROVE  /\ \A run \in StreakLengths(D) :
                  \E a, b \in Int : IsRun(D, a, b) /\ run.length = b - a + 1 /\ run.recent = b
           /\ \A a, b \in Int : IsRun(D, a, b) =>
                  \E run \in StreakLengths(D) : run.length = b - a + 1 /\ run.recent = b
<1> DEFINE With(anchor) == {d \in D : AnchorOf(D, d) = anchor}
           Row(anchor) == [length |-> Cardinality(With(anchor)), recent |-> Max(With(anchor))]
           anchors == {AnchorOf(D, d) : d \in D}
<1>1. StreakLengths(D) = {Row(anchor) : anchor \in anchors}
    BY DEF StreakLengths, AnchorOf
<1>2. ASSUME NEW a \in Int, NEW b \in Int, a <= b
      PROVE  Cardinality(a .. b) = b - a + 1 /\ Max(a .. b) = b
    <2>1. Cardinality(a .. b) = b - a + 1
        BY <1>2, FS_Interval
    <2> DEFINE P(x) == \A y \in a .. b : x >= y
               x == CHOOSE x \in a .. b : P(x)
    <2>2. Max(a .. b) = x
        BY DEF Max
    <2>3. x \in a .. b /\ P(x)
        <3>1. b \in a .. b /\ P(b)
            BY <1>2
        <3> HIDE DEF P
        <3> QED
            BY <3>1
    <2> HIDE DEF x
    <2>4. x = b
        <3>1. x \in Int /\ x <= b /\ b \in a .. b
            BY <1>2, <2>3
        <3>2. x >= b
            BY <2>3, <3>1
        <3> QED
            BY <3>1, <3>2
    <2> QED
        BY <2>1, <2>2, <2>4
<1>3. ASSUME NEW d \in D
      PROVE  \E a, b \in Int : /\ IsRun(D, a, b) /\ a <= d /\ d <= b
                               /\ Row(AnchorOf(D, d)).length = b - a + 1 /\ Row(AnchorOf(D, d)).recent = b
    <2>1. PICK a, b \in Int : /\ IsRun(D, a, b) /\ a <= d /\ d <= b
                              /\ {e \in D : AnchorOf(D, e) = AnchorOf(D, d)} = a .. b
        BY RunAround
    <2>2. With(AnchorOf(D, d)) = a .. b
        BY <2>1
    <2>3. a <= b
        BY <2>1 DEF IsRun
    <2> HIDE DEF With
    <2>4. Row(AnchorOf(D, d)).length = b - a + 1 /\ Row(AnchorOf(D, d)).recent = b
        BY <1>2, <2>2, <2>3
    <2> HIDE DEF Row
    <2> QED
        BY <2>1, <2>4
<1> HIDE DEF Row
<1>4. ASSUME NEW run \in StreakLengths(D)
      PROVE  \E a, b \in Int : IsRun(D, a, b) /\ run.length = b - a + 1 /\ run.recent = b
    <2>1. PICK d \in D : run = Row(AnchorOf(D, d))
        BY <1>1
    <2> QED
        BY <1>3, <2>1
<1>5. ASSUME NEW a \in Int, NEW b \in Int, IsRun(D, a, b)
      PROVE  \E run \in StreakLengths(D) : run.length = b - a + 1 /\ run.recent = b
    <2>1. a \in D
        BY <1>5 DEF IsRun
    <2>2. PICK c, e \in Int : /\ IsRun(D, c, e) /\ c <= a /\ a <= e
                              /\ Row(AnchorOf(D, a)).length = e - c + 1 /\ Row(AnchorOf(D, a)).recent = e
        BY <1>3, <2>1
    <2>3. a \in c .. e
        BY <2>2
    <2>4. c = a /\ e = b
        BY <1>5, <2>2, <2>3, RunsApart
    <2>5. Row(AnchorOf(D, a)) \in StreakLengths(D)
        BY <1>1, <2>1
    <2> QED
        BY <2>2, <2>4, <2>5
<1> QED
    BY <1>4, <1>5

\* The report agrees with the leaderboards.
Agrees(D, report) ==
    /\ TopStreaks(D) = IF report.current >= 2 THEN {report.current} ELSE {}
    /\ TopStreaksAllTime(D) = IF report.longest >= 2 THEN {report.longest} ELSE {}
    /\ report.longest > 0 =>
         /\ report.start .. report.end \subseteq D
         /\ Cardinality(report.start .. report.end) = report.longest
         /\ \A day \in D : day < report.start => ~ (day .. day + report.longest - 1 \subseteq D)
    /\ report.expiry # NoDay <=> \E day \in D : day >= Today - 1

LEMMA NoDaysAgree == Agrees({}, ComputeStreaks(Descending({})))
<1>1. Descending({}) = <<>>
    <2>1. IsFiniteSet({})
        BY FS_EmptySet
    <2>2. Lists(Descending({}), {})
        BY <2>1, DescendingLists
    <2>3. Descending({}) \in Seq({}) /\ Len(Descending({})) = 0
        BY <2>2, FS_EmptySet DEF Lists
    <2> HIDE DEF Descending
    <2> QED
        BY <2>3, EmptySeq
<1>2. ComputeStreaks(Descending({})) = NoStreak
    <2> HIDE DEF NoStreak
    <2> QED
        BY <1>1 DEF ComputeStreaks
<1>3. StreakLengths({}) = {}
    BY DEF StreakLengths
<1>4. TopStreaks({}) = {} /\ TopStreaksAllTime({}) = {}
    BY <1>3 DEF TopStreaks, TopStreaksAllTime
<1>5. NoStreak.current = 0 /\ NoStreak.longest = 0 /\ NoStreak.expiry = NoDay
    BY DEF NoStreak
<1> QED
    BY <1>2, <1>4, <1>5 DEF Agrees

LEMMA SomeDaysAgree ==
    ASSUME NEW D \in SUBSET Int, IsFiniteSet(D), D # {}, \A d \in D : 0 <= d /\ d <= Today
    PROVE  Agrees(D, ComputeStreaks(Descending(D)))
<1> DEFINE report == ComputeStreaks(Descending(D))
           c == report.current
           l == report.longest
           s == report.start
           e == report.end
<1>1. PICK top : ReportRight(D, report, top)
    BY ReportsRight
<1> HIDE DEF report
<1>2. top \in D /\ top \in Int /\ Today \in Int /\ top <= Today /\ 0 <= top /\ (\A d \in D : d <= top /\ d \in Int)
    BY <1>1, StreakAssumption DEF ReportRight
<1>3. IsRun(D, s, e) /\ s \in Int /\ e \in Int /\ s <= e /\ l = e - s + 1
    BY <1>1 DEF ReportRight, IsRun
<1>4. \A a, b \in Int : IsRun(D, a, b) => b - a + 1 <= l /\ (a < s => b - a + 1 < l)
    BY <1>1 DEF ReportRight
<1>5. /\ top >= Today - 1 => c \in Nat \ {0} /\ IsRun(D, top - c + 1, top) /\ report.expiry = top + 2
      /\ ~ (top >= Today - 1) => c = 0 /\ report.expiry = NoDay
    BY <1>1 DEF ReportRight
<1>6. \A a, b \in Int : IsRun(D, a, b) => a \in D /\ b \in D /\ a <= b
    BY DEF IsRun
<1>7. report.expiry # NoDay <=> \E day \in D : day >= Today - 1
    <2>1. CASE top >= Today - 1
        <3>1. report.expiry = top + 2 /\ top + 2 # NoDay
            BY <1>2, <1>5, <2>1 DEF NoDay
        <3> QED
            BY <1>2, <2>1, <3>1
    <2>2. CASE ~ (top >= Today - 1)
        BY <1>2, <1>5, <2>2
    <2> QED
        BY <2>1, <2>2
<1> HIDE DEF c, l, s, e
<1>8. TopStreaks(D) = IF c >= 2 THEN {c} ELSE {}
    <2> DEFINE rows == {r \in StreakLengths(D) : r.recent >= Today - 1 /\ r.length >= 2}
    <2>1. TopStreaks(D) = {run.length : run \in rows}
        BY DEF TopStreaks
    <2>2. ASSUME NEW run \in rows
          PROVE  c >= 2 /\ run.length = c
        <3>1. PICK a, b \in Int : IsRun(D, a, b) /\ run.length = b - a + 1 /\ run.recent = b
            BY StreaksAreRuns
        <3>2. b \in D /\ b >= Today - 1 /\ b - a + 1 >= 2 /\ a <= b
            BY <1>6, <3>1
        <3>3. top >= Today - 1
            BY <1>2, <3>2
        <3>4. b = top
            <4> SUFFICES ASSUME b # top
                         PROVE  FALSE
                OBVIOUS
            <4>1. b <= top
                BY <1>2, <3>2
            <4>2. top = b + 1
                BY <1>2, <3>2, <4>1
            <4> QED
                BY <1>2, <3>1, <4>2 DEF IsRun
        <3>5. c \in Nat \ {0} /\ IsRun(D, top - c + 1, top)
            BY <1>5, <3>3
        <3> DEFINE f == top - c + 1
        <3>6. f \in Int /\ f <= top /\ f = top - c + 1
            BY <1>2, <3>5
        <3>7. IsRun(D, f, top)
            BY <3>5
        <3> HIDE DEF f
        <3>8. top \in a .. b
            BY <1>2, <3>2, <3>4
        <3>9. f = a
            BY <3>1, <3>7, <3>8, RunsApart
        <3>10. b - a + 1 = c
            BY <1>2, <3>4, <3>5, <3>6, <3>9
        <3> QED
            BY <3>1, <3>2, <3>10
    <2>3. ASSUME c >= 2
          PROVE  \E run \in rows : run.length = c
        <3>1. top >= Today - 1
            <4> SUFFICES ASSUME ~ (top >= Today - 1)
                         PROVE  FALSE
                OBVIOUS
            <4>1. c = 0
                BY <1>5
            <4> QED
                BY <2>3, <4>1
        <3>2. c \in Nat \ {0} /\ IsRun(D, top - c + 1, top)
            BY <1>5, <3>1
        <3>3. top - c + 1 \in Int /\ top - (top - c + 1) + 1 = c
            BY <1>2, <3>2
        <3>4. PICK run \in StreakLengths(D) : run.length = c /\ run.recent = top
            BY <1>2, <3>2, <3>3, StreaksAreRuns
        <3>5. run \in rows
            BY <2>3, <3>1, <3>4
        <3> HIDE DEF rows
        <3> QED
            BY <3>4, <3>5
    <2> HIDE DEF rows
    <2>4. CASE c >= 2
        <3>1. \A x \in TopStreaks(D) : x = c
            BY <2>1, <2>2
        <3>2. c \in TopStreaks(D)
            BY <2>1, <2>3, <2>4
        <3> QED
            BY <2>4, <3>1, <3>2
    <2>5. CASE ~ (c >= 2)
        <3>1. rows = {}
            BY <2>2, <2>5
        <3> QED
            BY <2>1, <2>5, <3>1
    <2> QED
        BY <2>4, <2>5
<1>9. TopStreaksAllTime(D) = IF l >= 2 THEN {l} ELSE {}
    <2> DEFINE lengths == {run.length : run \in StreakLengths(D)}
    <2>1. TopStreaksAllTime(D) = IF lengths = {} \/ Max(lengths) < 2 THEN {} ELSE {Max(lengths)}
        BY DEF TopStreaksAllTime
    <2>2. \A x \in lengths : x \in Int /\ x <= l
        <3> SUFFICES ASSUME NEW run \in StreakLengths(D)
                     PROVE  run.length \in Int /\ run.length <= l
            OBVIOUS
        <3>1. PICK a, b \in Int : IsRun(D, a, b) /\ run.length = b - a + 1 /\ run.recent = b
            BY StreaksAreRuns
        <3> QED
            BY <1>4, <3>1
    <2>3. l \in lengths
        <3>1. PICK run \in StreakLengths(D) : run.length = e - s + 1 /\ run.recent = e
            BY <1>3, StreaksAreRuns
        <3> QED
            BY <1>3, <3>1
    <2> HIDE DEF lengths
    <2>4. Max(lengths) = l
        <3> DEFINE P(x) == \A y \in lengths : x >= y
                   m == CHOOSE x \in lengths : P(x)
        <3>1. Max(lengths) = m
            BY DEF Max
        <3>2. l \in lengths /\ P(l)
            BY <2>2, <2>3
        <3>3. m \in lengths /\ P(m)
            <4> HIDE DEF P
            <4> QED
                BY <3>2
        <3> HIDE DEF m
        <3>4. m \in Int /\ l \in Int /\ m <= l /\ m >= l
            BY <2>2, <2>3, <3>3
        <3> QED
            BY <3>1, <3>4
    <2>5. l \in Int /\ lengths # {}
        BY <2>2, <2>3
    <2> QED
        BY <2>1, <2>4, <2>5
<1>10. s .. e \subseteq D /\ Cardinality(s .. e) = l
    <2>1. Cardinality(s .. e) = e - s + 1
        BY <1>3, FS_Interval
    <2> QED
        BY <1>3, <2>1 DEF IsRun
<1>11. ASSUME NEW day \in D, day < s, day .. day + l - 1 \subseteq D
       PROVE  FALSE
    <2>1. PICK a, b \in Int : IsRun(D, a, b) /\ a <= day /\ day <= b
        BY RunAround
    <2>2. day \in Int /\ l \in Int
        BY <1>2, <1>3
    <2>3. b - a + 1 < l
        BY <1>3, <1>4, <1>11, <2>1, <2>2
    <2>4. b + 1 \in day .. day + l - 1
        BY <2>1, <2>2, <2>3
    <2>5. b + 1 \in D
        BY <1>11, <2>4
    <2> QED
        BY <2>1, <2>5 DEF IsRun
<1> QED
    BY <1>7, <1>8, <1>9, <1>10, <1>11 DEF Agrees, report, c, l, s, e

LEMMA StreaksDoAgree == StreaksTypeOK => StreaksAgree
<1> SUFFICES ASSUME StreaksTypeOK, NEW D \in {ActivityDates, HostedDates}
             PROVE  Agrees(D, ComputeStreaks(Descending(D)))
    BY DEF StreaksAgree, Agrees
<1>1. FirstDay \in Nat /\ Today \in Nat
    BY StreakAssumption
<1>2. D \subseteq FirstDay .. Today
    BY DEF StreaksTypeOK, ActivityDates, HostedDates
<1>3. IsFiniteSet(FirstDay .. Today)
    BY <1>1, FS_Interval
<1>4. IsFiniteSet(D) /\ D \in SUBSET Int /\ \A d \in D : 0 <= d /\ d <= Today
    <2>1. IsFiniteSet(D)
        BY <1>2, <1>3, FS_Subset
    <2>2. \A d \in FirstDay .. Today : d \in Int /\ 0 <= d /\ d <= Today
        BY <1>1
    <2> QED
        BY <1>2, <2>1, <2>2
<1> QED
    BY <1>4, NoDaysAgree, SomeDaysAgree

-----------------------------------------------------------------------------
(*****************************************************************************)
(* The figures together (MCAnalytics).                                       *)
(*****************************************************************************)
\* Streaks keep their types: the days are days of sailors.
LEMMA StreaksKept == StreaksTypeOK /\ (StreaksNext \/ UNCHANGED streakVars) => StreaksTypeOK'
BY DEF StreaksTypeOK, StreaksNext, streakVars, SailOn, HostOn, Unlog

AnalyticsInv == FiguresInv /\ PingsInv /\ SizesInv /\ StreaksTypeOK /\ WatchInv

LEMMA AnalyticsBegins == AnalyticsInit /\ TrackingInit /\ StreaksInit /\ WatchInit => AnalyticsInv
<1>1. StreaksInit => StreaksTypeOK
    BY DEF StreaksInit, StreaksTypeOK
<1> QED
    BY <1>1, FiguresBegin, PingsBegin, SizesBegin, WatchBegins DEF AnalyticsInv

\* Pings and sizes are told apart by what they leave alone.
LEMMA TrackingKept ==
    ASSUME PingsInv, SizesInv, PingsNext \/ SizesNext \/ PassDay \/ UNCHANGED trackingVars
    PROVE  PingsInv' /\ SizesInv'
<1>1. CASE PingsNext
    <2>1. PingsInv'
        BY <1>1, PingsKept
    <2>2. UNCHANGED <<today, sizeVars>>
        BY <1>1 DEF PingsNext, Post, Delete, Resend, OnMessage, OnRawMessageDelete, ListenerFails, Restart
    <2>3. TrackingTypeOK'
        BY <2>1 DEF PingsInv
    <2> QED
        BY <2>1, <2>2, <2>3, SizesStay
<1>2. CASE SizesNext \/ PassDay
    <2>1. SizesInv'
        BY <1>2, TaskKept, ResizeKept, DayKept DEF SizesNext
    <2>2. UNCHANGED pingVars
        BY <1>2 DEF SizesNext, Resize, AutoTrackRoleSize, PassDay
    <2>3. TrackingTypeOK'
        BY <2>1 DEF SizesInv
    <2> QED
        BY <2>1, <2>2, <2>3, PingsStay
<1>3. CASE UNCHANGED trackingVars
    <2>1. UNCHANGED <<today, sizeVars>> /\ UNCHANGED pingVars
        BY <1>3 DEF trackingVars
    <2>2. TrackingTypeOK'
        BY <2>1 DEF sizeVars, pingVars, PingsInv, TrackingTypeOK
    <2> QED
        BY <2>1, <2>2, SizesStay, PingsStay
<1> QED
    BY <1>1, <1>2, <1>3

LEMMA AnalyticsKept ==
    ASSUME AnalyticsInv, [AnalyticsNext]_analyticsVars, [PingsNext \/ SizesNext \/ PassDay]_trackingVars,
           [StreaksNext]_streakVars, [WatchNext]_watchVars
    PROVE  AnalyticsInv'
<1>1. FiguresInv /\ PingsInv /\ SizesInv /\ StreaksTypeOK /\ WatchInv
    BY DEF AnalyticsInv
<1>2. FiguresInv' /\ StreaksTypeOK' /\ WatchInv'
    BY <1>1, FiguresKept, StreaksKept, WatchKept
<1>3. PingsInv' /\ SizesInv'
    BY <1>1, TrackingKept
<1> QED
    BY <1>2, <1>3 DEF AnalyticsInv

\* A step of one topic is none of the others.
LEMMA StepsOfFigures ==
    ASSUME [FiguresNext]_figuresVars
    PROVE  /\ [AnalyticsNext]_analyticsVars /\ [PingsNext \/ SizesNext \/ PassDay]_trackingVars
           /\ [StreaksNext]_streakVars /\ [WatchNext]_watchVars
BY DEF FiguresNext, figuresVars

\* What is known of the figures' tables, queues, images and messages holds in every
\* state: each part's own invariant, which no other part's step disturbs.
THEOREM AnalyticsInvariant == Spec => []AnalyticsInv
<1>1. Init => AnalyticsInv
    BY AnalyticsBegins DEF Init, FiguresInit
<1>2. AnalyticsInv /\ [Next]_mcVars => AnalyticsInv'
    BY StepsOfRecords, StepsOfFigures, AnalyticsKept
<1> QED
    BY <1>1, <1>2, PTL DEF Spec

\* AnalyticsTablesOK for every set of sailors, messages, roles and days: the tables,
\* the gateway's queue, the images and the reports keep their types.
THEOREM AnalyticsTyped == Spec => []AnalyticsTablesOK
<1>1. AnalyticsInv => AnalyticsTablesOK
    BY DEF AnalyticsInv, AnalyticsTablesOK, FiguresInv, PingsInv, WatchInv
<1> QED
    BY <1>1, AnalyticsInvariant, PTL

\* VoyageFiguresAgree for every instance: each report of the voyage figures adds up to
\* the rows in its range, whatever the bucket and however long the range, and a chart
\* taken from the cache shows the figures of the report it is attached to.
THEOREM VoyageFiguresDoAgree == Spec => []VoyageFiguresAgree
<1>1. AnalyticsInv => VoyageFiguresAgree
    BY FiguresDoAddUp DEF AnalyticsInv, VoyageFiguresAgree
<1> QED
    BY <1>1, AnalyticsInvariant, PTL

\* TrackingCountsOnce for every instance: a ping is counted once in its summary, however
\* its events are repeated, lost or late, and a chart's sizes are those last seen.
THEOREM TrackingDoesCountOnce == Spec => []TrackingCountsOnce
<1>1. AnalyticsInv => TrackingCountsOnce
    BY PingsDoCountOnce, EstimatesAreTrue DEF AnalyticsInv, TrackingCountsOnce
<1> QED
    BY <1>1, AnalyticsInvariant, PTL

\* StreaksAndWeeksAgree for every set of days: the pass of the report and the query of
\* the leaderboard find the same streaks, and the watch's windows add up.
THEOREM StreaksAndWeeksDoAgree == Spec => []StreaksAndWeeksAgree
<1>1. AnalyticsInv => StreaksAndWeeksAgree
    BY StreaksDoAgree, WeeksDoAddUp DEF AnalyticsInv, StreaksAndWeeksAgree
<1> QED
    BY <1>1, AnalyticsInvariant, PTL

allFigures == <<analyticsVars, trackingVars, streakVars, watchVars>>

\* All figures at once, with no topic a behaviour keeps to.
AllFigures ==
    /\ AnalyticsInit /\ TrackingInit /\ StreaksInit /\ WatchInit
    /\ [][/\ [AnalyticsNext]_analyticsVars /\ [PingsNext \/ SizesNext \/ PassDay]_trackingVars
          /\ [StreaksNext]_streakVars /\ [WatchNext]_watchVars]_allFigures

\* What the run asks of the figures, and of the reports in every state, whatever
\* images there are.
AllAgree ==
    /\ VoyageFiguresAgree /\ TrackingCountsOnce /\ StreaksAndWeeksAgree
    /\ \A f \in VoyageFilters : OverviewAddsUp(f) /\ SharesWithinWhole(f)
    /\ \A f \in ShipFilters : ActivityAddsUp(f)

\* The figures of voyages, pings, role sizes, streaks and the watch agree when the
\* bot logs, tracks and reports all at once; and every report adds up at every
\* moment, also while its image is cached.
THEOREM AllFiguresHold == AllFigures => []AllAgree
<1>1. AnalyticsInit /\ TrackingInit /\ StreaksInit /\ WatchInit => AnalyticsInv
    BY AnalyticsBegins
<1>2. AnalyticsInv /\ [/\ [AnalyticsNext]_analyticsVars /\ [PingsNext \/ SizesNext \/ PassDay]_trackingVars
                       /\ [StreaksNext]_streakVars /\ [WatchNext]_watchVars]_allFigures
      => AnalyticsInv'
    BY AnalyticsKept DEF allFigures
<1>3. AnalyticsInv => AllAgree
    <2> SUFFICES ASSUME AnalyticsInv
                 PROVE  AllAgree
        OBVIOUS
    <2>1. FiguresInv /\ PingsInv /\ SizesInv /\ StreaksTypeOK /\ WatchInv
        BY DEF AnalyticsInv
    <2>2. VoyageFiguresAgree /\ TrackingCountsOnce /\ StreaksAndWeeksAgree
        BY <2>1, FiguresDoAddUp, PingsDoCountOnce, EstimatesAreTrue, StreaksDoAgree, WeeksDoAddUp
           DEF VoyageFiguresAgree, TrackingCountsOnce, StreaksAndWeeksAgree
    <2> QED
        BY <2>1, <2>2, OverviewsAddUp, SharesAddUp, ActivitiesAddUp DEF AllAgree
<1> QED
    BY <1>1, <1>2, <1>3, PTL DEF AllFigures

=============================================================================
