-------------------------- MODULE TrainingRecords --------------------------
(***************************************************************************)
(* Training records: a message in a records channel is one training its    *)
(* author held.  save_training and delete_training commit the row of the   *)
(* training first and the author's points after it, each in a commit of    *)
(* its own; neither awaits anything, so only a failing statement or the    *)
(* death of the process comes between the two commits.                     *)
(*                                                                         *)
(* The live handlers store a message as it is posted and drop it as it is  *)
(* deleted.  The populate_training_records command reads the channels      *)
(* back, one after another, and pauses after every message it stored;      *)
(* several uses of it may run at once.                                     *)
(***************************************************************************)
EXTENDS Integers, Sequences, FiniteSets

CONSTANTS
    MaxTraining,   \* number of messages the records channels may receive
    Trainer,       \* Discord users
    Trainee,       \* Trainee[l]: the author of message l, credited for it
    RecordsChannel, \* RecordsChannel[l]: "nrc", "st" or a NETC training type
    NetcTypes,     \* the NETC types, legacy curriculums included
    ByBot,         \* messages written by bots
    Returned,      \* messages with the words "returned by:"
    ReadOrder,     \* the records channels, in the order the command reads them
    ReadBack,      \* messages per channel the command asks for
    Reader,        \* bounds: uses of the command,
    MaxFaults      \*   deaths of the process and failing statements

Training == 1 .. MaxTraining
Field == {"nrc", "st", "netc"} \union NetcTypes

ASSUME TrainingAssumption ==
    /\ MaxTraining \in Nat
    /\ Trainee \in [Training -> Trainer]
    /\ RecordsChannel \in [Training -> {"nrc", "st"} \union NetcTypes]
    /\ {"nrc", "st", "netc"} \intersect NetcTypes = {}
    /\ {ReadBack, MaxFaults} \subseteq Nat

VARIABLES
    trainings,      \* log_ids of table training
    trainingPoints, \* trainingPoints[s][f]: column <f>_training_points
    written,        \* messages 1..written have been posted
    erased,         \* messages that have been deleted
    listening,      \* is the bot connected?
    trainingCall,   \* the repository call in progress
    begun,          \* the uses of the command that have begun
    toRead,         \* toRead[r]: channels a use has still to read
    page,           \* page[r]: messages of the channel being read, still to do
    missed,         \* deleted messages whose deletion took no effect
    trainingFaults

trainingVars == <<trainings, trainingPoints, written, erased, listening,
                  trainingCall, begun, toRead, page, missed, trainingFaults>>

NoTraining == [op |-> "none", log |-> 0, at |-> "row"]

TrainingCalls ==
    {NoTraining} \union
        [op : {"save", "delete"}, log : Training, at : {"row", "points"}]

TrainingTypeOK ==
    /\ trainings \in SUBSET Training
    /\ trainingPoints \in [Trainer -> [Field -> Nat]]
    /\ written \in 0 .. MaxTraining
    /\ erased \in SUBSET (1 .. written)
    /\ missed \in SUBSET erased
    /\ listening \in BOOLEAN
    /\ trainingCall \in TrainingCalls
    /\ begun \in SUBSET Reader
    /\ page \in [Reader -> SUBSET (1 .. written)]
    /\ trainingFaults \in 0 .. MaxFaults

TrainingInit ==
    /\ trainings = {}
    /\ trainingPoints = [s \in Trainer |-> [f \in Field |-> 0]]
    /\ written = 0
    /\ erased = {}
    /\ listening = TRUE
    /\ trainingCall = NoTraining
    /\ begun = {}
    /\ toRead = [r \in Reader |-> <<>>]
    /\ page = [r \in Reader |-> {}]
    /\ missed = {}
    /\ trainingFaults = 0

-----------------------------------------------------------------------------
\* The columns a training counts in: security trainings in their own, those
\* of NRC in theirs, those of NETC in the total and in the one of their type.
FieldsOf(channel) ==
    IF channel \in NetcTypes THEN {"netc", channel} ELSE {channel}

\* Faulty: a deletion leaves the column of the type alone.
AdjustTotals(l, delta) ==
    [trainingPoints EXCEPT ![Trainee[l]] =
        [f \in Field |->
            IF /\ f \in FieldsOf(RecordsChannel[l]) /\ @[f] + delta >= 0
               /\ delta = -1 => f \notin NetcTypes
            THEN @[f] + delta ELSE @[f]]]

\* Faulty: nothing keeps a column from falling below zero.
AdjustUnbounded(l, delta) ==
    [trainingPoints EXCEPT ![Trainee[l]] =
        [f \in Field |-> IF f \in FieldsOf(RecordsChannel[l])
                         THEN @[f] + delta ELSE @[f]]]

\* _apply_training_delta
Adjusted(l, delta) ==
    [trainingPoints EXCEPT ![Trainee[l]] =
        [f \in Field |->
            IF f \in FieldsOf(RecordsChannel[l]) /\ @[f] + delta >= 0
            THEN @[f] + delta ELSE @[f]]]

\* process_training_record leaves these out.
Omitted(l) == RecordsChannel[l] = "nrc" /\ l \in Returned

\* save_training stores a message once; for a row that exists it raises a
\* ValueError.
ToStore(l) == ~Omitted(l) /\ l \notin trainings

CallSave(l) == trainingCall' = [op |-> "save", log |-> l, at |-> "row"]

Quiet == trainingCall = NoTraining

-----------------------------------------------------------------------------
\* A message is posted; on_message leaves out those of bots.
PostTraining ==
    /\ Quiet
    /\ written < MaxTraining
    /\ written' = written + 1
    /\ IF listening /\ written + 1 \notin ByBot /\ ToStore(written + 1)
       THEN CallSave(written + 1)
       ELSE UNCHANGED trainingCall
    /\ UNCHANGED <<trainings, trainingPoints, erased, listening, begun, toRead,
                   page, missed, trainingFaults>>

\* A message is deleted; on_raw_message_delete passes over messages that are
\* not stored.  The deletion takes no effect if the bot does not learn of it,
\* or holds the message on a page it read before.
DeleteTraining(l) ==
    /\ Quiet
    /\ l \in (1 .. written) \ erased
    /\ erased' = erased \union {l}
    /\ missed' = IF ~listening \/ \E r \in Reader : l \in page[r] THEN missed \union {l} ELSE missed
    /\ trainingCall' = IF listening /\ l \in trainings
                       THEN [op |-> "delete", log |-> l, at |-> "row"]
                       ELSE NoTraining
    /\ UNCHANGED <<trainings, trainingPoints, written, listening, begun, toRead,
                   page, trainingFaults>>

\* The first commit: the row.
CommitRow ==
    LET c == trainingCall
    IN /\ c.op # "none" /\ c.at = "row"
       /\ trainings' = IF c.op = "save" THEN trainings \union {c.log}
                       ELSE trainings \ {c.log}
       /\ trainingCall' = [c EXCEPT !.at = "points"]
       /\ UNCHANGED <<trainingPoints, written, erased, listening, begun, toRead,
                      page, missed, trainingFaults>>

\* The second commit: the points, read, changed and written back.
CommitPoints ==
    LET c == trainingCall
    IN /\ c.op # "none" /\ c.at = "points"
       /\ trainingPoints' = Adjusted(c.log, IF c.op = "save" THEN 1 ELSE -1)
       /\ trainingCall' = NoTraining
       /\ UNCHANGED <<trainings, written, erased, listening, begun, toRead, page,
                      missed, trainingFaults>>

\* A statement fails: the session rolls back, the caller reports the error.
TrainingFails ==
    /\ ~Quiet
    /\ trainingFaults < MaxFaults
    /\ trainingFaults' = trainingFaults + 1
    /\ trainingCall' = NoTraining
    /\ missed' = IF trainingCall.op = "delete" /\ trainingCall.at = "row"
                 THEN missed \union {trainingCall.log} ELSE missed
    /\ UNCHANGED <<trainings, trainingPoints, written, erased, listening, begun,
                   toRead, page>>

TrainingCrash ==
    /\ listening
    /\ trainingFaults < MaxFaults
    /\ trainingFaults' = trainingFaults + 1
    /\ listening' = FALSE
    /\ trainingCall' = NoTraining
    /\ toRead' = [r \in Reader |-> <<>>]
    /\ page' = [r \in Reader |-> {}]
    /\ missed' = IF trainingCall.op = "delete" /\ trainingCall.at = "row"
                 THEN missed \union {trainingCall.log} ELSE missed
    /\ UNCHANGED <<trainings, trainingPoints, written, erased, begun>>

TrainingRestart ==
    /\ ~listening
    /\ listening' = TRUE
    /\ UNCHANGED <<trainings, trainingPoints, written, erased, trainingCall,
                   begun, toRead, page, missed, trainingFaults>>

-----------------------------------------------------------------------------
(***************************************************************************)
(* populate_training_records: the NRC channel, then those of NETC, then    *)
(* the one of SPD, of those the command was told to read.                  *)
(***************************************************************************)
Department(channel) == IF channel \in NetcTypes THEN "netc" ELSE channel

Populate(r, chosen) ==
    /\ listening /\ Quiet /\ r \notin begun
    /\ begun' = begun \union {r}
    /\ toRead' = [toRead EXCEPT ![r] = SelectSeq(ReadOrder, LAMBDA c : Department(c) \in chosen)]
    /\ UNCHANGED <<trainings, trainingPoints, written, erased, listening,
                   trainingCall, page, missed, trainingFaults>>

\* Discord answers with the newest messages of the next channel.
ReadChannel(r) ==
    LET there == {l \in (1 .. written) \ erased : RecordsChannel[l] = Head(toRead[r])}
    IN /\ Quiet
       /\ page[r] = {} /\ toRead[r] # <<>>
       /\ page' = [page EXCEPT ![r] = {l \in there : Cardinality({k \in there : k > l}) < ReadBack}]
       /\ toRead' = [toRead EXCEPT ![r] = Tail(@)]
       /\ UNCHANGED <<trainings, trainingPoints, written, erased, listening,
                      trainingCall, begun, missed, trainingFaults>>

\* The newest message on the page that is not stored yet: messages that are
\* passed over cost no pause.  Bots are not left out.
ReadMessage(r) ==
    LET open == {l \in page[r] : ToStore(l)}
    IN /\ Quiet
       /\ page[r] # {}
       /\ IF open = {}
          THEN page' = [page EXCEPT ![r] = {}] /\ UNCHANGED trainingCall
          ELSE \E l \in open :
                 /\ \A k \in open : k <= l
                 /\ page' = [page EXCEPT ![r] = {k \in page[r] : k < l}]
                 /\ CallSave(l)
       /\ UNCHANGED <<trainings, trainingPoints, written, erased, listening,
                      begun, toRead, missed, trainingFaults>>

TrainingNext ==
    \/ PostTraining
    \/ \E l \in Training : DeleteTraining(l)
    \/ CommitRow
    \/ CommitPoints
    \/ TrainingFails
    \/ TrainingCrash
    \/ TrainingRestart
    \/ \E r \in Reader :
         \/ \E chosen \in SUBSET {"nrc", "netc", "st"} : Populate(r, chosen)
         \/ ReadChannel(r)
         \/ ReadMessage(r)

-----------------------------------------------------------------------------
TrainingsOf(s, f) ==
    {l \in trainings : Trainee[l] = s /\ f \in FieldsOf(RecordsChannel[l])}

\* A trainer's points of each kind are the number of trainings stored for
\* them, whatever mixture of live messages, deletions and read-backs stored
\* them; each failure between the two commits of save_training or
\* delete_training costs at most one point.
TrainingDriftBounded ==
    Quiet => \A s \in Trainer, f \in Field :
        LET rows == Cardinality(TrainingsOf(s, f))
        IN /\ trainingPoints[s][f] <= rows + trainingFaults
           /\ rows <= trainingPoints[s][f] + trainingFaults

\* A deleted message has no training, unless its deletion was missed: the
\* command that reads a channel back stores again what was deleted while it
\* held the page, and nothing else does.
NoGhostTrainings ==
    Quiet => trainings \intersect erased \subseteq missed

=============================================================================
