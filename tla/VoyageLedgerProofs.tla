------------------------- MODULE VoyageLedgerProofs -------------------------
(***************************************************************************)
(* Theorems about the voyage ledger, for any number of logs, sailors,      *)
(* subclasses and coroutines, and any bounds on what users and failures    *)
(* do.                                                                     *)
(*                                                                         *)
(* The proofs go by what a step does to the tables (TableStep): every      *)
(* handler records one log, removes one log, changes subclass rows of one  *)
(* log, or leaves the tables alone.  The lemmas of LedgerTablesProofs say  *)
(* what each of these preserves.                                           *)
(***************************************************************************)
EXTENDS VoyageLedger, LedgerTablesProofs

\* What makes the types inductive: a coroutine that is going to write the
\* tables has a log, which is not the 0 of an idle slot.
WorksOnLog ==
    \A t \in Task :
        task[t].at \in {"edit", "refetch", "resume", "delete", "view",
                        "confirm"}
            => task[t].log \in Log

\* What a step may do to the tables.
Recorded(l, mentions, seen) ==
    /\ ProcessVoyageLog(l, mentions, seen)
    /\ \/ UNCHANGED subclassTables
       \/ \E rows \in SUBSET Row : SaveSubclasses(l, rows)

TableStep ==
    \/ \E l \in Log, mentions \in SUBSET Sailor, seen \in SUBSET Log :
            Recorded(l, mentions, seen)
    \/ \E l \in Log : RemoveVoyageLogData(l)
    \/ \E l \in Log : DeleteAllSubclasses(l) /\ UNCHANGED voyageTables
    \/ \E t \in Task : Confirm(t)
    \/ UNCHANGED tables

-----------------------------------------------------------------------------
(***************************************************************************)
(* Every step is a TableStep.                                              *)
(***************************************************************************)
LEMMA PostTables ==
    ASSUME TypeOK, NEW m \in Mentions, Post(m)
    PROVE  TableStep
<1>1. posted + 1 \in Log
    BY LedgerAssumption DEF Post, TypeOK, Log
<1>2. m \in SUBSET Sailor /\ hosted \in SUBSET Log
    BY VoyageLedgerAssumption DEF TypeOK, TablesTypeOK
<1>3. CASE online /\ posted + 1 \notin BotLogs
    BY <1>1, <1>2, <1>3 DEF Post, TableStep, Recorded
<1>4. CASE ~(online /\ posted + 1 \notin BotLogs)
    BY <1>4 DEF Post, TableStep, tables, voyageTables, subclassTables
<1> QED
    BY <1>3, <1>4

LEMMA SeenIsLogs ==
    ASSUME TypeOK, NEW snap \in SUBSET SUBSET Log
    PROVE  Visible(snap) \in SUBSET Log
BY DEF Visible, TypeOK, TablesTypeOK

LEMMA ResumeTables ==
    ASSUME TypeOK, WorksOnLog, NEW t \in Task, Resume(t)
    PROVE  TableStep
<1> DEFINE c == task[t]
<1>1. /\ c \in TaskRecord
      /\ c.log \in Log
      /\ c.mentions \in SUBSET Sailor
      /\ c.rows \in SUBSET Row
    BY DEF TypeOK, WorksOnLog, Resume, TaskRecord
<1>2. Visible(snapshot) \in SUBSET Log
    BY SeenIsLogs DEF TypeOK
<1>3. ProcessVoyageLog(c.log, c.mentions, Visible(snapshot))
    BY DEF Resume
<1>4. PICK rows \in SUBSET c.rows : SaveSubclasses(c.log, rows)
    BY DEF Resume, SaveAgain
<1> QED
    BY <1>1, <1>2, <1>3, <1>4 DEF TableStep, Recorded

LEMMA BackfillTables ==
    ASSUME TypeOK, NEW t \in Task, Backfill(t)
    PROVE  TableStep
<1>1. PICK p \in task[t].history :
            ProcessVoyageLog(p[1], p[2], Visible(task[t].seen))
    BY DEF Backfill
<1>2. task[t] \in TaskRecord
    BY DEF TypeOK
<1>3. p[1] \in Log /\ p[2] \in SUBSET Sailor
    BY <1>1, <1>2 DEF TaskRecord
<1>4. Visible(task[t].seen) \in SUBSET Log
    BY <1>2, SeenIsLogs DEF TaskRecord
<1> QED
    BY <1>1, <1>3, <1>4 DEF Backfill, TableStep, Recorded

LEMMA NextTables ==
    ASSUME TypeOK, WorksOnLog, [Next]_vars
    PROVE  TableStep
<1>1. CASE Users
    <2>1. ASSUME NEW m \in Mentions, Post(m)
          PROVE  TableStep
        BY <2>1, PostTables
    <2>2. ASSUME NEW l \in Log, NEW m \in Mentions, Edit(l, m)
          PROVE  TableStep
        BY <2>2 DEF Edit, TableStep
    <2>3. ASSUME NEW l \in Log, Delete(l)
          PROVE  TableStep
        BY <2>3 DEF Delete, TableStep
    <2> QED
        BY <1>1, <2>1, <2>2, <2>3 DEF Users
<1>2. CASE Console
    BY <1>2 DEF Console, Initialize, DeleteData, DeleteSubclasses, TableStep
<1>3. CASE Officers
    BY <1>3 DEF Officers, AddSubclass, Cancel, ConfirmFetched, TableStep
<1>4. CASE Ready \/ Crash
    BY <1>4 DEF Ready, Crash, TableStep
<1>5. ASSUME NEW t \in Task, Handlers(t) \/ RequestFails(t)
      PROVE  TableStep
    <2>1. CASE EditFetched(t) \/ DeleteFetched(t)
        BY <2>1 DEF EditFetched, DeleteFetched, WorksOnLog, TableStep
    <2>2. CASE Resume(t)
        BY <2>2, ResumeTables
    <2>3. CASE Backfill(t)
        BY <2>3, BackfillTables
    <2>4. CASE Refetched(t) \/ HistoryFetched(t) \/ RequestFails(t)
        BY <2>4 DEF Refetched, HistoryFetched, RequestFails, TableStep
    <2> QED
        BY <1>5, <2>1, <2>2, <2>3, <2>4 DEF Handlers
<1>6. CASE UNCHANGED vars
    BY <1>6 DEF vars, TableStep
<1> QED
    BY <1>1, <1>2, <1>3, <1>4, <1>5, <1>6 DEF Next

-----------------------------------------------------------------------------
(***************************************************************************)
(* Types.                                                                  *)
(***************************************************************************)
LEMMA ConfirmTypes ==
    ASSUME TypeOK, NEW t \in Task, Confirm(t)
    PROVE  SubclassTypes'
<1> DEFINE c == task[t]
<1>1. c \in TaskRecord /\ c.rows \in SUBSET Row
    BY DEF TypeOK, TaskRecord
<1>2. SubclassTypes
    BY TypesSplit DEF TypeOK
<1>3. PICK taken :
        LET left == Decrement(points, taken)
        IN IF c.log \in hosted
           THEN /\ points' = Increment(left, c.rows)
                /\ subclasses' = [subclasses EXCEPT
                        ![c.log] = (@ \ RowsOf(@, c.gone \union Named(c.rows)))
                                    \union c.rows]
           ELSE points' = left /\ UNCHANGED subclasses
    BY DEF Confirm
<1>4. Decrement(points, taken) \in [Row -> Nat]
    BY <1>2, CounterTypes DEF SubclassTypes
<1>5. points' \in [Row -> Nat]
    BY <1>3, <1>4, CounterTypes
<1>6. subclasses' \in [Log -> SUBSET Row]
    BY <1>1, <1>2, <1>3 DEF SubclassTypes
<1> QED
    BY <1>5, <1>6 DEF SubclassTypes

LEMMA TableStepTypes ==
    ASSUME TypeOK, TableStep
    PROVE  TablesTypeOK'
<1>1. VoyageTypes /\ SubclassTypes
    BY TypesSplit DEF TypeOK
<1>2. ASSUME NEW l \in Log, NEW mentions \in SUBSET Sailor,
             NEW seen \in SUBSET Log, Recorded(l, mentions, seen)
      PROVE  VoyageTypes' /\ SubclassTypes'
    <2>1. VoyageTypes'
        BY <1>1, <1>2, ProcessTypes DEF Recorded
    <2>2. CASE UNCHANGED subclassTables
        BY <1>1, <2>1, <2>2 DEF SubclassTypes, subclassTables
    <2>3. ASSUME NEW rows \in SUBSET Row, SaveSubclasses(l, rows)
          PROVE  SubclassTypes'
        BY <1>1, <2>3, SaveTypes
    <2> QED
        BY <1>2, <2>1, <2>2, <2>3 DEF Recorded
<1>3. ASSUME NEW l \in Log, RemoveVoyageLogData(l)
      PROVE  VoyageTypes' /\ SubclassTypes'
    BY <1>1, <1>3, RemoveTypes
<1>4. ASSUME NEW l \in Log, DeleteAllSubclasses(l), UNCHANGED voyageTables
      PROVE  VoyageTypes' /\ SubclassTypes'
    BY <1>1, <1>4, DeleteAllTypes DEF VoyageTypes, voyageTables
<1>5. ASSUME NEW t \in Task, Confirm(t)
      PROVE  VoyageTypes' /\ SubclassTypes'
    BY <1>1, <1>5, ConfirmTypes DEF Confirm, VoyageTypes, voyageTables
<1>6. ASSUME UNCHANGED tables
      PROVE  VoyageTypes' /\ SubclassTypes'
    BY <1>1, <1>6 DEF VoyageTypes, SubclassTypes, tables
<1>7. VoyageTypes' /\ SubclassTypes'
    BY <1>2, <1>3, <1>4, <1>5, <1>6 DEF TableStep
<1> QED
    BY <1>7 DEF TablesTypeOK, VoyageTypes, SubclassTypes

\* The part of TypeOK that is not about the tables, with WorksOnLog.
ControlTypes ==
    /\ posted \in 0 .. MaxLog
    /\ content \in [Log -> Mentions \union {{}}]
    /\ deleted \in SUBSET Log
    /\ online \in BOOLEAN
    /\ task \in [Task -> TaskRecord]
    /\ snapshot \in SUBSET SUBSET Log
    /\ used \in [Budgets -> Nat]
    /\ WorksOnLog

LEMMA IdleType == Idle \in TaskRecord /\ Idle.at = "idle"
BY DEF Idle, TaskRecord, Awaits

\* A coroutine starts, ends, or goes on with a record that is well typed.
LEMMA TaskChanges ==
    ASSUME task \in [Task -> TaskRecord], WorksOnLog, NEW t \in Task,
           NEW c \in TaskRecord, task' = [task EXCEPT ![t] = c],
           c.at \in {"edit", "refetch", "resume", "delete", "view", "confirm"}
               => c.log \in Log
    PROVE  task' \in [Task -> TaskRecord] /\ WorksOnLog'
BY DEF WorksOnLog

LEMMA FinishTypes ==
    ASSUME task \in [Task -> TaskRecord], WorksOnLog, NEW t \in Task,
           Finish(t)
    PROVE  task' \in [Task -> TaskRecord] /\ WorksOnLog'
BY IdleType, TaskChanges DEF Finish

LEMMA SpendTypes ==
    ASSUME used \in [Budgets -> Nat], NEW kind \in Budgets, NEW limit,
           Spend(kind, limit)
    PROVE  used' \in [Budgets -> Nat]
BY DEF Spend

LEMMA SessionTypes ==
    ASSUME TypeOK, NEW l, NEW mentions, NEW snap \in SUBSET SUBSET Log
    PROVE  SessionAfter(l, mentions, snap) \in SUBSET SUBSET Log
BY SeenIsLogs DEF SessionAfter

LEMMA UsersTypes ==
    ASSUME TypeOK, WorksOnLog, Users
    PROVE  ControlTypes'
<1>1. ASSUME NEW m \in Mentions, Post(m)
      PROVE  ControlTypes'
    BY <1>1, LedgerAssumption DEF Post, TypeOK, ControlTypes, WorksOnLog, Log
<1>2. ASSUME NEW kind \in {"edit", "delete"}, NEW l \in Log, Event(kind, l)
      PROVE  task' \in [Task -> TaskRecord] /\ WorksOnLog'
    <2>1. CASE online
        <3>1. PICK t \in Task :
                Begin(t, [Idle EXCEPT !.at = kind, !.log = l])
            BY <1>2, <2>1 DEF Event
        <3>2. [Idle EXCEPT !.at = kind, !.log = l] \in TaskRecord
            BY DEF Idle, TaskRecord, Awaits
        <3>3. [Idle EXCEPT !.at = kind, !.log = l].log = l
            BY DEF Idle
        <3> QED
            BY <3>1, <3>2, <3>3, TaskChanges DEF Begin, TypeOK
    <2>2. CASE ~online
        BY <1>2, <2>2 DEF Event, TypeOK, WorksOnLog
    <2> QED
        BY <2>1, <2>2
<1>3. ASSUME NEW l \in Log, NEW m \in Mentions, Edit(l, m)
      PROVE  ControlTypes'
    <2>1. task' \in [Task -> TaskRecord] /\ WorksOnLog'
        BY <1>2, <1>3 DEF Edit
    <2>2. used' \in [Budgets -> Nat]
        BY <1>3, SpendTypes DEF Edit, TypeOK, Budgets
    <2> QED
        BY <1>3, <2>1, <2>2 DEF Edit, TypeOK, ControlTypes
<1>4. ASSUME NEW l \in Log, Delete(l)
      PROVE  ControlTypes'
    <2>1. task' \in [Task -> TaskRecord] /\ WorksOnLog'
        BY <1>2, <1>4 DEF Delete
    <2> QED
        BY <1>4, <2>1 DEF Delete, TypeOK, ControlTypes
<1> QED
    BY <1>1, <1>3, <1>4 DEF Users

LEMMA ConsoleTypes ==
    ASSUME TypeOK, WorksOnLog, Console
    PROVE  ControlTypes'
<1>1. ASSUME NEW l \in Log, Initialize(l)
      PROVE  ControlTypes'
    <2>1. PICK t \in Task :
            Begin(t, [Idle EXCEPT !.at = "refetch", !.log = l])
        BY <1>1 DEF Initialize
    <2>2. /\ [Idle EXCEPT !.at = "refetch", !.log = l] \in TaskRecord
          /\ [Idle EXCEPT !.at = "refetch", !.log = l].log = l
        BY DEF Idle, TaskRecord, Awaits
    <2>3. task' \in [Task -> TaskRecord] /\ WorksOnLog'
        BY <2>1, <2>2, TaskChanges DEF Begin, TypeOK
    <2>4. used' \in [Budgets -> Nat]
        BY <1>1, SpendTypes DEF Initialize, TypeOK, Budgets
    <2> QED
        BY <1>1, <2>3, <2>4 DEF Initialize, discord, TypeOK, ControlTypes
<1>2. ASSUME NEW l \in Log, DeleteData(l) \/ DeleteSubclasses(l)
      PROVE  ControlTypes'
    <2>1. used' \in [Budgets -> Nat]
        BY <1>2, SpendTypes DEF DeleteData, DeleteSubclasses, TypeOK, Budgets
    <2> QED
        BY <1>2, <2>1 DEF DeleteData, DeleteSubclasses, discord, TypeOK,
           ControlTypes, WorksOnLog
<1> QED
    BY <1>1, <1>2 DEF Console

LEMMA OfficersTypes ==
    ASSUME TypeOK, WorksOnLog, Officers
    PROVE  ControlTypes'
<1>1. ASSUME NEW l \in Log, NEW rows \in Wanted(l), AddSubclass(l, rows)
      PROVE  ControlTypes'
    <2> DEFINE updated == {s \in Named(rows) :
                            RowsOf(rows, {s}) # RowsOf(subclasses[l], {s})}
               missing == Named(subclasses[l]) \ Named(rows)
               view == [Idle EXCEPT !.at = "view", !.log = l,
                                    !.rows = RowsOf(rows, updated),
                                    !.gone = missing,
                                    !.kept = subclasses[l]]
    <2>1. /\ RowsOf(rows, updated) \in SUBSET Row
          /\ subclasses[l] \in SUBSET Row
        BY DEF Wanted, RowsOf, TypeOK, TablesTypeOK
    <2>2. missing \in SUBSET Sailor
        BY <2>1 DEF Named, Row
    <2>3. view \in TaskRecord /\ view.log = l
        BY <2>1, <2>2 DEF Idle, TaskRecord, Awaits
    <2>4. PICK t \in Task : Begin(t, view)
        BY <1>1 DEF AddSubclass
    <2>5. task' \in [Task -> TaskRecord] /\ WorksOnLog'
        BY <2>3, <2>4, TaskChanges DEF Begin, TypeOK
    <2>6. used' \in [Budgets -> Nat]
        BY <1>1, SpendTypes DEF AddSubclass, TypeOK, Budgets
    <2> QED
        BY <1>1, <2>5, <2>6 DEF AddSubclass, discord, TypeOK, ControlTypes
<1>2. ASSUME NEW t \in Task, Cancel(t) \/ Confirm(t)
      PROVE  ControlTypes'
    <2>1. task' \in [Task -> TaskRecord] /\ WorksOnLog'
        BY <1>2, FinishTypes DEF Cancel, Confirm, TypeOK
    <2> QED
        BY <1>2, <2>1 DEF Cancel, Confirm, discord, TypeOK, ControlTypes
<1>3. ASSUME NEW t \in Task, ConfirmFetched(t)
      PROVE  ControlTypes'
    <2>1. task' \in [Task -> TaskRecord] /\ WorksOnLog'
        BY <1>3 DEF ConfirmFetched, TypeOK, WorksOnLog, TaskRecord, Awaits
    <2> QED
        BY <1>3, <2>1 DEF ConfirmFetched, discord, TypeOK, ControlTypes
<1> QED
    BY <1>1, <1>2, <1>3 DEF Officers

LEMMA StartTypes ==
    ASSUME TypeOK, WorksOnLog, Ready \/ Crash
    PROVE  ControlTypes'
<1>1. CASE Ready
    <2>1. PICK t \in Task : Begin(t, [Idle EXCEPT !.at = "connect"])
        BY <1>1 DEF Ready
    <2>2. /\ [Idle EXCEPT !.at = "connect"] \in TaskRecord
          /\ [Idle EXCEPT !.at = "connect"].at = "connect"
        BY DEF Idle, TaskRecord, Awaits
    <2>3. task' \in [Task -> TaskRecord] /\ WorksOnLog'
        BY <2>1, <2>2, TaskChanges DEF Begin, TypeOK
    <2>4. used' \in [Budgets -> Nat]
        BY <1>1, SpendTypes DEF Ready, TypeOK, Budgets
    <2> QED
        BY <1>1, <2>3, <2>4 DEF Ready, discord, TypeOK, ControlTypes
<1>2. CASE Crash
    <2>1. task' \in [Task -> TaskRecord] /\ WorksOnLog'
        BY <1>2, IdleType DEF Crash, WorksOnLog
    <2>2. used' \in [Budgets -> Nat]
        BY <1>2, SpendTypes DEF Crash, TypeOK, Budgets
    <2> QED
        BY <1>2, <2>1, <2>2 DEF Crash, discord, TypeOK, ControlTypes
<1> QED
    BY <1>1, <1>2

LEMMA HandlersTypes ==
    ASSUME TypeOK, WorksOnLog, NEW t \in Task, Handlers(t) \/ RequestFails(t)
    PROVE  ControlTypes'
<1>1. task[t] \in TaskRecord /\ task \in [Task -> TaskRecord]
    BY DEF TypeOK
<1>2. CASE EditFetched(t)
    <2>1. task' \in [Task -> TaskRecord] /\ WorksOnLog'
        <3> DEFINE l == task[t].log
                   c == [task[t] EXCEPT !.at = "refetch",
                            !.rows = ParticipantRows(l),
                            !.kept = IF voyages[l] = {} THEN {}
                                                        ELSE OtherRows(l)]
        <3>1. l \in Log
            BY <1>2 DEF EditFetched, WorksOnLog
        <3>2. ParticipantRows(l) \in SUBSET Row /\ OtherRows(l) \in SUBSET Row
            BY <3>1 DEF ParticipantRows, OtherRows, RowsOf, TypeOK,
               TablesTypeOK
        <3>3. c \in TaskRecord /\ c.log = l
            BY <1>1, <3>2 DEF TaskRecord, Awaits
        <3>4. \/ Finish(t)
              \/ task' = [task EXCEPT ![t] = c]
            BY <1>1, <1>2 DEF EditFetched
        <3> QED
            BY <1>1, <3>1, <3>3, <3>4, FinishTypes, TaskChanges
    <2> QED
        BY <1>2, <2>1 DEF EditFetched, discord, TypeOK, ControlTypes
<1>3. CASE Refetched(t)
    <2>1. task' \in [Task -> TaskRecord] /\ WorksOnLog'
        <3> DEFINE l == task[t].log
                   c == [task[t] EXCEPT !.at = "resume",
                                        !.mentions = content[l]]
        <3>1. l \in Log
            BY <1>3 DEF Refetched, WorksOnLog
        <3>2. content[l] \in SUBSET Sailor
            BY <3>1, VoyageLedgerAssumption DEF TypeOK
        <3>3. c \in TaskRecord /\ c.log = l
            BY <1>1, <3>2 DEF TaskRecord, Awaits
        <3>4. \/ Finish(t)
              \/ task' = [task EXCEPT ![t] = c]
            BY <1>1, <1>3 DEF Refetched
        <3> QED
            BY <1>1, <3>1, <3>3, <3>4, FinishTypes, TaskChanges
    <2> QED
        BY <1>3, <2>1 DEF Refetched, discord, TypeOK, ControlTypes
<1>4. CASE Resume(t)
    <2>1. task' \in [Task -> TaskRecord] /\ WorksOnLog'
        BY <1>1, <1>4, FinishTypes DEF Resume
    <2>2. snapshot' \in SUBSET SUBSET Log
        BY <1>4, SessionTypes DEF Resume, TypeOK
    <2> QED
        BY <1>4, <2>1, <2>2 DEF Resume, discord, TypeOK, ControlTypes
<1>5. CASE DeleteFetched(t) \/ RequestFails(t)
    <2>1. task' \in [Task -> TaskRecord] /\ WorksOnLog'
        BY <1>1, <1>5, FinishTypes DEF DeleteFetched, RequestFails
    <2>2. used' \in [Budgets -> Nat]
        BY <1>5, SpendTypes DEF DeleteFetched, RequestFails, TypeOK, Budgets
    <2> QED
        BY <1>5, <2>1, <2>2 DEF DeleteFetched, RequestFails, discord, TypeOK,
           ControlTypes
<1>6. CASE HistoryFetched(t)
    <2>1. task' \in [Task -> TaskRecord] /\ WorksOnLog'
        <3> DEFINE page == {<<l, content[l]>> : l \in Newest(Alive)}
                   c == [task[t] EXCEPT !.at = "page", !.history = page]
        <3>1. Newest(Alive) \subseteq Log
            BY LedgerAssumption DEF Newest, Alive, Log, TypeOK
        <3>2. page \in SUBSET (Log \X SUBSET Sailor)
            BY <3>1, VoyageLedgerAssumption DEF TypeOK
        <3>3. c \in TaskRecord /\ c.at = "page"
            BY <1>1, <3>2 DEF TaskRecord, Awaits
        <3>4. \/ Finish(t)
              \/ task' = [task EXCEPT ![t] = c]
            BY <1>1, <1>6 DEF HistoryFetched
        <3> QED
            BY <1>1, <3>3, <3>4, FinishTypes, TaskChanges
    <2> QED
        BY <1>6, <2>1 DEF HistoryFetched, discord, TypeOK, ControlTypes
<1>7. CASE Backfill(t)
    <2>1. task' \in [Task -> TaskRecord] /\ WorksOnLog'
        <3>1. PICK p \in task[t].history :
                \/ Finish(t)
                \/ task' = [task EXCEPT
                        ![t].history = @ \ {p},
                        ![t].seen = SessionAfter(p[1], p[2], @)]
            BY <1>7 DEF Backfill
        <3> DEFINE c == [task[t] EXCEPT
                            !.history = @ \ {p},
                            !.seen = SessionAfter(p[1], p[2], @)]
        <3>2. SessionAfter(p[1], p[2], task[t].seen) \in SUBSET SUBSET Log
            BY <1>1, SessionTypes DEF TaskRecord
        <3>3. c \in TaskRecord /\ c.at = "page"
            BY <1>1, <1>7, <3>2 DEF TaskRecord, Backfill
        <3>4. \/ Finish(t)
              \/ task' = [task EXCEPT ![t] = c]
            BY <1>1, <3>1
        <3> QED
            BY <1>1, <3>3, <3>4, FinishTypes, TaskChanges
    <2> QED
        BY <1>7, <2>1 DEF Backfill, discord, TypeOK, ControlTypes
<1> QED
    BY <1>2, <1>3, <1>4, <1>5, <1>6, <1>7 DEF Handlers

LEMMA TypesPreserved ==
    ASSUME TypeOK, WorksOnLog, [Next]_vars
    PROVE  TypeOK' /\ WorksOnLog'
<1>1. TablesTypeOK'
    BY NextTables, TableStepTypes
<1>2. ControlTypes'
    <2>1. CASE UNCHANGED vars
        BY <2>1 DEF vars, discord, TypeOK, ControlTypes, WorksOnLog
    <2> QED
        BY <2>1, UsersTypes, ConsoleTypes, OfficersTypes, StartTypes,
           HandlersTypes DEF Next
<1> QED
    BY <1>1, <1>2 DEF ControlTypes, TypeOK

LEMMA TypesInitially == Init => TypeOK /\ WorksOnLog
<1> SUFFICES ASSUME Init
             PROVE  TypeOK /\ WorksOnLog
    OBVIOUS
<1>1. TablesTypeOK
    BY DEF Init, TablesInit, TablesTypeOK
<1>2. ControlTypes
    <2>1. posted \in 0 .. MaxLog /\ content \in [Log -> Mentions \union {{}}]
        BY LedgerAssumption DEF Init
    <2>2. task \in [Task -> TaskRecord] /\ WorksOnLog
        BY IdleType DEF Init, WorksOnLog
    <2>3. /\ deleted \in SUBSET Log
          /\ online \in BOOLEAN
          /\ snapshot \in SUBSET SUBSET Log
          /\ used \in [Budgets -> Nat]
        BY DEF Init
    <2> QED
        BY <2>1, <2>2, <2>3 DEF ControlTypes
<1> QED
    BY <1>1, <1>2 DEF TypeOK, ControlTypes

\* The tables and the coroutines in flight keep their types: in particular
\* no counter becomes negative and no coroutine works on a log that does not
\* exist.
THEOREM TypeCorrect == Spec => [](TypeOK /\ WorksOnLog)
<1>1. Init => TypeOK /\ WorksOnLog
    BY TypesInitially
<1>2. TypeOK /\ WorksOnLog /\ [Next]_vars => TypeOK' /\ WorksOnLog'
    BY TypesPreserved
<1> QED
    BY <1>1, <1>2, PTL DEF Spec

-----------------------------------------------------------------------------
(***************************************************************************)
(* The counters and the foreign keys.                                      *)
(***************************************************************************)
LedgerInv ==
    /\ TypeOK
    /\ WorksOnLog
    /\ ForeignKeys
    /\ VoyageCountMatches
    /\ HostedNeverOverstated

LEMMA LedgerInitially == Init => LedgerInv
<1> SUFFICES ASSUME Init
             PROVE  LedgerInv
    OBVIOUS
<1>1. TypeOK /\ WorksOnLog
    BY TypesInitially
<1>2. ForeignKeys
    BY DEF Init, TablesInit, ForeignKeys
<1>3. VoyageCountMatches
    <2>1. \A s \in Sailor : VoyagesOf(s) = {} /\ voyageCount[s] = 0
        BY DEF Init, TablesInit, VoyagesOf
    <2> QED
        BY <2>1, FS_EmptySet DEF VoyageCountMatches
<1>4. HostedNeverOverstated
    <2>1. \A s \in Sailor : HostedBy(s) = {} /\ hostedCount[s] = 0
        BY DEF Init, TablesInit, HostedBy
    <2> QED
        BY <2>1, FS_EmptySet DEF HostedNeverOverstated
<1> QED
    BY <1>1, <1>2, <1>3, <1>4 DEF LedgerInv

LEMMA CountersPreserved ==
    ASSUME LedgerInv, TableStep
    PROVE  CountersOK'
<1>1. CountersOK /\ VoyageTypes /\ SubclassTypes
    BY TypesSplit DEF LedgerInv, TypeOK, CountersOK
<1>2. ASSUME NEW l \in Log, NEW mentions \in SUBSET Sailor,
             NEW seen \in SUBSET Log, Recorded(l, mentions, seen)
      PROVE  CountersOK'
    BY <1>1, <1>2, ProcessCounters DEF Recorded
<1>3. ASSUME NEW l \in Log, RemoveVoyageLogData(l)
      PROVE  CountersOK'
    BY <1>1, <1>3, RemoveCounters
<1>4. ASSUME UNCHANGED voyageTables
      PROVE  CountersOK'
    BY <1>1, <1>4 DEF voyageTables, CountersOK, VoyageTypes,
       VoyageCountMatches, VoyagesOf, HostedNeverOverstated, HostedBy
<1> QED
    BY <1>2, <1>3, <1>4 DEF TableStep, Confirm, tables, voyageTables

LEMMA KeysPreserved ==
    ASSUME LedgerInv, TableStep
    PROVE  ForeignKeys'
<1>1. VoyageTypes /\ SubclassTypes /\ ForeignKeys
    BY TypesSplit DEF LedgerInv, TypeOK
<1>2. ASSUME NEW l \in Log, NEW mentions \in SUBSET Sailor,
             NEW seen \in SUBSET Log, Recorded(l, mentions, seen)
      PROVE  ForeignKeys'
    <2>1. CASE UNCHANGED subclassTables
        BY <1>1, <1>2, <2>1, ProcessKeys DEF Recorded, subclassTables
    <2>2. ASSUME NEW rows \in SUBSET Row, SaveSubclasses(l, rows)
          PROVE  ForeignKeys'
        BY <1>1, <1>2, <2>2, ProcessSaveKeys DEF Recorded
    <2> QED
        BY <1>2, <2>1, <2>2 DEF Recorded
<1>3. ASSUME NEW l \in Log, RemoveVoyageLogData(l)
      PROVE  ForeignKeys'
    BY <1>1, <1>3, RemoveKeys
<1>4. ASSUME NEW l \in Log, DeleteAllSubclasses(l), UNCHANGED voyageTables
      PROVE  ForeignKeys'
    BY <1>1, <1>4 DEF DeleteAllSubclasses, ForeignKeys, SubclassTypes,
       voyageTables
<1>5. ASSUME NEW t \in Task, Confirm(t)
      PROVE  ForeignKeys'
    <2>1. UNCHANGED voyageTables
        BY <1>5 DEF Confirm
    <2>2. \/ subclasses' = subclasses
          \/ /\ task[t].log \in hosted
             /\ \E rows : subclasses' =
                    [subclasses EXCEPT ![task[t].log] = rows]
        BY <1>5 DEF Confirm
    <2> QED
        BY <1>1, <2>1, <2>2 DEF ForeignKeys, SubclassTypes, voyageTables
<1>6. CASE UNCHANGED tables
    BY <1>1, <1>6 DEF ForeignKeys, tables
<1> QED
    BY <1>2, <1>3, <1>4, <1>5, <1>6 DEF TableStep

THEOREM LedgerInvariant == Spec => []LedgerInv
<1>1. Init => LedgerInv
    BY LedgerInitially
<1>2. LedgerInv /\ [Next]_vars => LedgerInv'
    BY NextTables, TypesPreserved, CountersPreserved, KeysPreserved
       DEF LedgerInv, CountersOK
<1> QED
    BY <1>1, <1>2, PTL DEF Spec

\* A sailor's voyage_count is at every moment the number of logs the sailor
\* has a row for.
THEOREM VoyageCountCorrect == Spec => []VoyageCountMatches
<1>1. LedgerInv => VoyageCountMatches
    BY DEF LedgerInv
<1> QED
    BY <1>1, LedgerInvariant, PTL

\* A host's hosted_count never exceeds the number of hosted rows, which is
\* all that is left of their equality once /addsubclass and edits meet.
THEOREM HostedCountBounded == Spec => []HostedNeverOverstated
<1>1. LedgerInv => HostedNeverOverstated
    BY DEF LedgerInv
<1> QED
    BY <1>1, LedgerInvariant, PTL

-----------------------------------------------------------------------------
(***************************************************************************)
(* Subclass rows come from /addsubclass alone: as long as it is not used    *)
(* there are none, in the table or in the hands of a coroutine.            *)
(***************************************************************************)
NoSubclasses ==
    /\ \A l \in Log : subclasses[l] = {}
    /\ \A t \in Task : task[t].rows = {} /\ task[t].at \notin {"view", "confirm"}

RowlessInv == LedgerInv /\ (used.views = 0 => NoSubclasses)

\* Without subclass rows there are none to take back or to save again.
LEMMA RemovesNone ==
    ASSUME SubclassTypes, \A k \in Log : subclasses[k] = {}, NEW l \in Log,
           RemoveVoyageLogData(l) \/ DeleteAllSubclasses(l)
    PROVE  \A k \in Log : subclasses'[k] = {}
BY DEF RemoveVoyageLogData, DeleteAllSubclasses, OtherRows, ParticipantRows, tables, SubclassTypes

LEMMA SavesNone ==
    ASSUME SubclassTypes, \A k \in Log : subclasses[k] = {}, NEW l \in Log,
           SaveSubclasses(l, {})
    PROVE  \A k \in Log : subclasses'[k] = {}
BY DEF SaveSubclasses, SubclassTypes

\* A coroutine that holds no rows goes on, or ends.
LEMMA HoldsNone ==
    ASSUME task \in [Task -> TaskRecord],
           \A o \in Task : task[o].rows = {} /\ task[o].at \notin {"view", "confirm"},
           NEW t \in Task, NEW c, c.rows = {}, c.at \notin {"view", "confirm"},
           task' = [task EXCEPT ![t] = c]
    PROVE  \A o \in Task : task'[o].rows = {} /\ task'[o].at \notin {"view", "confirm"}
OBVIOUS

LEMMA IdleHoldsNone ==
    /\ Idle.rows = {} /\ Idle.at \notin {"view", "confirm"}
    /\ \A l : \A at \in Awaits \ {"view", "confirm"} :
            LET c == [Idle EXCEPT !.at = at, !.log = l]
            IN c.rows = {} /\ c.at \notin {"view", "confirm"}
BY DEF Idle, Awaits

LEMMA SpentViews ==
    ASSUME used \in [Budgets -> Nat], NEW kind, NEW limit, Spend(kind, limit),
           used'.views = 0
    PROVE  used.views = 0 /\ kind # "views"
BY DEF Spend, Budgets

LEMMA UsersAddNone ==
    ASSUME RowlessInv, Users, used'.views = 0
    PROVE  used.views = 0 /\ NoSubclasses'
<1>1. TypeOK /\ used \in [Budgets -> Nat] /\ task \in [Task -> TaskRecord] /\ VoyageTypes
    BY TypesSplit DEF RowlessInv, LedgerInv, TypeOK
<1>2. ASSUME NEW m \in Mentions, Post(m)
      PROVE  used.views = 0 /\ NoSubclasses'
    <2>1. used' = used /\ task' = task /\ subclasses' = subclasses
        BY <1>2 DEF Post, subclassTables
    <2> QED
        BY <2>1 DEF RowlessInv, NoSubclasses
<1>3. ASSUME UNCHANGED tables, NEW kind \in {"edit", "delete"}, NEW l, Event(kind, l),
             used.views = 0
      PROVE  NoSubclasses'
    <2>1. NoSubclasses
        BY <1>3 DEF RowlessInv
    <2>2. \A o \in Task : task'[o].rows = {} /\ task'[o].at \notin {"view", "confirm"}
        <3>1. CASE UNCHANGED task
            BY <2>1, <3>1 DEF NoSubclasses
        <3>2. ASSUME NEW t \in Task, task' = [task EXCEPT ![t] = [Idle EXCEPT !.at = kind, !.log = l]]
              PROVE  \A o \in Task : task'[o].rows = {} /\ task'[o].at \notin {"view", "confirm"}
            <4> DEFINE c == [Idle EXCEPT !.at = kind, !.log = l]
            <4>1. c.rows = {} /\ c.at \notin {"view", "confirm"}
                BY IdleHoldsNone DEF Awaits
            <4>2. task' = [task EXCEPT ![t] = c]
                BY <3>2
            <4> HIDE DEF c
            <4> QED
                BY <1>1, <2>1, <4>1, <4>2, HoldsNone DEF NoSubclasses
        <3> QED
            BY <1>3, <3>1, <3>2 DEF Event, Begin
    <2> QED
        BY <1>3, <2>1, <2>2 DEF tables, NoSubclasses, RowlessInv
<1>4. ASSUME NEW l \in Log, NEW m \in Mentions, Edit(l, m)
      PROVE  used.views = 0 /\ NoSubclasses'
    <2>1. used.views = 0
        BY <1>1, <1>4, SpentViews DEF Edit
    <2> QED
        BY <1>3, <1>4, <2>1 DEF Edit
<1>5. ASSUME NEW l \in Log, Delete(l)
      PROVE  used.views = 0 /\ NoSubclasses'
    BY <1>3, <1>5 DEF Delete
<1> QED
    BY <1>2, <1>4, <1>5 DEF Users

LEMMA StartsNone ==
    ASSUME task \in [Task -> TaskRecord], NoSubclasses, NEW t \in Task,
           NEW at \in Awaits \ {"view", "confirm"}, NEW l,
           Begin(t, [Idle EXCEPT !.at = at, !.log = l])
    PROVE  \A o \in Task : task'[o].rows = {} /\ task'[o].at \notin {"view", "confirm"}
<1> DEFINE c == [Idle EXCEPT !.at = at, !.log = l]
<1>1. c.rows = {} /\ c.at \notin {"view", "confirm"}
    BY IdleHoldsNone
<1>2. task' = [task EXCEPT ![t] = c]
    BY DEF Begin
<1> HIDE DEF c
<1> QED
    BY <1>1, <1>2, HoldsNone DEF NoSubclasses

LEMMA FinishesNone ==
    ASSUME task \in [Task -> TaskRecord], NoSubclasses, NEW t \in Task, Finish(t)
    PROVE  \A o \in Task : task'[o].rows = {} /\ task'[o].at \notin {"view", "confirm"}
BY HoldsNone, IdleHoldsNone DEF Finish, NoSubclasses

LEMMA ConsoleAddNone ==
    ASSUME RowlessInv, Console, used'.views = 0
    PROVE  used.views = 0 /\ NoSubclasses'
<1>1. /\ used \in [Budgets -> Nat] /\ task \in [Task -> TaskRecord]
      /\ VoyageTypes /\ SubclassTypes
    BY TypesSplit DEF RowlessInv, LedgerInv, TypeOK
<1>2. PICK l \in Log : Initialize(l) \/ DeleteData(l) \/ DeleteSubclasses(l)
    BY DEF Console
<1>3. used.views = 0
    BY <1>1, <1>2, SpentViews DEF Initialize, DeleteData, DeleteSubclasses
<1>4. NoSubclasses
    BY <1>3 DEF RowlessInv
<1>5. CASE Initialize(l)
    <2>1. PICK t \in Task : Begin(t, [Idle EXCEPT !.at = "refetch", !.log = l])
        BY <1>5 DEF Initialize
    <2>2. UNCHANGED tables
        BY <1>5 DEF Initialize
    <2> QED
        BY <1>1, <1>3, <1>4, <2>1, <2>2, StartsNone
        DEF Awaits, NoSubclasses, tables
<1>6. CASE DeleteData(l)
    <2>1. RemoveVoyageLogData(l) /\ task' = task
        BY <1>6 DEF DeleteData
    <2>2. \A k \in Log : subclasses'[k] = {}
        BY <1>1, <1>4, <2>1, RemovesNone DEF NoSubclasses
    <2> QED
        BY <1>3, <1>4, <2>1, <2>2 DEF NoSubclasses
<1>7. CASE DeleteSubclasses(l)
    <2>1. DeleteAllSubclasses(l) /\ task' = task /\ UNCHANGED voyageTables
        BY <1>7 DEF DeleteSubclasses
    <2>2. \A k \in Log : subclasses'[k] = {}
        BY <1>1, <1>4, <2>1, RemovesNone DEF NoSubclasses
    <2> QED
        BY <1>3, <1>4, <2>1, <2>2 DEF NoSubclasses, voyageTables
<1> QED
    BY <1>2, <1>5, <1>6, <1>7

\* Officers use their command, or have a view that it opened.
LEMMA OfficersAbsent ==
    ASSUME RowlessInv, Officers
    PROVE  used'.views # 0
<1>1. used \in [Budgets -> Nat] /\ task \in [Task -> TaskRecord]
    BY DEF RowlessInv, LedgerInv, TypeOK
<1>2. ASSUME NEW l \in Log, NEW rows \in Wanted(l), AddSubclass(l, rows)
      PROVE  used'.views # 0
    BY <1>1, <1>2, SpentViews DEF AddSubclass
<1>3. ASSUME NEW t \in Task, Cancel(t) \/ ConfirmFetched(t) \/ Confirm(t)
      PROVE  used'.views # 0
    <2>1. used' = used /\ task[t].at \in {"view", "confirm"}
        BY <1>3 DEF Cancel, ConfirmFetched, Confirm
    <2> QED
        BY <2>1 DEF RowlessInv, NoSubclasses
<1> QED
    BY <1>2, <1>3 DEF Officers

LEMMA StartAddNone ==
    ASSUME RowlessInv, Ready \/ Crash, used'.views = 0
    PROVE  used.views = 0 /\ NoSubclasses'
<1>1. used \in [Budgets -> Nat] /\ task \in [Task -> TaskRecord]
    BY DEF RowlessInv, LedgerInv, TypeOK
<1>2. used.views = 0
    BY <1>1, SpentViews DEF Ready, Crash
<1>3. NoSubclasses
    BY <1>2 DEF RowlessInv
<1>4. UNCHANGED tables
    BY DEF Ready, Crash
<1>5. \A o \in Task : task'[o].rows = {} /\ task'[o].at \notin {"view", "confirm"}
    <2>1. CASE Crash
        BY <2>1, IdleHoldsNone DEF Crash
    <2>2. CASE Ready
        <3> DEFINE c == [Idle EXCEPT !.at = "connect"]
        <3>1. PICK t \in Task : task' = [task EXCEPT ![t] = c]
            BY <2>2 DEF Ready, Begin
        <3>2. c.rows = {} /\ c.at \notin {"view", "confirm"}
            BY DEF Idle
        <3> HIDE DEF c
        <3> QED
            BY <1>1, <1>3, <3>1, <3>2, HoldsNone DEF NoSubclasses
    <2> QED
        BY <2>1, <2>2
<1> QED
    BY <1>2, <1>3, <1>4, <1>5 DEF NoSubclasses, tables

LEMMA HandlersAddNone ==
    ASSUME RowlessInv, NEW t \in Task, Handlers(t) \/ RequestFails(t), used'.views = 0
    PROVE  used.views = 0 /\ NoSubclasses'
<1>1. /\ TypeOK /\ used \in [Budgets -> Nat] /\ task \in [Task -> TaskRecord]
      /\ VoyageTypes /\ SubclassTypes /\ WorksOnLog
    BY TypesSplit DEF RowlessInv, LedgerInv, TypeOK
<1>2. used.views = 0
    <2>1. CASE Handlers(t)
        BY <2>1 DEF Handlers, EditFetched, Refetched, Resume, DeleteFetched, HistoryFetched, Backfill
    <2>2. CASE RequestFails(t)
        BY <1>1, <2>2, SpentViews DEF RequestFails
    <2> QED
        BY <2>1, <2>2
<1>3. NoSubclasses /\ task[t] \in TaskRecord /\ task[t].rows = {}
    BY <1>1, <1>2 DEF RowlessInv, NoSubclasses
<1>4. ASSUME UNCHANGED tables,
             \A o \in Task : task'[o].rows = {} /\ task'[o].at \notin {"view", "confirm"}
      PROVE  NoSubclasses'
    BY <1>3, <1>4 DEF NoSubclasses, tables
<1>5. ASSUME NEW l \in Log, RemoveVoyageLogData(l),
             \A o \in Task : task'[o].rows = {} /\ task'[o].at \notin {"view", "confirm"}
      PROVE  NoSubclasses'
    <2>1. \A k \in Log : subclasses'[k] = {}
        BY <1>1, <1>3, <1>5, RemovesNone DEF NoSubclasses
    <2> QED
        BY <1>5, <2>1 DEF NoSubclasses
<1>6. ASSUME Finish(t)
      PROVE  \A o \in Task : task'[o].rows = {} /\ task'[o].at \notin {"view", "confirm"}
    BY <1>1, <1>3, <1>6, FinishesNone
<1>7. CASE EditFetched(t)
    <2> DEFINE l == task[t].log
               kept == IF voyages[l] = {} THEN {} ELSE OtherRows(l)
    <2>1. l \in Log
        BY <1>1, <1>7 DEF EditFetched, WorksOnLog
    <2>2. CASE l \in deleted \/ l \in BotLogs
        BY <1>2, <1>4, <1>6, <1>7, <2>2 DEF EditFetched
    <2>3. CASE ~(l \in deleted \/ l \in BotLogs)
        <3>1. /\ RemoveVoyageLogData(l)
              /\ task' = [task EXCEPT ![t].at = "refetch", ![t].rows = ParticipantRows(l),
                                      ![t].kept = kept]
            BY <1>7, <2>3 DEF EditFetched
        <3>2. ParticipantRows(l) = {}
            BY <1>3, <2>1 DEF NoSubclasses, ParticipantRows, RowsOf
        <3> HIDE DEF l, kept
        <3>3. task'[t].rows = {} /\ task'[t].at = "refetch"
              /\ \A o \in Task \ {t} : task'[o] = task[o]
            BY <1>1, <3>1, <3>2 DEF TaskRecord
        <3>4. \A o \in Task : task'[o].rows = {} /\ task'[o].at \notin {"view", "confirm"}
            BY <1>3, <3>3 DEF NoSubclasses
        <3> QED
            BY <1>2, <1>5, <2>1, <3>1, <3>4
    <2> QED
        BY <2>2, <2>3
<1>8. CASE Refetched(t)
    <2>1. CASE task[t].log \in deleted
        BY <1>2, <1>4, <1>6, <1>8, <2>1 DEF Refetched
    <2>2. CASE task[t].log \notin deleted
        <3>1. task' = [task EXCEPT ![t].at = "resume", ![t].mentions = content[task[t].log]]
            BY <1>8, <2>2 DEF Refetched
        <3>2. /\ task'[t].rows = {} /\ task'[t].at = "resume"
              /\ \A o \in Task \ {t} : task'[o] = task[o]
            BY <1>1, <1>3, <3>1 DEF TaskRecord
        <3>3. \A o \in Task : task'[o].rows = {} /\ task'[o].at \notin {"view", "confirm"}
            BY <1>3, <3>2 DEF NoSubclasses
        <3> QED
            BY <1>2, <1>4, <1>8, <3>3 DEF Refetched
    <2> QED
        BY <2>1, <2>2
<1>9. CASE Resume(t)
    <2> DEFINE c == task[t]
    <2>1. /\ c.log \in Log /\ c.mentions \in SUBSET Sailor
          /\ ProcessVoyageLog(c.log, c.mentions, Visible(snapshot)) /\ Finish(t)
        BY <1>1, <1>3, <1>9 DEF Resume, WorksOnLog, TaskRecord
    <2>2. SaveSubclasses(c.log, {})
        BY <1>3, <1>9 DEF Resume, SaveAgain
    <2>3. \A k \in Log : subclasses'[k] = {}
        BY <1>1, <1>3, <2>1, <2>2, SavesNone DEF NoSubclasses
    <2> QED
        BY <1>2, <1>6, <2>1, <2>3 DEF NoSubclasses
<1>10. CASE DeleteFetched(t)
    BY <1>1, <1>2, <1>5, <1>6, <1>10 DEF DeleteFetched, WorksOnLog
<1>11. CASE HistoryFetched(t)
    <2>1. CASE Alive = {}
        BY <1>2, <1>4, <1>6, <1>11, <2>1 DEF HistoryFetched
    <2>2. CASE Alive # {}
        <3> DEFINE page == {<<l, content[l]>> : l \in Newest(Alive)}
        <3>1. task' = [task EXCEPT ![t].at = "page", ![t].history = page]
            BY <1>11, <2>2 DEF HistoryFetched
        <3> HIDE DEF page
        <3>2. /\ task'[t].rows = {} /\ task'[t].at = "page"
              /\ \A o \in Task \ {t} : task'[o] = task[o]
            BY <1>1, <1>3, <3>1 DEF TaskRecord
        <3>3. \A o \in Task : task'[o].rows = {} /\ task'[o].at \notin {"view", "confirm"}
            BY <1>3, <3>2 DEF NoSubclasses
        <3> QED
            BY <1>2, <1>4, <1>11, <3>3 DEF HistoryFetched
    <2> QED
        BY <2>1, <2>2
<1>12. CASE Backfill(t)
    <2> DEFINE c == task[t]
    <2>1. PICK p \in c.history :
            /\ ProcessVoyageLog(p[1], p[2], Visible(c.seen))
            /\ IF c.history = {p} THEN Finish(t)
               ELSE task' = [task EXCEPT ![t].history = @ \ {p},
                                         ![t].seen = SessionAfter(p[1], p[2], @)]
        BY <1>12 DEF Backfill
    <2>3. subclasses' = subclasses
        BY <1>12 DEF Backfill, subclassTables
    <2>4. \A o \in Task : task'[o].rows = {} /\ task'[o].at \notin {"view", "confirm"}
        <3>1. CASE Finish(t)
            BY <1>6, <3>1
        <3>2. ASSUME NEW history, NEW seen,
                     task' = [task EXCEPT ![t].history = history, ![t].seen = seen]
              PROVE  \A o \in Task : task'[o].rows = {} /\ task'[o].at \notin {"view", "confirm"}
            <4>1. /\ task'[t].rows = task[t].rows /\ task'[t].at = task[t].at
                  /\ \A o \in Task \ {t} : task'[o] = task[o]
                BY <1>1, <3>2 DEF TaskRecord
            <4> QED
                BY <1>3, <4>1 DEF NoSubclasses
        <3>3. CASE task' = [task EXCEPT ![t].history = @ \ {p},
                                        ![t].seen = SessionAfter(p[1], p[2], @)]
            <4>1. task' = [task EXCEPT ![t].history = c.history \ {p},
                                       ![t].seen = SessionAfter(p[1], p[2], c.seen)]
                BY <3>3
            <4> QED
                BY <3>2, <4>1
        <3> QED
            BY <2>1, <3>1, <3>3
    <2> QED
        BY <1>2, <1>3, <2>3, <2>4 DEF NoSubclasses
<1>13. CASE RequestFails(t)
    BY <1>2, <1>4, <1>6, <1>13 DEF RequestFails
<1> QED
    BY <1>7, <1>8, <1>9, <1>10, <1>11, <1>12, <1>13 DEF Handlers

LEMMA RowlessInitially ==
    ASSUME Init
    PROVE  RowlessInv
<1>1. LedgerInv
    BY LedgerInitially
<1>2. NoSubclasses
    BY IdleHoldsNone DEF Init, TablesInit, NoSubclasses
<1> QED
    BY <1>1, <1>2 DEF RowlessInv

LEMMA RowlessStep ==
    ASSUME RowlessInv, [Next]_vars
    PROVE  RowlessInv'
<1>1. LedgerInv'
    BY NextTables, TypesPreserved, CountersPreserved, KeysPreserved
       DEF RowlessInv, LedgerInv, CountersOK
<1>2. ASSUME UNCHANGED vars
      PROVE  RowlessInv'
    BY <1>1, <1>2 DEF vars, tables, RowlessInv, NoSubclasses
<1>3. ASSUME Next, used'.views = 0
      PROVE  NoSubclasses'
    BY <1>3, UsersAddNone, ConsoleAddNone, OfficersAbsent, StartAddNone, HandlersAddNone DEF Next
<1> QED
    BY <1>1, <1>2, <1>3 DEF RowlessInv

-----------------------------------------------------------------------------
(***************************************************************************)
(* The register.                                                           *)
(***************************************************************************)

\* Recording a log is Record if it has no row, with its whole crew, and
\* Extend if it has one.
LEMMA RecordedRefines ==
    ASSUME LedgerInv, NEW l \in Log, NEW mentions \in SUBSET Sailor,
           NEW seen, ProcessVoyageLog(l, mentions, seen)
    PROVE  [Register!Next]_(Register!register)
<1>1. VoyageTypes
    BY TypesSplit DEF LedgerInv, TypeOK
<1>2. CASE Skipped(l, mentions, seen)
    BY <1>2 DEF ProcessVoyageLog, voyageTables, Register!register
<1>3. CASE ~Skipped(l, mentions, seen)
    <2> DEFINE participants == mentions \ voyages[l]
    <2>1. /\ hosted' = hosted \union {l}
          /\ voyages' = [voyages EXCEPT ![l] = @ \union participants]
          /\ voyageCount' = Increment(voyageCount, participants)
        BY <1>3 DEF ProcessVoyageLog
    <2>2. voyageCount' = [s \in Sailor |->
                IF s \in participants THEN voyageCount[s] + 1
                                      ELSE voyageCount[s]]
        BY <1>1, <2>1 DEF Increment, VoyageTypes
    <2>3. Register!Enroll(l, participants)
        BY <2>1, <2>2 DEF Register!Enroll
    <2>4. CASE l \in hosted
        <3>1. Register!Extend(l, participants)
            BY <2>1, <2>3, <2>4 DEF Register!Extend
        <3>2. participants \in SUBSET Sailor
            OBVIOUS
        <3> QED
            BY <3>1, <3>2 DEF Register!Next
    <2>5. CASE l \notin hosted
        <3>1. participants = mentions
            BY <2>5 DEF LedgerInv, ForeignKeys
        <3>2. Cardinality(mentions) > 1
            BY <1>3, SailorsFinite DEF Skipped
        <3>3. Register!Record(l, mentions)
            BY <2>1, <2>3, <2>5, <3>1, <3>2
               DEF Register!Record, Register!Cardinality, Cardinality
        <3> QED
            BY <3>3 DEF Register!Next
    <2> QED
        BY <2>4, <2>5
<1> QED
    BY <1>2, <1>3

\* Removing a log is Strike: each sailor of its crew has a credit to lose,
\* so that "Cannot go below 0" is never what keeps the counter natural.
LEMMA RemoveRefines ==
    ASSUME LedgerInv, NEW l \in Log, RemoveVoyageLogData(l)
    PROVE  [Register!Next]_(Register!register)
<1>1. VoyageTypes
    BY TypesSplit DEF LedgerInv, TypeOK
<1>2. CASE l \notin hosted
    BY <1>2 DEF RemoveVoyageLogData, tables, Register!register
<1>3. CASE l \in hosted
    <2>1. /\ voyageCount' = Decrement(voyageCount, voyages[l])
          /\ voyages' = [voyages EXCEPT ![l] = {}]
          /\ hosted' \in {hosted \ {l}, hosted}
        BY <1>3 DEF RemoveVoyageLogData
    <2>2. ASSUME NEW s \in Sailor, s \in voyages[l]
          PROVE  Decremented(voyageCount[s]) = voyageCount[s] - 1
        <3>1. l \in VoyagesOf(s) /\ VoyagesOf(s) \in SUBSET Log
            BY <2>2 DEF VoyagesOf
        <3>2. Cardinality(VoyagesOf(s)) > 0
            BY <3>1, RemoveLog
        <3> QED
            BY <3>2 DEF LedgerInv, VoyageCountMatches, Decremented
    <2>3. voyageCount' = [s \in Sailor |->
                IF s \in voyages[l] THEN voyageCount[s] - 1
                                    ELSE voyageCount[s]]
        BY <1>1, <2>1, <2>2 DEF Decrement, VoyageTypes
    <2>4. Register!Strike(l)
        BY <1>3, <2>1, <2>3 DEF Register!Strike
    <2> QED
        BY <2>4 DEF Register!Next
<1> QED
    BY <1>2, <1>3

\* The ledger implements the register, whatever its handlers do in between.
THEOREM RegisterImplemented == Spec => ImplementsRegister
<1>1. Init => Register!Init
    BY DEF Init, TablesInit, Register!Init
<1>2. LedgerInv /\ [Next]_vars => [Register!Next]_(Register!register)
    <2> SUFFICES ASSUME LedgerInv, [Next]_vars
                 PROVE  [Register!Next]_(Register!register)
        OBVIOUS
    <2>1. TableStep
        BY NextTables DEF LedgerInv
    <2>2. ASSUME NEW l \in Log, NEW mentions \in SUBSET Sailor,
                 NEW seen \in SUBSET Log, Recorded(l, mentions, seen)
          PROVE  [Register!Next]_(Register!register)
        BY <2>2, RecordedRefines DEF Recorded
    <2>3. ASSUME NEW l \in Log, RemoveVoyageLogData(l)
          PROVE  [Register!Next]_(Register!register)
        BY <2>3, RemoveRefines
    <2>4. ASSUME UNCHANGED voyageTables
          PROVE  [Register!Next]_(Register!register)
        BY <2>4 DEF voyageTables, Register!register
    <2> QED
        BY <2>1, <2>2, <2>3, <2>4 DEF TableStep, Confirm, tables, voyageTables
<1> QED
    BY <1>1, <1>2, LedgerInvariant, PTL DEF Spec, ImplementsRegister,
       Register!Spec

-----------------------------------------------------------------------------
(***************************************************************************)
(* Coroutines that do not overtake each other.                             *)
(*                                                                         *)
(* The run ledger_serial, for every value of the other constants: nobody   *)
(* begins to work on a log another coroutine is at work on, the page of    *)
(* on_ready holds all the logs, none of which is the bot's own, no request *)
(* fails, the process does not die, and the console, whose buttons take    *)
(* data of a log away while its message stays, is left alone.              *)
(***************************************************************************)
Serial ==
    /\ ~Overlap
    /\ BotLogs = {}
    /\ MaxLog <= PageSize
    /\ MaxCrashes = 0 /\ MaxErrors = 0 /\ MaxConsole = 0

\* A coroutine is at work on a log, as Busy has it.
Works(t, l) ==
    \/ task[t].at = "connect"
    \/ task[t].log = l
    \/ \E p \in task[t].history : p[1] = l

\* The channel has a voyage for log l; its tables say nothing wrong of it, and
\* nothing else than there is to say.
Crewed(l) == l \in Alive /\ Cardinality(content[l]) > 1

NotWrong(l) == l \in hosted => Crewed(l) /\ voyages[l] = content[l]

Settled(l) == NotWrong(l) /\ (Crewed(l) => l \in hosted)

\* Subclass rows are those of a crew.
OfCrew(l, rows) ==
    rows # {} => Cardinality(content[l]) > 1 /\ Named(rows) \subseteq content[l]

RowsOK(l) ==
    /\ OfCrew(l, subclasses[l])
    /\ subclasses[l] # {} => voyages[l] = content[l]

\* What a handler, a view and on_ready may rely on while they wait: the log is
\* theirs, so what they hold of it still is what the channel and the tables
\* say, or what they have taken away themselves.
OnLog(t) == task[t].log \in Alive /\ task[t].history = {}

HandlerOK(t) ==
    LET c == task[t]
    IN /\ c.at = "edit" => OnLog(t)
       /\ c.at = "delete" =>
            c.log \in deleted /\ c.log \in 1 .. posted /\ c.history = {}
       /\ c.at \in {"refetch", "resume"} =>
            /\ OnLog(t) /\ c.log \notin hosted
            /\ c.kept = {} /\ OfCrew(c.log, c.rows)
       /\ c.at = "resume" => c.mentions = content[c.log]

ViewOK(t) ==
    LET c == task[t]
    IN c.at \in {"view", "confirm"} =>
        /\ OnLog(t) /\ c.log \in hosted /\ NotWrong(c.log)
        /\ c.kept = subclasses[c.log]
        /\ OfCrew(c.log, c.rows) /\ c.gone \intersect Named(c.rows) = {}

BackfillOK(t) ==
    LET c == task[t]
    IN /\ c.at = "connect" =>
            c.log = 0 /\ c.seen = {} /\ \A l \in Log : NotWrong(l)
       /\ c.at = "page" =>
            /\ c.log = 0
            /\ \A p \in c.history :
                /\ p[1] \in Alive /\ p[2] = content[p[1]] /\ NotWrong(p[1])
                /\ p[1] \in Visible(c.seen) <=> p[1] \in hosted

TaskOK(t) ==
    /\ task[t].at = "idle" => task[t] = Idle
    /\ HandlerOK(t) /\ ViewOK(t) /\ BackfillOK(t)

\* No two coroutines are at work on one log.
OneAtWork ==
    \A l \in Log : \A t, u \in Task : Works(t, l) /\ Works(u, l) => t = u

\* A row is of a log that was posted, and so is what was deleted.
LogOK(l) == RowsOK(l) /\ (l \in hosted \/ l \in deleted => l <= posted)

\* The inductive invariant: a log that no coroutine is at work on is settled,
\* and one that a coroutine is at work on is as that coroutine believes.
OrderInv ==
    /\ online => \A l \in Log : (\A t \in Task : ~Works(t, l)) => Settled(l)
    /\ ~online => hosted = {} /\ \A t \in Task : task[t] = Idle
    /\ OneAtWork
    /\ \A t \in Task : TaskOK(t)
    /\ \A l \in Log : LogOK(l)
    /\ snapshot = {}
    /\ PointsMatchRows

-----------------------------------------------------------------------------
LEMMA NotBusy ==
    ASSUME TypeOK, ~Overlap, NEW l \in Log, NEW logs, l \in logs, Apart(logs)
    PROVE  \A t \in Task : ~Works(t, l)
<1>1. l \notin Busy
    BY DEF Apart
<1> SUFFICES ASSUME NEW t \in Task, Works(t, l)
             PROVE  l \in Busy
    BY <1>1
<1>2. l \in IF task[t].at = "connect" THEN Log
            ELSE {task[t].log} \union {p[1] : p \in task[t].history}
    BY DEF Works
<1> QED
    BY <1>2 DEF Busy

LEMMA IdleOK ==
    ASSUME NEW t \in Task, task'[t] = Idle
    PROVE  TaskOK(t)' /\ \A l \in Log : ~Works(t, l)'
<1>1. Idle.at = "idle" /\ Idle.log = 0 /\ Idle.history = {}
    BY DEF Idle
<1>2. 0 \notin Log
    BY DEF Log
<1>3. \A l \in Log : ~Works(t, l)'
    BY <1>1, <1>2 DEF Works
<1>4. TaskOK(t)'
    BY <1>1 DEF TaskOK, HandlerOK, ViewOK, BackfillOK
<1> QED
    BY <1>3, <1>4

\* Nothing changes but what concerns one log.
Elsewhere(l) ==
    \A k \in Log \ {l} :
        /\ k \in hosted' <=> k \in hosted
        /\ voyages'[k] = voyages[k]
        /\ subclasses'[k] = subclasses[k]
        /\ content'[k] = content[k]
        /\ k \in deleted' <=> k \in deleted
        /\ k \in 1 .. posted <=> k \in 1 .. posted'

LEMMA LogElsewhere ==
    ASSUME NEW l, Elsewhere(l), NEW k \in Log \ {l}
    PROVE  /\ NotWrong(k)' <=> NotWrong(k)
           /\ Settled(k)' <=> Settled(k)
           /\ RowsOK(k)' <=> RowsOK(k)
           /\ k \in Alive' <=> k \in Alive
           /\ \A rows : OfCrew(k, rows)' <=> OfCrew(k, rows)
<1>1. /\ k \in hosted' <=> k \in hosted
      /\ voyages'[k] = voyages[k] /\ subclasses'[k] = subclasses[k]
      /\ content'[k] = content[k]
      /\ k \in Alive' <=> k \in Alive
    BY DEF Elsewhere, Alive
<1> QED
    BY <1>1 DEF NotWrong, Settled, RowsOK, OfCrew, Crewed

LEMMA LogOKElsewhere ==
    ASSUME NEW l, Elsewhere(l), NEW k \in Log \ {l}, LogOK(k), TypeOK, TypeOK'
    PROVE  LogOK(k)'
<1>1. RowsOK(k)'
    BY LogElsewhere DEF LogOK
<1>2. k \in hosted' \/ k \in deleted' => k <= posted'
    BY DEF LogOK, Elsewhere, Log, TypeOK
<1> QED
    BY <1>1, <1>2 DEF LogOK

\* A coroutine at work on other logs is none the wiser.
LEMMA TaskElsewhere ==
    ASSUME TypeOK, NEW l \in Log, Elsewhere(l), NEW u \in Task, task'[u] = task[u],
           TaskOK(u), Works(u, l) => task[u].at = "connect" /\ NotWrong(l)'
    PROVE  TaskOK(u)'
<1> DEFINE c == task[u]
<1>1. c \in TaskRecord /\ c.log \in Log \union {0} /\ c.history \subseteq Log \X SUBSET Sailor
    BY DEF TypeOK, TaskRecord
<1>2. ASSUME c.log \in Log, c.at # "connect"
      PROVE  c.log \in Log \ {l}
    BY <1>2 DEF Works
<1>3. \A p \in c.history : c.at # "connect" => p[1] \in Log \ {l}
    BY <1>1 DEF Works
<1>4. Alive \subseteq Log /\ 1 .. posted \subseteq Log
    BY LedgerAssumption DEF Alive, Log, TypeOK
<1>5. HandlerOK(u)'
    <2>1. CASE c.at \notin {"edit", "delete", "refetch", "resume"}
        BY <2>1 DEF HandlerOK
    <2>2. CASE c.at \in {"edit", "delete", "refetch", "resume"}
        <3>1. c.log \in Log \ {l}
            BY <1>2, <1>4, <2>2 DEF TaskOK, HandlerOK, OnLog
        <3>2. /\ c.log \in Alive' <=> c.log \in Alive
              /\ OfCrew(c.log, c.rows) => OfCrew(task[u].log, task[u].rows)'
            BY <3>1, LogElsewhere DEF OfCrew, Elsewhere
        <3>3. OnLog(u) => OnLog(u)'
            BY <3>2 DEF OnLog
        <3> QED
            BY <3>1, <3>2, <3>3 DEF TaskOK, HandlerOK, Elsewhere
    <2> QED
        BY <2>1, <2>2
<1>6. ViewOK(u)'
    <2>1. CASE c.at \notin {"view", "confirm"}
        BY <2>1 DEF ViewOK
    <2>2. CASE c.at \in {"view", "confirm"}
        <3>1. c.log \in Log \ {l}
            BY <1>2, <1>4, <2>2 DEF TaskOK, ViewOK, OnLog
        <3>2. /\ c.log \in Alive' <=> c.log \in Alive
              /\ OfCrew(c.log, c.rows) => OfCrew(task[u].log, task[u].rows)'
              /\ NotWrong(c.log) => NotWrong(task[u].log)'
            BY <3>1, LogElsewhere DEF OfCrew, NotWrong, Crewed, Elsewhere
        <3>3. OnLog(u) => OnLog(u)'
            BY <3>2 DEF OnLog
        <3> QED
            BY <2>2, <3>1, <3>2, <3>3 DEF TaskOK, ViewOK, Elsewhere
    <2> QED
        BY <2>1, <2>2
<1>7. BackfillOK(u)'
    <2>1. CASE c.at = "connect"
        <3>1. NotWrong(l)'
            BY <2>1 DEF Works
        <3>2. \A k \in Log : NotWrong(k)'
            BY <2>1, <3>1, LogElsewhere DEF TaskOK, BackfillOK
        <3> QED
            BY <2>1, <3>2 DEF TaskOK, BackfillOK
    <2>2. CASE c.at = "page"
        <3>1. ASSUME NEW p \in c.history
              PROVE  /\ p[1] \in Alive' /\ p[2] = content'[p[1]] /\ NotWrong(p[1])'
                     /\ p[1] \in Visible(c.seen)' <=> p[1] \in hosted'
            <4>1. p[1] \in Log \ {l}
                BY <1>3, <2>2
            <4>2. /\ p[1] \in Alive /\ p[2] = content[p[1]] /\ NotWrong(p[1])
                  /\ p[1] \in Visible(c.seen) <=> p[1] \in hosted
                BY <2>2 DEF TaskOK, BackfillOK
            <4>3. NotWrong(p[1])' /\ p[1] \in Alive'
                BY <4>1, <4>2, LogElsewhere
            <4> QED
                BY <4>1, <4>2, <4>3 DEF Elsewhere, Visible
        <3> QED
            BY <2>2, <3>1 DEF TaskOK, BackfillOK
    <2>3. CASE c.at \notin {"connect", "page"}
        BY <2>3 DEF BackfillOK
    <2> QED
        BY <2>1, <2>2, <2>3
<1> QED
    BY <1>5, <1>6, <1>7 DEF TaskOK

\* A step of one coroutine about one log, which no other is at work on.
LEMMA OneStep ==
    ASSUME TypeOK, TypeOK', OrderInv, online, UNCHANGED online,
           NEW t \in Task, NEW l \in Log, Elsewhere(l),
           \A u \in Task \ {t} : task'[u] = task[u] /\ ~Works(u, l),
           \A k \in Log \ {l} : Works(t, k)' <=> Works(t, k),
           TaskOK(t)', LogOK(l)', Works(t, l)' \/ Settled(l)',
           snapshot' = {}, PointsMatchRows'
    PROVE  OrderInv'
<1>1. \A u \in Task \ {t} : \A k \in Log : Works(u, k)' <=> Works(u, k)
    BY DEF Works
<1>2. online' => \A k \in Log : (\A u \in Task : ~Works(u, k)') => Settled(k)'
    <2> SUFFICES ASSUME NEW k \in Log, \A u \in Task : ~Works(u, k)'
                 PROVE  Settled(k)'
        OBVIOUS
    <2>1. CASE k = l
        BY <2>1
    <2>2. CASE k # l
        <3>1. \A u \in Task : ~Works(u, k)
            BY <1>1, <2>2
        <3> QED
            BY <2>2, <3>1, LogElsewhere DEF OrderInv
    <2> QED
        BY <2>1, <2>2
<1>3. OneAtWork'
    <2> SUFFICES ASSUME NEW k \in Log, NEW u \in Task, NEW v \in Task,
                        Works(u, k)', Works(v, k)'
                 PROVE  u = v
        BY DEF OneAtWork
    <2>1. CASE k = l
        BY <1>1, <2>1
    <2>2. CASE k # l
        <3>1. Works(u, k) /\ Works(v, k)
            BY <1>1, <2>2
        <3> QED
            BY <3>1 DEF OrderInv, OneAtWork
    <2> QED
        BY <2>1, <2>2
<1>4. ASSUME NEW u \in Task
      PROVE  TaskOK(u)'
    <2>1. CASE u = t
        BY <2>1
    <2>2. CASE u # t
        BY <2>2, TaskElsewhere DEF OrderInv
    <2> QED
        BY <2>1, <2>2
<1>5. \A k \in Log : LogOK(k)'
    BY LogOKElsewhere DEF OrderInv
<1> QED
    BY <1>2, <1>3, <1>4, <1>5 DEF OrderInv

-----------------------------------------------------------------------------
(***************************************************************************)
(* Points.                                                                 *)
(***************************************************************************)
\* Rows of one log that go and come with their points.
LEMMA RowsMove ==
    ASSUME SubclassTypes, PointsMatchRows, NEW l \in Log, NEW out, out \subseteq subclasses[l],
           NEW in, in \subseteq Row, in \intersect (subclasses[l] \ out) = {},
           points' = Increment(Decrement(points, out), in),
           subclasses' = [subclasses EXCEPT ![l] = (@ \ out) \union in]
    PROVE  PointsMatchRows'
<1> SUFFICES ASSUME NEW r \in Row
             PROVE  points'[r] = Cardinality(LogsWith(r)')
    BY DEF PointsMatchRows
<1>1. /\ points[r] = Cardinality(LogsWith(r)) /\ points[r] \in Nat
      /\ LogsWith(r) \in SUBSET Log
    BY DEF PointsMatchRows, SubclassTypes, LogsWith
<1>2. points'[r] = IF r \in in THEN (IF r \in out THEN Decremented(points[r]) ELSE points[r]) + 1
                   ELSE IF r \in out THEN Decremented(points[r]) ELSE points[r]
    BY DEF Increment, Decrement, SubclassTypes
<1>3. subclasses'[l] = (subclasses[l] \ out) \union in
      /\ \A k \in Log \ {l} : subclasses'[k] = subclasses[k]
    BY DEF SubclassTypes
<1>4. CASE r \in out /\ r \in in
    <2>1. LogsWith(r)' = LogsWith(r) /\ l \in LogsWith(r)
        BY <1>3, <1>4 DEF LogsWith
    <2>2. points[r] > 0
        BY <1>1, <2>1, RemoveLog
    <2> QED
        BY <1>1, <1>2, <1>4, <2>1, <2>2 DEF Decremented
<1>5. CASE r \in out /\ r \notin in
    <2>1. LogsWith(r)' = LogsWith(r) \ {l} /\ l \in LogsWith(r)
        BY <1>3, <1>5 DEF LogsWith
    <2>2. points[r] > 0 /\ Cardinality(LogsWith(r) \ {l}) = points[r] - 1
        BY <1>1, <2>1, RemoveLog
    <2> QED
        BY <1>1, <1>2, <1>5, <2>1, <2>2 DEF Decremented
<1>6. CASE r \notin out /\ r \in in
    <2>1. LogsWith(r)' = LogsWith(r) \union {l} /\ l \notin LogsWith(r)
        BY <1>3, <1>6 DEF LogsWith
    <2> QED
        BY <1>1, <1>2, <1>6, <2>1, AddLog
<1>7. CASE r \notin out /\ r \notin in
    <2>1. LogsWith(r)' = LogsWith(r)
        BY <1>3, <1>7 DEF LogsWith
    <2> QED
        BY <1>1, <1>2, <1>7, <2>1
<1> QED
    BY <1>4, <1>5, <1>6, <1>7

LEMMA RowsStay ==
    ASSUME PointsMatchRows, UNCHANGED subclassTables
    PROVE  PointsMatchRows'
BY DEF PointsMatchRows, LogsWith, subclassTables

\* remove_voyage_log_data for a log whose subclass rows are of its crew.
LEMMA RemoveAll ==
    ASSUME TypeOK, ForeignKeys, PointsMatchRows, NEW l \in Log, RowsOK(l),
           RemoveVoyageLogData(l)
    PROVE  /\ l \notin hosted' /\ subclasses'[l] = {}
           /\ ParticipantRows(l) = subclasses[l] /\ OtherRows(l) = {}
           /\ \A k \in Log \ {l} : /\ k \in hosted' <=> k \in hosted
                                   /\ voyages'[k] = voyages[k]
                                   /\ subclasses'[k] = subclasses[k]
           /\ PointsMatchRows'
<1>1. TablesTypeOK /\ SubclassTypes
    BY TypesSplit DEF TypeOK
<1>2. ParticipantRows(l) = subclasses[l] /\ OtherRows(l) = {}
    BY <1>1 DEF RowsOK, OfCrew, Named, ParticipantRows, OtherRows, RowsOf, TablesTypeOK
<1>3. CASE l \notin hosted
    <2>1. UNCHANGED tables /\ subclasses[l] = {}
        BY <1>3 DEF RemoveVoyageLogData, ForeignKeys
    <2> QED
        BY <1>2, <1>3, <2>1, RowsStay DEF tables, subclassTables
<1>4. CASE l \in hosted
    <2>1. /\ voyages' = [voyages EXCEPT ![l] = {}]
          /\ points' = Decrement(points, subclasses[l])
          /\ subclasses' = [subclasses EXCEPT ![l] = {}]
          /\ hosted' = hosted \ {l}
        BY <1>2, <1>4 DEF RemoveVoyageLogData
    <2>2. points' = Increment(Decrement(points, subclasses[l]), {})
        BY <1>1, <2>1, CounterTypes, CountNothing DEF SubclassTypes
    <2>3. subclasses' = [subclasses EXCEPT ![l] = (@ \ subclasses[l]) \union {}]
        BY <2>1
    <2>4. PointsMatchRows'
        <3> DEFINE out == subclasses[l]
                   in == {}
        <3>1. /\ out \subseteq subclasses[l] /\ in \subseteq Row
              /\ in \intersect (subclasses[l] \ out) = {}
              /\ points' = Increment(Decrement(points, out), in)
              /\ subclasses' = [subclasses EXCEPT ![l] = (@ \ out) \union in]
            BY <2>2, <2>3
        <3> HIDE DEF out, in
        <3> QED
            BY <1>1, <3>1, RowsMove
    <2> QED
        BY <1>1, <1>2, <2>1, <2>4 DEF TablesTypeOK
<1> QED
    BY <1>3, <1>4

\* Rows saved for a log that has none.
LEMMA SaveAll ==
    ASSUME SubclassTypes, PointsMatchRows, NEW l \in Log, subclasses[l] = {},
           NEW rows, rows \subseteq Row, l \in hosted' \/ rows = {}, SaveSubclasses(l, rows)
    PROVE  /\ subclasses'[l] = rows
           /\ \A k \in Log \ {l} : subclasses'[k] = subclasses[k]
           /\ PointsMatchRows'
<1>1. rows \ subclasses[l] = rows
    OBVIOUS
<1>2. CASE l \in hosted'
    <2>1. /\ subclasses' = [subclasses EXCEPT ![l] = @ \union rows]
          /\ points' = Increment(points, rows)
        BY <1>1, <1>2 DEF SaveSubclasses
    <2>2. points' = Increment(Decrement(points, {}), rows)
        BY <2>1, CountNothing DEF SubclassTypes
    <2>3. subclasses' = [subclasses EXCEPT ![l] = (@ \ {}) \union rows]
        BY <2>1
    <2>4. PointsMatchRows'
        <3> DEFINE out == {}
        <3>1. /\ out \subseteq subclasses[l]
              /\ rows \intersect (subclasses[l] \ out) = {}
              /\ points' = Increment(Decrement(points, out), rows)
              /\ subclasses' = [subclasses EXCEPT ![l] = (@ \ out) \union rows]
            BY <2>2, <2>3
        <3> HIDE DEF out
        <3> QED
            BY <3>1, RowsMove
    <2> QED
        BY <2>1, <2>4 DEF SubclassTypes
<1>3. CASE l \notin hosted'
    <2>1. UNCHANGED subclassTables /\ rows = {}
        BY <1>1, <1>3 DEF SaveSubclasses, subclassTables
    <2> QED
        BY <2>1, RowsStay DEF subclassTables
<1> QED
    BY <1>2, <1>3

-----------------------------------------------------------------------------
(***************************************************************************)
(* Handlers.                                                               *)
(***************************************************************************)
Ordered == RowlessInv /\ OrderInv

LEMMA OrderedTypes ==
    ASSUME Ordered
    PROVE  /\ TypeOK /\ WorksOnLog /\ ForeignKeys /\ OrderInv /\ PointsMatchRows
           /\ SubclassTypes /\ VoyageTypes /\ snapshot = {}
           /\ task \in [Task -> TaskRecord] /\ 0 \notin Log
           /\ \A t \in Task : TaskOK(t)
           /\ \A l \in Log : RowsOK(l)
           /\ used.views = 0 => NoSubclasses
<1>1. 0 \notin Log
    BY DEF Log
<1> QED
    BY <1>1, TypesSplit DEF Ordered, RowlessInv, LedgerInv, OrderInv, TypeOK, LogOK

\* A coroutine at work on a log that is not on_ready's.
Single == {"edit", "delete", "refetch", "resume", "view", "confirm"}

LEMMA OneLog ==
    ASSUME Ordered, NEW t \in Task, task[t].at \in Single
    PROVE  /\ task[t].log \in Log /\ task[t].log <= posted /\ task[t].history = {}
           /\ \A k \in Log : Works(t, k) <=> k = task[t].log
           /\ online
           /\ \A u \in Task \ {t} : ~Works(u, task[t].log)
<1>1. TaskOK(t) /\ task[t].log \in Log /\ TypeOK
    BY OrderedTypes DEF WorksOnLog, Single
<1>2. task[t].log \in 1 .. posted /\ task[t].history = {}
    BY <1>1 DEF TaskOK, HandlerOK, ViewOK, OnLog, Alive, Single
<1>3. online
    <2>1. Idle.at = "idle"
        BY DEF Idle
    <2> QED
        BY <2>1 DEF Ordered, OrderInv, Single
<1>4. task[t].log <= posted
    BY <1>1, <1>2 DEF TypeOK
<1>5. \A k \in Log : Works(t, k) <=> k = task[t].log
    BY <1>2 DEF Works, Single
<1> QED
    BY <1>1, <1>2, <1>3, <1>4, <1>5 DEF Ordered, OrderInv, OneAtWork

\* Such a coroutine takes a step: what is left to show for OneStep.
LEMMA SingleStep ==
    ASSUME Ordered, RowlessInv', NEW t \in Task, task[t].at \in Single,
           NEW l, l = task[t].log,
           UNCHANGED <<discord, online>>, snapshot' = {},
           \A u \in Task \ {t} : task'[u] = task[u],
           \A k \in Log \ {l} : /\ k \in hosted' <=> k \in hosted
                                /\ voyages'[k] = voyages[k]
                                /\ subclasses'[k] = subclasses[k],
           \/ /\ task'[t] = Idle
              /\ Settled(l)'
           \/ /\ task'[t].log = l /\ task'[t].history = {}
              /\ task'[t].at \in Single
              /\ TaskOK(t)',
           RowsOK(l)', PointsMatchRows'
    PROVE  OrderInv'
<1>1. /\ l \in Log /\ l <= posted /\ online
      /\ \A k \in Log : Works(t, k) <=> k = l
      /\ \A u \in Task \ {t} : ~Works(u, l)
    BY OneLog
<1>2. Elsewhere(l)
    <2>1. posted' = posted /\ content' = content /\ deleted' = deleted
        BY DEF discord
    <2> QED
        BY <2>1 DEF Elsewhere
<1>3. TypeOK /\ TypeOK' /\ OrderInv
    BY OrderedTypes DEF Ordered, RowlessInv, LedgerInv
<1>4. LogOK(l)'
    BY <1>1 DEF LogOK, discord
<1>5. /\ \A k \in Log \ {l} : Works(t, k)' <=> Works(t, k)
      /\ TaskOK(t)' /\ (Works(t, l)' \/ Settled(l)')
    <2>1. CASE task'[t] = Idle /\ Settled(l)'
        BY <1>1, <2>1, IdleOK
    <2>2. CASE /\ task'[t].log = l /\ task'[t].history = {}
               /\ task'[t].at \in Single /\ TaskOK(t)'
        BY <1>1, <2>2 DEF Works, Single
    <2> QED
        BY <2>1, <2>2
<1> QED
    BY <1>1, <1>2, <1>3, <1>4, <1>5, OneStep

LEMMA FinishFrame ==
    ASSUME Ordered, NEW t \in Task, Finish(t)
    PROVE  task'[t] = Idle /\ \A u \in Task \ {t} : task'[u] = task[u]
BY OrderedTypes DEF Finish

LEMMA EditFetchedOrder ==
    ASSUME Ordered, RowlessInv', Serial, NEW t \in Task, EditFetched(t)
    PROVE  OrderInv'
<1>0. PICK l : l = task[t].log
    OBVIOUS
<1>1. task[t].at = "edit" /\ UNCHANGED <<discord, online, snapshot>>
    BY <1>0 DEF EditFetched
<1>2. TaskOK(t) /\ l \in Alive /\ l \in Log /\ RowsOK(l)
    BY <1>0, <1>1, OrderedTypes, OneLog DEF TaskOK, HandlerOK, OnLog, Single
<1>3. l \notin deleted /\ l \notin BotLogs
    BY <1>0, <1>2 DEF Alive, Serial
<1>4. /\ RemoveVoyageLogData(l)
      /\ task' = [task EXCEPT ![t].at = "refetch",
                    ![t].rows = ParticipantRows(l),
                    ![t].kept = IF voyages[l] = {} THEN {} ELSE OtherRows(l)]
    BY <1>0, <1>3 DEF EditFetched
<1>5. /\ l \notin hosted' /\ subclasses'[l] = {}
      /\ ParticipantRows(l) = subclasses[l] /\ OtherRows(l) = {}
      /\ \A k \in Log \ {l} : /\ k \in hosted' <=> k \in hosted
                              /\ voyages'[k] = voyages[k]
                              /\ subclasses'[k] = subclasses[k]
      /\ PointsMatchRows'
    BY <1>0, <1>2, <1>4, OrderedTypes, RemoveAll
<1>6. /\ task'[t].at = "refetch" /\ task'[t].log = l /\ task'[t].history = {}
      /\ task'[t].rows = subclasses[l] /\ task'[t].kept = {}
      /\ \A u \in Task \ {t} : task'[u] = task[u]
    <2>1. task[t].history = {}
        BY <1>0, <1>1, OneLog DEF Single
    <2> QED
        BY <1>0, <1>4, <1>5, <2>1, OrderedTypes DEF TaskRecord
<1>7. OfCrew(task[t].log, task[t].rows)'
    BY <1>0, <1>1, <1>2, <1>6 DEF RowsOK, OfCrew, discord
<1>8. OnLog(t)'
    BY <1>0, <1>1, <1>2, <1>6 DEF OnLog, Alive, discord
<1>9. TaskOK(t)'
    BY <1>0, <1>5, <1>6, <1>7, <1>8 DEF TaskOK, HandlerOK, ViewOK, BackfillOK
<1>10. RowsOK(l)'
    BY <1>0, <1>5 DEF RowsOK, OfCrew
<1>11. snapshot' = {}
    BY <1>0, <1>1, OrderedTypes
<1> QED
    BY <1>0, <1>1, <1>5, <1>6, <1>9, <1>10, <1>11, SingleStep DEF Single

LEMMA RefetchedOrder ==
    ASSUME Ordered, RowlessInv', Serial, NEW t \in Task, Refetched(t)
    PROVE  OrderInv'
<1>0. PICK l : l = task[t].log
    OBVIOUS
<1>1. task[t].at = "refetch" /\ UNCHANGED <<tables, discord, online, snapshot>>
    BY <1>0 DEF Refetched
<1>2. TaskOK(t) /\ l \in Alive /\ l \in Log /\ RowsOK(l)
    BY <1>0, <1>1, OrderedTypes, OneLog DEF TaskOK, HandlerOK, OnLog, Single
<1>3. task' = [task EXCEPT ![t].at = "resume", ![t].mentions = content[l]]
    BY <1>0, <1>2 DEF Refetched, Alive
<1>4. /\ task'[t].at = "resume" /\ task'[t].log = l /\ task'[t].history = {}
      /\ task'[t].rows = task[t].rows /\ task'[t].kept = task[t].kept
      /\ task'[t].mentions = content[l]
      /\ \A u \in Task \ {t} : task'[u] = task[u]
    <2>1. task[t].history = {}
        BY <1>0, <1>1, OneLog DEF Single
    <2> QED
        BY <1>0, <1>3, <2>1, OrderedTypes DEF TaskRecord
<1>5. TaskOK(t)'
    <2>1. l \notin hosted /\ task[t].kept = {} /\ OfCrew(l, task[t].rows)
        BY <1>0, <1>1, <1>2 DEF TaskOK, HandlerOK
    <2>2. OfCrew(task[t].log, task[t].rows)' /\ OnLog(t)'
        BY <1>0, <1>1, <1>2, <1>4, <2>1 DEF OfCrew, OnLog, Alive, discord
    <2> QED
        BY <1>0, <1>1, <1>4, <2>1, <2>2 DEF TaskOK, HandlerOK, ViewOK, BackfillOK, tables, discord
<1>6. RowsOK(l)' /\ PointsMatchRows'
    BY <1>0, <1>1, <1>2, OrderedTypes, RowsStay DEF RowsOK, OfCrew, tables, discord, subclassTables
<1>7. snapshot' = {}
    BY <1>0, <1>1, OrderedTypes
<1> QED
    BY <1>0, <1>1, <1>4, <1>5, <1>6, <1>7, SingleStep DEF Single, tables

LEMMA ResumeOrder ==
    ASSUME Ordered, RowlessInv', Serial, NEW t \in Task, Resume(t)
    PROVE  OrderInv' /\ (Cardinality(task[t].mentions) > 1 => task[t].log \in hosted')
<1>0. PICK l : l = task[t].log
    OBVIOUS
<1>00. PICK m : m = content[l]
    OBVIOUS
<1>000. PICK rows : rows = task[t].rows
    OBVIOUS
<1>1. task[t].at = "resume" /\ UNCHANGED <<discord, online>> /\ Finish(t)
    BY <1>0, <1>00, <1>000 DEF Resume
<1>2. TaskOK(t) /\ l \in Alive /\ l \in Log
    BY <1>0, <1>00, <1>000, <1>1, OrderedTypes, OneLog DEF TaskOK, HandlerOK, OnLog, Single
<1>3. /\ task[t].mentions = m /\ task[t].kept = {} /\ l \notin hosted /\ OfCrew(l, rows)
    BY <1>0, <1>00, <1>000, <1>1, <1>2 DEF TaskOK, HandlerOK
<1>4. voyages[l] = {} /\ subclasses[l] = {} /\ rows \subseteq Row /\ m \subseteq Sailor
    <2>1. m \in Mentions \union {{}} /\ task[t] \in TaskRecord
        BY <1>0, <1>00, <1>000, <1>2, OrderedTypes DEF TypeOK
    <2> QED
        BY <1>0, <1>00, <1>000, <1>2, <1>3, <2>1, OrderedTypes, VoyageLedgerAssumption DEF ForeignKeys, TaskRecord
<1>5. Visible(snapshot) = hosted
    BY <1>0, <1>00, <1>000, OrderedTypes DEF Visible
<1>6. ProcessVoyageLog(l, m, hosted) /\ SaveSubclasses(l, rows)
    BY <1>0, <1>00, <1>000, <1>3, <1>5 DEF Resume, SaveAgain
<1>7. snapshot' = {}
    BY <1>0, <1>00, <1>000, <1>3, <1>5, OrderedTypes DEF Resume, SessionAfter
<1>8. Cardinality(m) \in Nat
    BY <1>0, <1>00, <1>000, <1>4, SailorsFinite
<1>9. /\ \A k \in Log \ {l} : (k \in hosted' <=> k \in hosted) /\ voyages'[k] = voyages[k]
      /\ Cardinality(m) > 1 => l \in hosted' /\ voyages'[l] = m
      /\ ~(Cardinality(m) > 1) => l \notin hosted' /\ rows = {}
    <2>1. CASE Cardinality(m) > 1
        <3>1. hosted' = hosted \union {l} /\ voyages' = [voyages EXCEPT ![l] = m]
            BY <1>0, <1>00, <1>000, <1>3, <1>4, <1>6, <1>8, <2>1 DEF ProcessVoyageLog, Skipped
        <3> QED
            BY <1>0, <1>00, <1>000, <1>2, <2>1, <3>1, OrderedTypes DEF VoyageTypes
    <2>2. CASE ~(Cardinality(m) > 1)
        <3>1. UNCHANGED voyageTables /\ rows = {}
            BY <1>0, <1>00, <1>000, <1>3, <1>6, <1>8, <2>2 DEF ProcessVoyageLog, Skipped, OfCrew
        <3> QED
            BY <1>0, <1>00, <1>000, <1>3, <2>2, <3>1 DEF voyageTables
    <2> QED
        BY <1>0, <1>00, <1>000, <2>1, <2>2
<1>10. /\ subclasses'[l] = rows /\ \A k \in Log \ {l} : subclasses'[k] = subclasses[k]
       /\ PointsMatchRows'
    BY <1>0, <1>00, <1>000, <1>2, <1>4, <1>6, <1>9, OrderedTypes, SaveAll
<1>11. RowsOK(l)'
    BY <1>0, <1>00, <1>000, <1>1, <1>3, <1>9, <1>10 DEF RowsOK, OfCrew, discord
<1>12. Settled(l)'
    <2>1. Crewed(l)' <=> Cardinality(m) > 1
        BY <1>0, <1>00, <1>000, <1>1, <1>2 DEF Crewed, Alive, discord
    <2> QED
        BY <1>0, <1>00, <1>000, <1>1, <1>9, <2>1 DEF Settled, NotWrong, discord
<1>13. OrderInv'
    BY <1>0, <1>00, <1>000, <1>1, <1>7, <1>9, <1>10, <1>11, <1>12, FinishFrame, SingleStep DEF Single
<1> QED
    BY <1>0, <1>00, <1>000, <1>3, <1>9, <1>13

LEMMA DeleteFetchedOrder ==
    ASSUME Ordered, RowlessInv', Serial, NEW t \in Task, DeleteFetched(t)
    PROVE  OrderInv'
<1>0. PICK l : l = task[t].log
    OBVIOUS
<1>1. /\ task[t].at = "delete" /\ UNCHANGED <<discord, online, snapshot>> /\ Finish(t)
      /\ RemoveVoyageLogData(l)
    BY <1>0 DEF DeleteFetched
<1>2. TaskOK(t) /\ l \in deleted /\ l \in Log /\ RowsOK(l)
    BY <1>0, <1>1, OrderedTypes, OneLog DEF TaskOK, HandlerOK, Single
<1>3. /\ l \notin hosted' /\ subclasses'[l] = {}
      /\ \A k \in Log \ {l} : /\ k \in hosted' <=> k \in hosted
                              /\ voyages'[k] = voyages[k]
                              /\ subclasses'[k] = subclasses[k]
      /\ PointsMatchRows'
    BY <1>0, <1>1, <1>2, OrderedTypes, RemoveAll
<1>4. Settled(l)' /\ RowsOK(l)'
    BY <1>0, <1>1, <1>2, <1>3 DEF Settled, NotWrong, Crewed, Alive, discord, RowsOK, OfCrew
<1>5. snapshot' = {}
    BY <1>0, <1>1, OrderedTypes
<1> QED
    BY <1>0, <1>1, <1>3, <1>4, <1>5, FinishFrame, SingleStep DEF Single

-----------------------------------------------------------------------------
(***************************************************************************)
(* on_ready.                                                               *)
(***************************************************************************)
LEMMA NewestIsAll ==
    ASSUME TypeOK, Serial
    PROVE  Newest(Alive) = Alive
<1> SUFFICES ASSUME NEW l \in Alive
             PROVE  Cardinality({k \in Alive : k > l}) < PageSize
    BY DEF Newest
<1> DEFINE S == {k \in Alive : k > l}
<1>1. Alive \subseteq Log /\ l \in Log
    BY LedgerAssumption DEF Alive, Log, TypeOK
<1>2. S \subseteq Log \ {l} /\ l \notin S /\ S \in SUBSET Log
    <2>1. l \in Nat /\ ~(l > l)
        BY <1>1, LedgerAssumption DEF Log
    <2>2. l \notin S /\ S \subseteq Log
        BY <1>1, <2>1
    <2> QED
        BY <2>2
<1>3. Cardinality(S \union {l}) = Cardinality(S) + 1
    BY <1>1, <1>2, AddLog
<1>4. IsFiniteSet(Log) /\ Cardinality(Log) = MaxLog
    <2>1. IsFiniteSet(1 .. MaxLog)
          /\ Cardinality(1 .. MaxLog) = IF 1 > MaxLog THEN 0 ELSE MaxLog - 1 + 1
        BY FS_Interval, LedgerAssumption
    <2> QED
        BY <2>1, LedgerAssumption DEF Log
<1>5. Cardinality(S \union {l}) <= Cardinality(Log)
    BY <1>1, <1>2, <1>4, FS_Subset
<1>6. Cardinality(S) \in Nat /\ PageSize \in Nat /\ MaxLog \in Nat
    BY <1>2, LogsFinite, VoyageLedgerAssumption, LedgerAssumption
<1> HIDE DEF S
<1>7. Cardinality(S) < PageSize
    BY <1>3, <1>4, <1>5, <1>6 DEF Serial
<1> QED
    BY <1>7 DEF S

\* Nothing changes for a coroutine.
LEMMA TaskStays ==
    ASSUME NEW u \in Task, task'[u] = task[u], TaskOK(u),
           posted' = posted, content' = content, deleted' = deleted,
           hosted' = hosted, voyages' = voyages, subclasses' = subclasses
    PROVE  TaskOK(u)'
<1>1. \A k : /\ k \in Alive' <=> k \in Alive
             /\ NotWrong(k)' <=> NotWrong(k)
             /\ \A rows : OfCrew(k, rows)' <=> OfCrew(k, rows)
             /\ \A seen : Visible(seen)' = Visible(seen)
    BY DEF Alive, NotWrong, Crewed, OfCrew, Visible
<1>2. HandlerOK(u)'
    BY <1>1 DEF TaskOK, HandlerOK, OnLog, OfCrew, Alive
<1>3. ViewOK(u)'
    BY <1>1 DEF TaskOK, ViewOK, OnLog, OfCrew, NotWrong, Crewed, Alive
<1>4. BackfillOK(u)'
    <2>1. BackfillOK(u) /\ \A l \in Log : NotWrong(l)' <=> NotWrong(l)
        BY <1>1 DEF TaskOK
    <2>2. ASSUME NEW p \in task[u].history
          PROVE  /\ p[1] \in Alive' <=> p[1] \in Alive
                 /\ NotWrong(p[1])' <=> NotWrong(p[1])
                 /\ p[1] \in Visible(task[u].seen)' <=> p[1] \in Visible(task[u].seen)
        BY <1>1 DEF Visible
    <2> QED
        BY <2>1, <2>2 DEF BackfillOK
<1> QED
    BY <1>2, <1>3, <1>4 DEF TaskOK

LEMMA HistoryFetchedOrder ==
    ASSUME Ordered, RowlessInv', Serial, NEW t \in Task, HistoryFetched(t)
    PROVE  OrderInv'
<1>1. task[t].at = "connect" /\ UNCHANGED <<tables, discord, online, snapshot>>
    BY DEF HistoryFetched
<1>2. /\ TaskOK(t) /\ task[t].log = 0 /\ task[t].seen = {}
      /\ \A k \in Log : NotWrong(k)
    BY <1>1, OrderedTypes DEF TaskOK, BackfillOK
<1>3. \A u \in Task \ {t}, k \in Log : ~Works(u, k)
    BY <1>1 DEF Ordered, OrderInv, OneAtWork, Works
<1>4. /\ posted' = posted /\ content' = content /\ deleted' = deleted
      /\ hosted' = hosted /\ voyages' = voyages /\ subclasses' = subclasses
      /\ points' = points /\ online' = online /\ snapshot' = {}
    BY <1>1, OrderedTypes DEF tables, discord
<1>5. \A k \in Log : Elsewhere(0) /\ (Settled(k)' <=> Settled(k)) /\ LogOK(k)'
                     /\ (NotWrong(k)' <=> NotWrong(k))
    <2>1. Elsewhere(0)
        BY <1>4 DEF Elsewhere
    <2> QED
        BY <2>1, <1>4, LogElsewhere, LogOKElsewhere, OrderedTypes
           DEF OrderInv, RowlessInv, LedgerInv
<1>6. \A u \in Task \ {t} : task'[u] = task[u]
    BY OrderedTypes DEF HistoryFetched, Finish
<1>7. \A u \in Task \ {t} : TaskOK(u)'
    BY <1>4, <1>6, OrderedTypes, TaskStays
<1>8. online
    <2>1. Idle.at = "idle"
        BY DEF Idle
    <2> QED
        BY <1>1, <2>1 DEF Ordered, OrderInv
<1>9. CASE Alive = {}
    <2>1. task'[t] = Idle
        BY <1>9, OrderedTypes DEF HistoryFetched, Finish
    <2>2. \A k \in Log : Settled(k)'
        BY <1>2, <1>5, <1>9 DEF Settled, Crewed
    <2>3. TaskOK(t)' /\ \A k \in Log : ~Works(t, k)'
        BY <2>1, IdleOK
    <2>4. \A u \in Task, k \in Log : ~Works(u, k)'
        BY <1>3, <1>6, <2>3 DEF Works
    <2>5. OneAtWork'
        BY <2>4 DEF OneAtWork
    <2>6. \A u \in Task : TaskOK(u)'
        BY <1>7, <2>3
    <2> QED
        BY <1>4, <1>5, <1>8, <2>2, <2>5, <2>6, OrderedTypes, RowsStay DEF OrderInv, subclassTables
<1>10. CASE Alive # {}
    <2>1. /\ task'[t].at = "page" /\ task'[t].log = 0 /\ task'[t].seen = {}
          /\ task'[t].history = {<<k, content[k]>> : k \in Alive}
        BY <1>2, <1>10, NewestIsAll, OrderedTypes DEF HistoryFetched, TaskRecord
    <2>2. Alive \subseteq Log /\ Alive' = Alive
        BY <1>4, LedgerAssumption, OrderedTypes DEF Alive, Log, TypeOK
    <2>3. \A k \in Log : Works(t, k)' <=> k \in Alive
        <3> SUFFICES ASSUME NEW k \in Log
                     PROVE  Works(t, k)' <=> k \in Alive
            OBVIOUS
        <3>1. Works(t, k)' <=> \E p \in {<<j, content[j]>> : j \in Alive} : p[1] = k
            BY <2>1, OrderedTypes DEF Works
        <3>2. ASSUME k \in Alive PROVE \E p \in {<<j, content[j]>> : j \in Alive} : p[1] = k
            <4>1. <<k, content[k]>> \in {<<j, content[j]>> : j \in Alive}
                BY <3>2
            <4> QED
                BY <4>1
        <3> QED
            BY <3>1, <3>2
    <2>4. \A k \in Log \ Alive : Settled(k)'
        BY <1>2, <1>5 DEF Settled, Crewed
    <2>5. TaskOK(t)'
        <3>0. ASSUME NEW p \in task'[t].history
              PROVE  p[1] \in Alive /\ p[2] = content[p[1]]
            BY <2>1
        <3>1. \A p \in task'[t].history :
                /\ p[1] \in Alive' /\ p[2] = content'[p[1]] /\ NotWrong(p[1])'
                /\ p[1] \in Visible(task[t].seen)' <=> p[1] \in hosted'
            BY <1>2, <1>4, <1>5, <2>1, <2>2, <3>0 DEF Visible
        <3> QED
            BY <2>1, <3>1 DEF TaskOK, HandlerOK, ViewOK, BackfillOK
    <2>6. \A u \in Task \ {t}, k \in Log : ~Works(u, k)'
        BY <1>3, <1>6 DEF Works
    <2>7. OneAtWork'
        BY <2>6 DEF OneAtWork
    <2>8. online' => \A k \in Log : (\A u \in Task : ~Works(u, k)') => Settled(k)'
        BY <2>3, <2>4
    <2>9. \A u \in Task : TaskOK(u)'
        BY <1>7, <2>5
    <2> QED
        BY <1>4, <1>5, <1>8, <2>7, <2>8, <2>9, OrderedTypes, RowsStay DEF OrderInv, subclassTables
<1> QED
    BY <1>9, <1>10

LEMMA BackfillOrder ==
    ASSUME Ordered, RowlessInv', Serial, NEW t \in Task, Backfill(t)
    PROVE  OrderInv'
<1>1. task[t].at = "page" /\ UNCHANGED <<subclassTables, discord, online, snapshot>>
    BY DEF Backfill
<1>2. PICK p \in task[t].history :
            /\ ProcessVoyageLog(p[1], p[2], Visible(task[t].seen))
            /\ IF task[t].history = {p}
               THEN Finish(t)
               ELSE task' = [task EXCEPT
                        ![t].history = @ \ {p},
                        ![t].seen = SessionAfter(p[1], p[2], @)]
    BY DEF Backfill
<1>3. PICK l : l = p[1]
    OBVIOUS
<1>4. PICK m : m = p[2]
    OBVIOUS
<1>5. /\ task[t].log = 0
      /\ \A q \in task[t].history :
            /\ q[1] \in Log /\ q = <<q[1], q[2]>>
            /\ q[1] \in Alive /\ q[2] = content[q[1]] /\ NotWrong(q[1])
            /\ q[1] \in Visible(task[t].seen) <=> q[1] \in hosted
    <2>1. task[t] \in TaskRecord
        BY OrderedTypes
    <2>2. task[t].history \subseteq Log \X SUBSET Sailor
        BY <2>1 DEF TaskRecord
    <2> QED
        BY <1>1, <2>2, OrderedTypes DEF TaskOK, BackfillOK
<1>6. /\ l \in Log /\ l \in Alive /\ m = content[l] /\ NotWrong(l) /\ p = <<l, m>>
      /\ l \in Visible(task[t].seen) <=> l \in hosted
    BY <1>3, <1>4, <1>5
<1>7. Cardinality(m) \in Nat /\ m \subseteq Sailor
    <2>1. m \in Mentions \union {{}}
        BY <1>6, OrderedTypes DEF TypeOK
    <2>2. m \subseteq Sailor
        BY <2>1, VoyageLedgerAssumption
    <2> QED
        BY <2>2, SailorsFinite
<1>8. /\ \A k \in Log \ {l} : (k \in hosted' <=> k \in hosted) /\ voyages'[k] = voyages[k]
      /\ l \in hosted' <=> Cardinality(m) > 1
      /\ l \in hosted' => voyages'[l] = m
      /\ l \in hosted => UNCHANGED voyageTables
    <2>1. CASE Cardinality(m) <= 1 \/ l \in hosted
        <3>1. UNCHANGED voyageTables
            BY <1>2, <1>3, <1>4, <1>6, <2>1 DEF ProcessVoyageLog, Skipped
        <3>2. l \in hosted => Cardinality(m) > 1 /\ voyages[l] = m
            BY <1>6 DEF NotWrong, Crewed
        <3> QED
            BY <1>7, <2>1, <3>1, <3>2 DEF voyageTables
    <2>2. CASE ~(Cardinality(m) <= 1 \/ l \in hosted)
        <3>1. voyages[l] = {}
            BY <1>6, <2>2, OrderedTypes DEF ForeignKeys
        <3>2. hosted' = hosted \union {l} /\ voyages' = [voyages EXCEPT ![l] = m]
            BY <1>2, <1>3, <1>4, <1>6, <2>2, <3>1 DEF ProcessVoyageLog, Skipped
        <3> QED
            BY <1>6, <1>7, <2>2, <3>2, OrderedTypes DEF VoyageTypes
    <2> QED
        BY <2>1, <2>2
<1>9. /\ posted' = posted /\ content' = content /\ deleted' = deleted
      /\ subclasses' = subclasses /\ online' = online /\ snapshot' = {}
    BY <1>1, OrderedTypes DEF subclassTables, discord
<1>10. Elsewhere(l)
    BY <1>8, <1>9 DEF Elsewhere
<1>11. Settled(l)'
    BY <1>6, <1>8, <1>9 DEF Settled, NotWrong, Crewed, Alive
<1>12. LogOK(l)'
    <2>1. l <= posted
        BY <1>6, OrderedTypes DEF Alive, TypeOK
    <2>2. subclasses[l] # {} => l \in hosted
        BY <1>6, OrderedTypes DEF ForeignKeys
    <2>3. RowsOK(l)'
        BY <1>6, <1>8, <1>9, <2>2, OrderedTypes DEF RowsOK, OfCrew, voyageTables
    <2> QED
        BY <1>9, <2>1, <2>3 DEF LogOK
<1>13. \A u \in Task \ {t} : task'[u] = task[u]
    BY <1>2, OrderedTypes DEF Finish
<1>14. \A u \in Task \ {t} : ~Works(u, l)
    BY <1>2, <1>3, <1>6 DEF Ordered, OrderInv, OneAtWork, Works
<1>15. \A k \in Log : Works(t, k) <=> \E q \in task[t].history : q[1] = k
    BY <1>1, <1>5, OrderedTypes DEF Works
<1>16. \A q \in task[t].history \ {p} : q[1] \in Log \ {l}
    BY <1>5, <1>6
<1>17. /\ TaskOK(t)'
       /\ \A k \in Log \ {l} : Works(t, k)' <=> Works(t, k)
    <2>1. CASE task[t].history = {p}
        <3>1. task'[t] = Idle
            BY <1>2, <2>1, OrderedTypes DEF Finish
        <3> QED
            BY <1>3, <1>15, <2>1, <3>1, IdleOK
    <2>2. CASE task[t].history # {p}
        <3>0. PICK after : after = SessionAfter(l, m, task[t].seen)
            OBVIOUS
        <3>1. /\ task'[t].at = "page" /\ task'[t].log = 0
              /\ task'[t].history = task[t].history \ {p}
              /\ task'[t].seen = after
            BY <1>1, <1>2, <1>3, <1>4, <1>5, <2>2, <3>0, OrderedTypes DEF TaskRecord
        <3>2. \A k \in Log \ {l} : Works(t, k)' <=> Works(t, k)
            BY <1>3, <1>15, <3>1, OrderedTypes DEF Works
        <3>3. ASSUME NEW q \in task[t].history \ {p}
              PROVE  q[1] \in Visible(after)' <=> q[1] \in hosted'
            <4>1. q[1] \in Visible(task[t].seen) <=> q[1] \in hosted
                BY <1>5
            <4>2. q[1] \in hosted' <=> q[1] \in hosted
                BY <1>8, <1>16
            <4>3. CASE Cardinality(m) <= 1
                <5>1. UNCHANGED voyageTables
                    BY <1>2, <1>3, <1>4, <4>3 DEF ProcessVoyageLog, Skipped
                <5> QED
                    BY <3>0, <4>1, <4>3, <5>1 DEF SessionAfter, Visible, voyageTables
            <4>4. CASE ~(Cardinality(m) <= 1) /\ l \in Visible(task[t].seen)
                <5>1. UNCHANGED voyageTables
                    BY <1>6, <1>8, <4>4
                <5>2. after = {Visible(task[t].seen)}
                    BY <3>0, <4>4 DEF SessionAfter
                <5> QED
                    BY <4>1, <4>2, <5>2 DEF Visible
            <4>5. CASE ~(Cardinality(m) <= 1) /\ l \notin Visible(task[t].seen)
                <5>1. after = {}
                    BY <3>0, <4>5 DEF SessionAfter
                <5> QED
                    BY <5>1 DEF Visible
            <4> QED
                BY <4>3, <4>4, <4>5
        <3>4. ASSUME NEW q \in task'[t].history
              PROVE  /\ q[1] \in Alive' /\ q[2] = content'[q[1]] /\ NotWrong(q[1])'
                     /\ q[1] \in Visible(task[t].seen)' <=> q[1] \in hosted'
            <4>1. q \in task[t].history \ {p}
                BY <3>1
            <4>2. q[1] \in Log \ {l} /\ q[1] \in Alive /\ q[2] = content[q[1]] /\ NotWrong(q[1])
                BY <1>5, <1>16, <4>1
            <4>3. q[1] \in Alive' /\ NotWrong(q[1])'
                BY <1>10, <4>2, LogElsewhere
            <4> QED
                BY <1>9, <3>1, <3>3, <4>1, <4>2, <4>3 DEF Visible
        <3>5. TaskOK(t)'
            BY <3>1, <3>4 DEF TaskOK, HandlerOK, ViewOK, BackfillOK
        <3> QED
            BY <3>2, <3>5
    <2> QED
        BY <2>1, <2>2
<1>18. online
    <2>1. Idle.at = "idle"
        BY DEF Idle
    <2> QED
        BY <1>1, <2>1 DEF Ordered, OrderInv
<1>19. PointsMatchRows' /\ TypeOK /\ TypeOK' /\ OrderInv
    BY <1>1, OrderedTypes, RowsStay DEF RowlessInv, LedgerInv
<1> QED
    BY <1>6, <1>9, <1>10, <1>11, <1>12, <1>13, <1>14, <1>17, <1>18, <1>19, OneStep

-----------------------------------------------------------------------------
(***************************************************************************)
(* Officers.                                                               *)
(***************************************************************************)
LEMMA CancelOrder ==
    ASSUME Ordered, RowlessInv', NEW t \in Task, Cancel(t)
    PROVE  OrderInv'
<1>1. PICK l : l = task[t].log
    OBVIOUS
<1>2. /\ task[t].at = "view" /\ Finish(t)
      /\ UNCHANGED <<tables, discord, online, snapshot>>
    BY DEF Cancel
<1>3. l \in Log /\ l \in Alive /\ l \in hosted /\ NotWrong(l) /\ RowsOK(l)
    BY <1>1, <1>2, OneLog, OrderedTypes DEF TaskOK, ViewOK, OnLog, Single
<1>4. Settled(l)' /\ RowsOK(l)' /\ PointsMatchRows' /\ snapshot' = {}
    BY <1>2, <1>3, OrderedTypes, RowsStay
       DEF Settled, NotWrong, Crewed, RowsOK, OfCrew, Alive, tables, discord, subclassTables
<1> QED
    BY <1>1, <1>2, <1>4, FinishFrame, SingleStep DEF Single, tables

LEMMA ConfirmFetchedOrder ==
    ASSUME Ordered, RowlessInv', NEW t \in Task, ConfirmFetched(t)
    PROVE  OrderInv'
<1>1. PICK l : l = task[t].log
    OBVIOUS
<1>2. /\ task[t].at = "view" /\ task' = [task EXCEPT ![t].at = "confirm"]
      /\ UNCHANGED <<tables, discord, online, snapshot>>
    BY DEF ConfirmFetched
<1>3. l \in Log /\ OnLog(t) /\ l \in hosted /\ NotWrong(l) /\ RowsOK(l) /\ ViewOK(t)
    BY <1>1, <1>2, OneLog, OrderedTypes DEF TaskOK, ViewOK, Single
<1>4. /\ task'[t].at = "confirm" /\ task'[t].log = l /\ task'[t].history = {}
      /\ task'[t].rows = task[t].rows /\ task'[t].kept = task[t].kept
      /\ task'[t].gone = task[t].gone
      /\ \A u \in Task \ {t} : task'[u] = task[u]
    BY <1>1, <1>2, <1>3, OrderedTypes DEF TaskRecord, OnLog
<1>5. RowsOK(l)' /\ PointsMatchRows' /\ snapshot' = {} /\ NotWrong(l)'
    BY <1>2, <1>3, OrderedTypes, RowsStay
       DEF NotWrong, Crewed, RowsOK, OfCrew, Alive, tables, discord, subclassTables
<1>6. /\ posted' = posted /\ content' = content /\ deleted' = deleted
      /\ hosted' = hosted /\ subclasses' = subclasses
    BY <1>2 DEF tables, discord
<1>7. TaskOK(t)'
    <2>1. OnLog(t)' /\ OfCrew(task[t].log, task[t].rows)'
        BY <1>1, <1>2, <1>3, <1>4, <1>6 DEF OnLog, Alive, OfCrew, ViewOK
    <2> QED
        BY <1>1, <1>2, <1>3, <1>4, <1>5, <1>6, <2>1
           DEF TaskOK, HandlerOK, ViewOK, BackfillOK
<1> QED
    BY <1>1, <1>2, <1>4, <1>5, <1>7, SingleStep DEF Single, tables

LEMMA ConfirmOrder ==
    ASSUME Ordered, RowlessInv', NEW t \in Task, Confirm(t)
    PROVE  OrderInv'
<1>1. PICK l : l = task[t].log
    OBVIOUS
<1>2. PICK rows : rows = task[t].rows
    OBVIOUS
<1>3. PICK touched : touched = task[t].gone \union Named(rows)
    OBVIOUS
<1>4. /\ task[t].at = "confirm" /\ Finish(t)
      /\ UNCHANGED <<voyageTables, discord, online, snapshot>>
    BY DEF Confirm
<1>5. /\ l \in Log /\ l \in Alive /\ l \in hosted /\ NotWrong(l) /\ RowsOK(l)
      /\ task[t].kept = subclasses[l] /\ OfCrew(l, rows)
    BY <1>1, <1>2, <1>4, OneLog, OrderedTypes DEF TaskOK, ViewOK, OnLog, Single
<1>6. PICK first \in touched :
        /\ points' = Increment(Decrement(points,
                        RowsOf(subclasses[l], {first})
                            \union RowsOf(subclasses[l], touched \ {first})), rows)
        /\ subclasses' = [subclasses EXCEPT
                            ![l] = (@ \ RowsOf(@, touched)) \union rows]
    BY <1>1, <1>2, <1>3, <1>5 DEF Confirm
<1>7. PICK out : out = RowsOf(subclasses[l], touched)
    OBVIOUS
<1>8. RowsOf(subclasses[l], {first}) \union RowsOf(subclasses[l], touched \ {first}) = out
    BY <1>6, <1>7 DEF RowsOf
<1>9. /\ points' = Increment(Decrement(points, out), rows)
      /\ subclasses' = [subclasses EXCEPT ![l] = (@ \ out) \union rows]
      /\ out \subseteq subclasses[l] /\ rows \subseteq Row
      /\ rows \intersect (subclasses[l] \ out) = {}
    <2>1. rows \subseteq Row
        BY <1>2, OrderedTypes DEF TaskRecord
    <2>2. \A r \in rows : r[1] \in touched
        BY <1>3 DEF Named
    <2>3. out \subseteq subclasses[l] /\ rows \intersect (subclasses[l] \ out) = {}
        BY <1>7, <2>2 DEF RowsOf
    <2>4. subclasses' = [subclasses EXCEPT ![l] = (@ \ out) \union rows]
        BY <1>6, <1>7
    <2> QED
        BY <1>6, <1>8, <2>1, <2>3, <2>4
<1>10. PointsMatchRows'
    BY <1>5, <1>9, OrderedTypes, RowsMove
<1>11. /\ subclasses'[l] = (subclasses[l] \ out) \union rows
       /\ \A k \in Log \ {l} : subclasses'[k] = subclasses[k]
    BY <1>5, <1>9, OrderedTypes DEF SubclassTypes
<1>12. /\ posted' = posted /\ content' = content /\ deleted' = deleted
       /\ hosted' = hosted /\ voyages' = voyages
    BY <1>4 DEF voyageTables, discord
<1>13. RowsOK(l)'
    <2>1. Cardinality(content[l]) > 1 /\ voyages[l] = content[l]
        BY <1>5 DEF NotWrong, Crewed
    <2>2. Named(subclasses'[l]) \subseteq content[l]
        BY <1>5, <1>11 DEF RowsOK, OfCrew, Named
    <2> QED
        BY <1>12, <2>1, <2>2 DEF RowsOK, OfCrew
<1>14. Settled(l)'
    BY <1>5, <1>12 DEF Settled, NotWrong, Crewed, Alive
<1>15. snapshot' = {}
    BY <1>4, OrderedTypes
<1> QED
    BY <1>1, <1>4, <1>10, <1>11, <1>12, <1>13, <1>14, <1>15, FinishFrame, SingleStep
       DEF Single

\* A coroutine begins to work on a log no other works on.
LEMMA BeginStep ==
    ASSUME Ordered, RowlessInv', online, UNCHANGED online, snapshot' = {},
           NEW t \in Task, NEW l \in Log, \A u \in Task : ~Works(u, l),
           NEW c, Begin(t, c), c.log = l, c.history = {}, c.at \in Single,
           Elsewhere(l), TaskOK(t)', LogOK(l)', PointsMatchRows'
    PROVE  OrderInv'
<1>1. task[t] = Idle /\ task'[t] = c /\ \A u \in Task \ {t} : task'[u] = task[u]
    BY OrderedTypes DEF Begin
<1>2. \A k \in Log \ {l} : ~Works(t, k) /\ ~Works(t, k)'
    <2>1. Idle.at = "idle" /\ Idle.log = 0 /\ Idle.history = {}
        BY DEF Idle
    <2> QED
        BY <1>1, <2>1, OrderedTypes DEF Works, Single
<1>3. Works(t, l)'
    BY <1>1 DEF Works
<1>4. TypeOK /\ TypeOK' /\ OrderInv
    BY OrderedTypes DEF RowlessInv, LedgerInv
<1> QED
    BY <1>1, <1>2, <1>3, <1>4, OneStep

LEMMA AddSubclassOrder ==
    ASSUME Ordered, RowlessInv', Serial, NEW l \in Log, NEW rows \in Wanted(l),
           AddSubclass(l, rows)
    PROVE  OrderInv'
<1>1. PICK updated : updated = {s \in Named(rows) :
                                    RowsOf(rows, {s}) # RowsOf(subclasses[l], {s})}
    OBVIOUS
<1>2. PICK missing : missing = Named(subclasses[l]) \ Named(rows)
    OBVIOUS
<1>3. PICK c : c = [Idle EXCEPT !.at = "view", !.log = l, !.rows = RowsOf(rows, updated),
                                !.gone = missing, !.kept = subclasses[l]]
    OBVIOUS
<1>4. /\ online /\ l \in Alive /\ l \in hosted /\ Apart({l})
      /\ UNCHANGED <<tables, discord, online, snapshot>>
      /\ \E t \in Task : Begin(t, c)
    BY <1>1, <1>2, <1>3 DEF AddSubclass
<1>5. PICK t \in Task : Begin(t, c)
    BY <1>4
<1>6. \A u \in Task : ~Works(u, l)
    BY <1>4, NotBusy, OrderedTypes DEF Serial
<1>7. NotWrong(l) /\ RowsOK(l) /\ LogOK(l)
    BY <1>4, <1>6, OrderedTypes DEF OrderInv, Settled
<1>8. /\ c.at = "view" /\ c.log = l /\ c.history = {} /\ c.rows = RowsOf(rows, updated)
      /\ c.gone = missing /\ c.kept = subclasses[l]
    BY <1>3 DEF Idle
<1>9. /\ Named(c.rows) \subseteq Named(rows) /\ Named(rows) \subseteq content[l]
      /\ c.gone \intersect Named(c.rows) = {}
    BY <1>2, <1>8 DEF Wanted, Named, RowsOf
<1>10. /\ posted' = posted /\ content' = content /\ deleted' = deleted
       /\ hosted' = hosted /\ voyages' = voyages /\ subclasses' = subclasses
    BY <1>4 DEF tables, discord
<1>11. task'[t] = c
    BY <1>5, OrderedTypes DEF Begin
<1>12. TaskOK(t)'
    <2>1. NotWrong(l)' /\ OnLog(t)'
        BY <1>4, <1>7, <1>8, <1>10, <1>11 DEF NotWrong, Crewed, Alive, OnLog
    <2>2. OfCrew(l, c.rows)'
        BY <1>4, <1>7, <1>9, <1>10 DEF OfCrew, NotWrong, Crewed
    <2> QED
        BY <1>4, <1>8, <1>9, <1>10, <1>11, <2>1, <2>2
           DEF TaskOK, HandlerOK, ViewOK, BackfillOK, OfCrew
<1>13. LogOK(l)' /\ Elsewhere(l)
    BY <1>7, <1>10 DEF LogOK, RowsOK, OfCrew, Elsewhere
<1>14. PointsMatchRows' /\ snapshot' = {}
    BY <1>4, OrderedTypes, RowsStay DEF tables, subclassTables
<1> QED
    BY <1>4, <1>5, <1>6, <1>8, <1>12, <1>13, <1>14, BeginStep DEF Single

-----------------------------------------------------------------------------
(***************************************************************************)
(* Users.                                                                  *)
(***************************************************************************)

\* Before the bot is online nothing is recorded and nobody is at work.
LEMMA OfflineStep ==
    ASSUME Ordered, RowlessInv', ~online, UNCHANGED <<tables, online, task, snapshot>>,
           \A l \in Log : l \in deleted' => l <= posted'
    PROVE  OrderInv'
<1>1. hosted = {} /\ \A t \in Task : task[t] = Idle
    BY DEF Ordered, OrderInv
<1>2. \A t \in Task : TaskOK(t)' /\ \A l \in Log : ~Works(t, l)'
    BY <1>1, IdleOK
<1>3. OneAtWork'
    BY <1>2 DEF OneAtWork
<1>4. \A l \in Log : LogOK(l)'
    <2>1. hosted' = {} /\ \A l \in Log : subclasses'[l] = {}
        BY <1>1, OrderedTypes DEF ForeignKeys, tables
    <2> QED
        BY <2>1 DEF LogOK, RowsOK, OfCrew
<1>5. PointsMatchRows' /\ snapshot' = {}
    BY OrderedTypes, RowsStay DEF tables, subclassTables
<1> QED
    BY <1>1, <1>2, <1>3, <1>4, <1>5 DEF OrderInv, tables

\* Views are counted, and a log without one has no subclass rows.
LEMMA RowsKeepContent ==
    ASSUME Ordered, RowlessInv', SteadyOrNoViews, UNCHANGED tables,
           NEW l \in Log, l <= posted, RowsOK(l)
    PROVE  RowsOK(l)'
<1>1. subclasses' = subclasses /\ voyages' = voyages
    BY DEF tables
<1>2. CASE subclasses[l] = {}
    BY <1>1, <1>2 DEF RowsOK, OfCrew
<1>3. CASE subclasses[l] # {}
    <2>1. used'.views # 0
        BY <1>1, <1>3 DEF RowlessInv, NoSubclasses
    <2>2. l \in 1 .. posted
        BY OrderedTypes, LedgerAssumption DEF Log, TypeOK
    <2>3. content'[l] = content[l]
        BY <2>1, <2>2 DEF SteadyOrNoViews, Steady
    <2> QED
        BY <1>1, <2>3 DEF RowsOK, OfCrew
<1> QED
    BY <1>2, <1>3

LEMMA EventOrder ==
    ASSUME Ordered, RowlessInv', Serial, SteadyOrNoViews, NEW l \in Log,
           NEW kind \in {"edit", "delete"}, l \in Alive, Apart({l}), Event(kind, l),
           UNCHANGED <<tables, posted, online, snapshot>>, Elsewhere(l),
           kind = "edit" => l \in Alive', kind = "delete" => l \in deleted'
    PROVE  OrderInv'
<1>1. CASE ~online
    <2>1. \A k \in Log : k \in deleted' => k <= posted'
        BY OrderedTypes DEF OrderInv, LogOK, Elsewhere, Alive, TypeOK
    <2> QED
        BY <1>1, <2>1, OfflineStep DEF Event
<1>2. CASE online
    <2>1. PICK c : c = [Idle EXCEPT !.at = kind, !.log = l]
        OBVIOUS
    <2>2. PICK t \in Task : Begin(t, c)
        BY <1>2, <2>1 DEF Event
    <2>3. c.at = kind /\ c.log = l /\ c.history = {}
        BY <2>1 DEF Idle
    <2>4. \A u \in Task : ~Works(u, l)
        BY NotBusy, OrderedTypes DEF Serial
    <2>5. task'[t] = c
        BY <2>2, OrderedTypes DEF Begin
    <2>6. l \in 1 .. posted /\ l <= posted
        BY OrderedTypes DEF Alive, TypeOK
    <2>7. TaskOK(t)'
        BY <2>3, <2>5, <2>6 DEF TaskOK, HandlerOK, ViewOK, BackfillOK, OnLog
    <2>8. LogOK(l)'
        <3>1. RowsOK(l)'
            BY <2>6, OrderedTypes, RowsKeepContent
        <3> QED
            BY <2>6, <3>1 DEF LogOK
    <2>9. PointsMatchRows' /\ snapshot' = {}
        BY OrderedTypes, RowsStay DEF tables, subclassTables
    <2> QED
        BY <1>2, <2>2, <2>3, <2>4, <2>7, <2>8, <2>9, BeginStep DEF Single
<1> QED
    BY <1>1, <1>2

LEMMA EditOrder ==
    ASSUME Ordered, RowlessInv', Serial, SteadyOrNoViews,
           NEW l \in Log, NEW m \in Mentions, Edit(l, m)
    PROVE  OrderInv'
<1>1. /\ l \in Alive /\ Apart({l}) /\ Event("edit", l)
      /\ content' = [content EXCEPT ![l] = m]
      /\ UNCHANGED <<tables, posted, deleted, online, snapshot>>
    BY DEF Edit
<1>2. Elsewhere(l)
    <2>1. content \in [Log -> Mentions \union {{}}]
        BY OrderedTypes DEF TypeOK
    <2> QED
        BY <1>1, <2>1 DEF Elsewhere, tables
<1>3. l \in Alive'
    BY <1>1 DEF Alive
<1> QED
    BY <1>1, <1>2, <1>3, EventOrder

LEMMA DeleteOrder ==
    ASSUME Ordered, RowlessInv', Serial, SteadyOrNoViews, NEW l \in Log, Delete(l)
    PROVE  OrderInv'
<1>1. /\ l \in Alive /\ Apart({l}) /\ Event("delete", l)
      /\ deleted' = deleted \union {l}
      /\ UNCHANGED <<tables, posted, content, online, snapshot>>
    BY DEF Delete
<1>2. Elsewhere(l)
    BY <1>1 DEF Elsewhere, tables
<1> QED
    BY <1>1, <1>2, EventOrder

LEMMA PostOrder ==
    ASSUME Ordered, RowlessInv', Serial, SteadyOrNoViews, NEW m \in Mentions, Post(m)
    PROVE  OrderInv'
<1>1. PICK l : l = posted + 1
    OBVIOUS
<1>2. /\ posted' = l /\ content' = [content EXCEPT ![l] = m]
      /\ UNCHANGED <<subclassTables, deleted, online, task, snapshot>>
      /\ IF online THEN ProcessVoyageLog(l, m, hosted) ELSE UNCHANGED voyageTables
      /\ posted < MaxLog
    BY <1>1 DEF Post, Serial
<1>3. TypeOK /\ TypeOK' /\ OrderInv /\ posted \in Nat /\ MaxLog \in Nat
    BY OrderedTypes, LedgerAssumption DEF RowlessInv, LedgerInv, TypeOK
<1>4. l \in Log /\ l \notin 1 .. posted /\ ~(l <= posted) /\ l \in 1 .. posted'
    BY <1>1, <1>2, <1>3 DEF Log
<1>5. CASE ~online
    <2>1. \A k \in Log : k \in deleted' => k <= posted'
        BY <1>1, <1>2, <1>3, LedgerAssumption DEF OrderInv, LogOK, Log
    <2> QED
        BY <1>2, <1>5, <2>1, OfflineStep DEF tables, voyageTables, subclassTables
<1>6. CASE online
    <2>1. l \notin hosted /\ voyages[l] = {} /\ subclasses[l] = {} /\ l \notin deleted
        BY <1>4, OrderedTypes DEF OrderInv, LogOK, ForeignKeys
    <2>2. m \subseteq Sailor /\ Cardinality(m) \in Nat
        BY VoyageLedgerAssumption, SailorsFinite
    <2>3. /\ \A k \in Log \ {l} : (k \in hosted' <=> k \in hosted) /\ voyages'[k] = voyages[k]
          /\ l \in hosted' <=> Cardinality(m) > 1
          /\ l \in hosted' => voyages'[l] = m
        <3>1. CASE Cardinality(m) <= 1
            BY <1>2, <1>6, <2>1, <2>2, <3>1 DEF ProcessVoyageLog, Skipped, voyageTables
        <3>2. CASE ~(Cardinality(m) <= 1)
            <4>1. hosted' = hosted \union {l} /\ voyages' = [voyages EXCEPT ![l] = m]
                BY <1>2, <1>6, <2>1, <3>2 DEF ProcessVoyageLog, Skipped
            <4> QED
                BY <1>4, <2>2, <3>2, <4>1, OrderedTypes DEF VoyageTypes
        <3> QED
            BY <3>1, <3>2
    <2>4. content'[l] = m /\ \A k \in Log \ {l} : content'[k] = content[k]
        BY <1>2, <1>3, <1>4 DEF TypeOK
    <2>5. subclasses' = subclasses /\ deleted' = deleted /\ task' = task
        BY <1>2 DEF subclassTables
    <2>6. Elsewhere(l)
        <3>1. \A k \in Log \ {l} : k \in 1 .. posted <=> k \in 1 .. posted'
            BY <1>1, <1>2, <1>3, LedgerAssumption DEF Log
        <3> QED
            BY <2>3, <2>4, <2>5, <3>1 DEF Elsewhere
    <2>7. NotWrong(l)' /\ Settled(l)'
        <3>1. Crewed(l)' <=> Cardinality(m) > 1
            BY <1>4, <2>1, <2>4, <2>5 DEF Crewed, Alive
        <3> QED
            BY <2>3, <2>4, <3>1 DEF NotWrong, Settled
    <2>8. LogOK(l)'
        BY <1>1, <1>2, <1>3, <2>1, <2>5 DEF LogOK, RowsOK, OfCrew
    <2>9. \A k \in Log : LogOK(k)'
        BY <1>3, <2>6, <2>8, LogOKElsewhere DEF OrderInv
    <2>10. \A u \in Task, k \in Log : Works(u, k)' <=> Works(u, k)
        BY <2>5 DEF Works
    <2>11. ASSUME NEW u \in Task
           PROVE  TaskOK(u)'
        <3>1. TaskOK(u) /\ task[u] \in TaskRecord
            BY OrderedTypes
        <3>2. ASSUME task[u].at # "connect"
              PROVE  ~Works(u, l)
            <4>1. CASE task[u].at \in Single
                BY <1>4, <4>1, OneLog
            <4>2. CASE task[u].at = "idle"
                <5>1. task[u].log = 0 /\ task[u].history = {}
                    BY <3>1, <4>2 DEF TaskOK, Idle
                <5> QED
                    BY <1>4, <3>2, <5>1, OrderedTypes DEF Works
            <4>3. CASE task[u].at = "page"
                <5>1. /\ task[u].log = 0
                      /\ \A p \in task[u].history : p[1] \in Alive
                    BY <3>1, <4>3 DEF TaskOK, BackfillOK
                <5>2. l \notin Alive /\ l # 0
                    BY <1>4, OrderedTypes DEF Alive
                <5> QED
                    BY <3>2, <5>1, <5>2 DEF Works
            <4> QED
                BY <3>1, <3>2, <4>1, <4>2, <4>3 DEF TaskRecord, Awaits, Single
        <3>3. task'[u] = task[u] /\ (Works(u, l) => task[u].at = "connect" /\ NotWrong(l)')
            BY <2>5, <2>7, <3>2
        <3> QED
            BY <1>3, <1>4, <2>6, <3>1, <3>3, TaskElsewhere
    <2>12. OneAtWork'
        BY <2>10, OrderedTypes DEF OrderInv, OneAtWork
    <2>13. \A k \in Log : (\A u \in Task : ~Works(u, k)') => Settled(k)'
        <3> SUFFICES ASSUME NEW k \in Log, \A u \in Task : ~Works(u, k)', k # l
                     PROVE  Settled(k)'
            BY <2>7
        <3>1. Settled(k)
            BY <1>3, <1>6, <2>10 DEF OrderInv
        <3> QED
            BY <2>6, <3>1, LogElsewhere
    <2>14. PointsMatchRows' /\ snapshot' = {} /\ online'
        BY <1>2, <1>6, OrderedTypes, RowsStay
    <2> QED
        BY <2>9, <2>11, <2>12, <2>13, <2>14 DEF OrderInv
<1> QED
    BY <1>5, <1>6

\* A start or a reconnection waits until nobody is at work on any log.
LEMMA ReadyOrder ==
    ASSUME Ordered, RowlessInv', Serial, Ready
    PROVE  OrderInv'
<1>1. PICK c : c = [Idle EXCEPT !.at = "connect"]
    OBVIOUS
<1>2. /\ Apart(Log) /\ online' = TRUE /\ UNCHANGED <<tables, discord, snapshot>>
      /\ \E t \in Task : Begin(t, c)
    BY <1>1 DEF Ready
<1>3. PICK t \in Task : Begin(t, c)
    BY <1>2
<1>4. c.at = "connect" /\ c.log = 0 /\ c.history = {} /\ c.seen = {}
    BY <1>1 DEF Idle
<1>5. task'[t] = c /\ \A u \in Task \ {t} : task'[u] = task[u]
    BY <1>3, OrderedTypes DEF Begin
<1>6. \A u \in Task, k \in Log : ~Works(u, k)
    BY <1>2, NotBusy, OrderedTypes DEF Serial
<1>7. \A k \in Log : NotWrong(k)
    <2>1. CASE online
        BY <1>6, <2>1, OrderedTypes DEF OrderInv, Settled
    <2>2. CASE ~online
        BY <2>2, OrderedTypes DEF OrderInv, NotWrong
    <2> QED
        BY <2>1, <2>2
<1>8. /\ posted' = posted /\ content' = content /\ deleted' = deleted
      /\ hosted' = hosted /\ voyages' = voyages /\ subclasses' = subclasses
    BY <1>2 DEF tables, discord
<1>9. \A k \in Log : NotWrong(k)' /\ LogOK(k)'
    BY <1>7, <1>8, OrderedTypes DEF OrderInv, LogOK, RowsOK, OfCrew, NotWrong, Crewed, Alive
<1>10. \A k \in Log : Works(t, k)' /\ \A u \in Task \ {t} : ~Works(u, k)'
    BY <1>4, <1>5, <1>6 DEF Works
<1>11. ASSUME NEW u \in Task
       PROVE  TaskOK(u)'
    <2>1. CASE u = t
        BY <1>4, <1>5, <1>9, <2>1 DEF TaskOK, HandlerOK, ViewOK, BackfillOK
    <2>2. CASE u # t
        BY <1>5, <1>8, <2>2, OrderedTypes, TaskStays
    <2> QED
        BY <2>1, <2>2
<1>12. OneAtWork'
    BY <1>10 DEF OneAtWork
<1>13. PointsMatchRows' /\ snapshot' = {}
    BY <1>2, OrderedTypes, RowsStay DEF tables, subclassTables
<1> QED
    BY <1>2, <1>9, <1>10, <1>11, <1>12, <1>13 DEF OrderInv

\* A budget of nothing is never spent.
LEMMA NothingToSpend ==
    ASSUME TypeOK, NEW kind \in Budgets, NEW limit, limit = 0
    PROVE  ~Spend(kind, limit)
BY DEF Spend, TypeOK

LEMMA StillOrder ==
    ASSUME Ordered, UNCHANGED vars
    PROVE  OrderInv'
<1>1. /\ posted' = posted /\ content' = content /\ deleted' = deleted /\ online' = online
      /\ hosted' = hosted /\ voyages' = voyages /\ subclasses' = subclasses
      /\ points' = points /\ task' = task /\ snapshot' = snapshot
    BY DEF vars, tables, discord
<1>2. \A t \in Task : TaskOK(t)'
    BY <1>1, OrderedTypes, TaskStays
<1>3. \A t \in Task, l \in Log : Works(t, l)' <=> Works(t, l)
    BY <1>1 DEF Works
<1>4. \A l \in Log : LogOK(l)' /\ (Settled(l)' <=> Settled(l))
    BY <1>1, OrderedTypes
       DEF OrderInv, LogOK, RowsOK, OfCrew, Settled, NotWrong, Crewed, Alive
<1>5. OneAtWork'
    BY <1>3, OrderedTypes DEF OrderInv, OneAtWork
<1>6. PointsMatchRows'
    BY <1>1, OrderedTypes, RowsStay DEF subclassTables
<1> QED
    BY <1>1, <1>2, <1>3, <1>4, <1>5, <1>6, OrderedTypes DEF OrderInv

LEMMA OrderStep ==
    ASSUME Ordered, RowlessInv', Serial, SteadyOrNoViews, Next
    PROVE  OrderInv'
<1>1. TypeOK /\ {"crashes", "errors", "console"} \subseteq Budgets
    BY OrderedTypes DEF Budgets
<1>2. CASE Users
    BY <1>2, PostOrder, EditOrder, DeleteOrder DEF Users
<1>3. CASE Console
    BY <1>1, <1>3, NothingToSpend
       DEF Serial, Console, Initialize, DeleteData, DeleteSubclasses
<1>4. CASE Officers
    BY <1>4, AddSubclassOrder, CancelOrder, ConfirmFetchedOrder, ConfirmOrder DEF Officers
<1>5. CASE Ready
    BY <1>5, ReadyOrder
<1>6. CASE Crash
    BY <1>1, <1>6, NothingToSpend DEF Serial, Crash
<1>7. ASSUME NEW t \in Task, Handlers(t)
      PROVE  OrderInv'
    BY <1>7, EditFetchedOrder, RefetchedOrder, ResumeOrder, DeleteFetchedOrder,
       HistoryFetchedOrder, BackfillOrder DEF Handlers
<1>8. ASSUME NEW t \in Task, RequestFails(t)
      PROVE  OrderInv'
    BY <1>1, <1>8, NothingToSpend DEF Serial, RequestFails
<1> QED
    BY <1>2, <1>3, <1>4, <1>5, <1>6, <1>7, <1>8 DEF Next

LEMMA OrderInitially ==
    ASSUME Init, RowlessInv
    PROVE  OrderInv
<1>1. /\ hosted = {} /\ deleted = {} /\ ~online /\ snapshot = {}
      /\ \A t \in Task : task[t] = Idle
      /\ \A l \in Log : subclasses[l] = {}
      /\ \A r \in Row : points[r] = 0
    BY DEF Init, TablesInit
<1>2. Idle.at = "idle" /\ Idle.log = 0 /\ Idle.history = {}
    BY DEF Idle
<1>3. \A t \in Task : TaskOK(t)
    BY <1>1, <1>2 DEF TaskOK, HandlerOK, ViewOK, BackfillOK
<1>4. \A t \in Task, l \in Log : ~Works(t, l)
    BY <1>1, <1>2, OrderedTypes DEF Works, Log
<1>5. OneAtWork
    BY <1>4 DEF OneAtWork
<1>6. \A l \in Log : LogOK(l)
    BY <1>1 DEF LogOK, RowsOK, OfCrew
<1>7. PointsMatchRows
    <2>1. \A r \in Row : LogsWith(r) = {}
        BY <1>1 DEF LogsWith
    <2> QED
        BY <1>1, <2>1, FS_EmptySet DEF PointsMatchRows
<1> QED
    BY <1>1, <1>3, <1>5, <1>6, <1>7 DEF OrderInv

LEMMA OrderInvariant ==
    Serial => (Spec /\ [][SteadyOrNoViews]_vars => []Ordered)
<1> SUFFICES ASSUME Serial
             PROVE  Spec /\ [][SteadyOrNoViews]_vars => []Ordered
    OBVIOUS
<1>1. Init => Ordered
    BY RowlessInitially, OrderInitially DEF Ordered
<1>2. Ordered /\ [Next]_vars /\ [SteadyOrNoViews]_vars => Ordered'
    <2> SUFFICES ASSUME Ordered, [Next]_vars, [SteadyOrNoViews]_vars
                 PROVE  Ordered'
        OBVIOUS
    <2>1. RowlessInv'
        BY RowlessStep DEF Ordered
    <2>2. CASE UNCHANGED vars
        BY <2>1, <2>2, StillOrder DEF Ordered
    <2>3. CASE Next /\ SteadyOrNoViews
        BY <2>1, <2>3, OrderStep DEF Ordered
    <2> QED
        BY <2>2, <2>3
<1> QED
    BY <1>1, <1>2, PTL DEF Spec

\* Coroutines that do not overtake each other leave tables that follow the
\* channel, and points that are the sum of the subclass rows: edits, deletions,
\* reconnections with their backfill and subclass commands in any order.
THEOREM TablesInStep ==
    Serial => (Spec /\ [][SteadyOrNoViews]_vars => []TablesAgree)
<1> SUFFICES ASSUME Serial
             PROVE  Spec /\ [][SteadyOrNoViews]_vars => []TablesAgree
    OBVIOUS
<1>1. Ordered => TablesAgree
    <2> SUFFICES ASSUME Ordered
                 PROVE  TablesAgree
        OBVIOUS
    <2>1. ASSUME AtRest, NEW l \in Log
          PROVE  IF IsVoyage(l) THEN l \in hosted /\ voyages[l] = content[l]
                                ELSE l \notin hosted
        <3>1. Idle.at = "idle" /\ Idle.log = 0 /\ Idle.history = {}
            BY DEF Idle
        <3>2. \A t \in Task : ~Works(t, l)
            BY <2>1, <3>1, OrderedTypes DEF AtRest, Works
        <3>3. Settled(l)
            BY <2>1, <3>2, OrderedTypes DEF AtRest, OrderInv
        <3>4. IsVoyage(l) <=> Crewed(l)
            BY DEF IsVoyage, Crewed, Serial
        <3> QED
            BY <3>3, <3>4 DEF Settled, NotWrong
    <2> QED
        BY <2>1, OrderedTypes DEF TablesAgree, TablesFollowChannel
<1> QED
    BY <1>1, OrderInvariant, PTL

=============================================================================
