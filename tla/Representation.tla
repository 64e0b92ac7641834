--------------------------- MODULE Representation ---------------------------
(***************************************************************************)
(* Representation points: two columns per member, one for each department, *)
(* and a table of mutations with who changed what.  /representationmod     *)
(* checks who may do what and calls add_points or remove_points, which     *)
(* read the column, compute in Python and commit the new value together    *)
(* with the mutation; the record of a new member has a commit of its own.  *)
(* After the command's first await (its deferral) nothing is awaited until *)
(* the points are committed, so a use of it is one step.                   *)
(***************************************************************************)
EXTENDS Integers, Sequences, Functions

CONSTANTS
    Represented,    \* members who may hold points
    Manager,        \* users who try the command
    Holds,          \* Holds[m]: the roles of m, in both servers, that matter
    Amounts,        \* values of the options add and remove (1 to 100)
    MaxMutations    \* bound: rows of the table of mutations

Media == "Media"
Scheduling == "Scheduling"
RepDepartments == {Media, Scheduling}

HeadOf == [d \in RepDepartments |-> IF d = Media THEN "head_media" ELSE "head_scheduling"]
DeputyOf == [d \in RepDepartments |-> IF d = Media THEN "xo_media" ELSE "xo_scheduling"]
Overrides == {"BOA", "NSC_ADMINISTRATOR"}

ASSUME RepresentationAssumption ==
    /\ Amounts \subseteq Nat \ {0}
    /\ MaxMutations \in Nat

VARIABLES
    repPoints,   \* repPoints[s][d]: column <d>_representation_points
    repKnown,    \* members with a row of representation_points
    mutations    \* table representation_point_mutations, in order of id

repVars == <<repPoints, repKnown, mutations>>

RepMutation == [target : Represented, by : Manager, department : RepDepartments, delta : Int]

RepTypeOK ==
    /\ repPoints \in [Represented -> [RepDepartments -> Nat]]
    /\ repKnown \in SUBSET Represented
    /\ mutations \in Seq(RepMutation)

RepInit ==
    /\ repPoints = [s \in Represented |-> [d \in RepDepartments |-> 0]]
    /\ repKnown = {}
    /\ mutations = <<>>

-----------------------------------------------------------------------------
(***************************************************************************)
(* Who may do what: representation_utils.py.                               *)
(***************************************************************************)
MayOverride(m) == Holds[m] \intersect Overrides # {}

MayView(m) ==
    MayOverride(m) \/ \E d \in RepDepartments : {HeadOf[d], DeputyOf[d]} \intersect Holds[m] # {}

MayAdd(m, d) == MayOverride(m) \/ {HeadOf[d], DeputyOf[d]} \intersect Holds[m] # {}

MayRemove(m, d) == MayOverride(m) \/ HeadOf[d] \in Holds[m]

\* _apply_points_delta: a removal of more than there is raises a ValueError
\* and is rolled back, after the member's record was committed.
ApplyPointsDelta(s, m, d, delta) ==
    LET new == repPoints[s][d] + delta
    IN /\ repKnown' = repKnown \union {s}
       /\ IF new < 0
          THEN UNCHANGED <<repPoints, mutations>>
          ELSE /\ repPoints' = [repPoints EXCEPT ![s][d] = new]
               /\ mutations' = Append(mutations,
                      [target |-> s, by |-> m, department |-> d, delta |-> delta])

\* /representationmod with exactly one of add and remove, a department and a
\* reason; any other combination of options is refused before the rest.  The
\* answer reads the member's points once more.
RepresentationMod(m, s, d) ==
    /\ Len(mutations) < MaxMutations
    /\ MayView(m)
    /\ \E amount \in Amounts :
          \/ MayAdd(m, d) /\ ApplyPointsDelta(s, m, d, amount)
          \/ MayRemove(m, d) /\ ApplyPointsDelta(s, m, d, -amount)

\* /representation shows a member's points, and creates the record for it.
ViewRepresentation(s) ==
    /\ repKnown' = repKnown \union {s}
    /\ UNCHANGED <<repPoints, mutations>>

\* dumprepmutations, of one department or of both: the records that hold
\* points there (all records, for both) and the mutations of it (newest first,
\* which is left out).
MayDump(m) == \E d \in RepDepartments : MayRemove(m, d)

\* Faulty: of both departments, only those with points in each are dumped.
DumpRecordsOfEach(chosen) ==
    {s \in repKnown : \A d \in chosen : repPoints[s][d] > 0}

DumpRecords(chosen) ==
    {s \in repKnown : chosen = RepDepartments \/ \E d \in chosen : repPoints[s][d] > 0}

DumpMutations(chosen) == {n \in DOMAIN mutations : mutations[n].department \in chosen}

RepNext ==
    \/ \E m \in Manager, s \in Represented, d \in RepDepartments : RepresentationMod(m, s, d)
    \/ \E s \in Represented : ViewRepresentation(s)

-----------------------------------------------------------------------------
\* The rows about a member's points in a department, and what rows add up to.
RowsAbout(s, d) ==
    {n \in DOMAIN mutations : mutations[n].target = s /\ mutations[n].department = d}

Deltas == [n \in DOMAIN mutations |-> mutations[n].delta]
Total(rows) == SumFunctionOnSet(Deltas, rows)

\* The table of mutations accounts for every point, and read from its start
\* it never takes away what was not there.
MutationsAccountForPoints ==
    \A s \in Represented, d \in RepDepartments :
        /\ repPoints[s][d] = Total(RowsAbout(s, d))
        /\ \A n \in 0 .. Len(mutations) : Total(RowsAbout(s, d) \intersect 1 .. n) >= 0

\* A dump balances: for each member and department in it, the mutations add
\* up to the points of the member's record, or to nothing if the dump has no
\* record of the member.
DumpBalances ==
    \A chosen \in {RepDepartments} \union {{d} : d \in RepDepartments} :
        \A s \in Represented, d \in chosen :
            Total(DumpMutations(chosen) \intersect RowsAbout(s, d))
            = IF s \in DumpRecords(chosen) THEN repPoints[s][d] ELSE 0

=============================================================================
