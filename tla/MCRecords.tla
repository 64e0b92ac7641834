----------------------------- MODULE MCRecords -----------------------------
(***************************************************************************)
(* The three kinds of records outside the voyage ledger, and the figures   *)
(* the bot computes.  They share no table but sailor, no session and no    *)
(* state in the process, so a behaviour looks at one of them: desk says at *)
(* which.                                                                  *)
(***************************************************************************)
EXTENDS TrainingRecords, Representation, StaffRecords, MCAnalytics

CONSTANTS ann, bob, cal, use1, use2

\* Two trainings of ann in one channel, of which a read-back asks for one,
\* and an NRC message of ann's that is left out; the first is by a bot.
Authors == <<ann, ann, ann>>
Channels == <<"jla", "jla", "nrc">>
Order == <<"nrc", "jla", "st">>

\* ann heads Media and is a deputy of Scheduling; bob is a deputy of Media;
\* cal is of the Board of Admiralty.
Roles == (ann :> {"head_media", "xo_scheduling"}) @@ (bob :> {"xo_media"})
         @@ (cal :> {"BOA"})

ForceKinds == <<"voyages", "carpenter">>

\* The uses of populate_training_records are alike.
Alike == Permutations(Reader)

VARIABLE desk

Init ==
    /\ TrainingInit /\ RepInit /\ StaffInit /\ FiguresInit
    /\ desk \in {"training", "representation", "staff", "figures"}
    \* one initial state is enough for the desks that do not look at it
    /\ desk # "staff" => \A s \in Person : nameOf[s] = CHOOSE n \in Names : TRUE
    /\ desk # "figures" => topic = "watch"

recordsVars == <<trainingVars, repVars, staffVars>>
mcVars == <<recordsVars, figuresVars, desk>>

Next ==
    /\ UNCHANGED desk
    /\ \/ desk = "training" /\ TrainingNext /\ UNCHANGED <<repVars, staffVars, figuresVars>>
       \/ desk = "representation" /\ RepNext /\ UNCHANGED <<trainingVars, staffVars, figuresVars>>
       \/ desk = "staff" /\ StaffNext /\ UNCHANGED <<trainingVars, repVars, figuresVars>>
       \/ desk = "figures" /\ FiguresNext /\ UNCHANGED recordsVars

Spec == Init /\ [][Next]_mcVars

\* Every table keeps to its columns: no counter of trainings or of
\* representation falls below zero, and rows are about users.
RecordsTypeOK == TrainingTypeOK /\ RepTypeOK /\ StaffTypeOK

\* Points of trainings follow their rows, off by at most one for each fault
\* between the commits of row and points; and a training whose message was
\* deleted comes back only if a read-back held the page at that moment.
TrainingsFollowRows == TrainingDriftBounded /\ NoGhostTrainings

\* Points of representation are what the mutations on record add up to, and a
\* dump of a department shows the balance of each sailor in it.
PointsAreOnRecord == MutationsAccountForPoints /\ DumpBalances

\* What officers do leaves a record that is true: a forced counter has its
\* entry but for commands cut short, /addcoin gives no sailor a second coin of
\* one type and name, and nobody hides a note about themselves.
OfficersOnRecord == ForceAccounted /\ CoinsDistinct /\ NobodyHidesOwnNotes
=============================================================================
