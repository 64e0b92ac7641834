--------------------------- MODULE MCVoyageLedger ---------------------------
(***************************************************************************)
(* Instances of VoyageLedger for TLC: three sailors, one subclass, and the *)
(* sets of mentions that make the interesting cases happen.                *)
(***************************************************************************)
EXTENDS VoyageLedger, Functions, TLC

CONSTANTS ann, bob, cal, main, t1, t2

Sailors == {ann, bob, cal}
Hosts == [l \in Log |-> ann]

\* Two crews that overlap, and too few mentions for a voyage.
CrewsOrNone == {{ann, bob}, {bob, cal}, {ann}}
Crews == {{ann, bob}, {bob, cal}}

Symmetric == Permutations(Task)

(***************************************************************************)
(* Each of the restrictions below says which behaviours of VoyageLedger a  *)
(* run looks at; a run of Spec itself with the same bounds does not end.   *)
(***************************************************************************)
\* Crews that overlap, one edit, a death or a subclass command, no request
\* that fails; or failing requests, two edits and logs that lose their crew,
\* but neither deaths nor subclass commands.
Calm ==
    /\ used'.errors = 0 /\ used'.edits <= 1 /\ used'.crashes + used'.views <= 1
    /\ Range(content') \subseteq {{}} \union Crews
Rough == used'.crashes = 0 /\ used'.views = 0 /\ used'.starts <= 1

CalmOrRough == Calm \/ Rough
=============================================================================
