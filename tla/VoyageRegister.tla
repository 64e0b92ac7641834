--------------------------- MODULE VoyageRegister ---------------------------
(***************************************************************************)
(* What the voyage ledger promises, whatever its handlers are doing: a     *)
(* register of logs with the crew each was recorded with, and for every    *)
(* sailor the number of crews the sailor is in.                            *)
(*                                                                         *)
(* A log enters the register with its whole crew; while it is there,       *)
(* sailors may be added to the crew but none is ever taken out alone: the  *)
(* crew leaves as a whole, usually with the log.  Each of these changes    *)
(* one log, and moves the credit of exactly the sailors concerned by one.  *)
(***************************************************************************)
EXTENDS Naturals, FiniteSets

CONSTANTS Log, Sailor

VARIABLES
    registered,  \* logs in the register
    crew,        \* crew[l]: sailors recorded for log l
    credit       \* credit[s]: voyages sailor s is credited with

register == <<registered, crew, credit>>

Init ==
    /\ registered = {}
    /\ crew = [l \in Log |-> {}]
    /\ credit = [s \in Sailor |-> 0]

Enroll(l, sailors) ==
    /\ crew' = [crew EXCEPT ![l] = @ \union sailors]
    /\ credit' = [s \in Sailor |->
                    IF s \in sailors THEN credit[s] + 1 ELSE credit[s]]

Record(l, sailors) ==
    /\ l \notin registered
    /\ Cardinality(sailors) > 1
    /\ registered' = registered \union {l}
    /\ Enroll(l, sailors)

Extend(l, sailors) ==
    /\ l \in registered
    /\ sailors \intersect crew[l] = {}
    /\ Enroll(l, sailors)
    /\ UNCHANGED registered

\* The log itself stays in the register if something else refers to it.
Strike(l) ==
    /\ l \in registered
    /\ registered' \in {registered \ {l}, registered}
    /\ crew' = [crew EXCEPT ![l] = {}]
    /\ credit' = [s \in Sailor |->
                    IF s \in crew[l] THEN credit[s] - 1 ELSE credit[s]]

Next ==
    \E l \in Log :
        \/ Strike(l)
        \/ \E sailors \in SUBSET Sailor : Record(l, sailors) \/ Extend(l, sailors)

Spec == Init /\ [][Next]_register
=============================================================================
