-------------------------- MODULE BriefingDelivery --------------------------
(***************************************************************************)
(* How briefings are sent (src/briefings/delivery.py): ship by ship and    *)
(* message by message, by the scheduled tasks (src/cogs/tasks) and by      *)
(* /briefing, of which one run is made at a time.  Nothing says what has   *)
(* been sent: a run that a crash ends is not taken up again.               *)
(***************************************************************************)
EXTENDS Integers, Sequences, FiniteSets, Functions

CONSTANTS
    Vessel,             \* SHIPS, in order
    Moored,             \* the ships whose role the guild has
    Calls,             \* the calls of /briefing
    Task,               \* the scheduled run of the day
    MaxMessages, MaxStops

ASSUME DeliveryAssumption ==
    /\ {MaxMessages, MaxStops} \subseteq Nat /\ Task \notin Calls
    /\ Vessel \in Seq({Vessel[i] : i \in DOMAIN Vessel}) /\ IsInjective(Vessel)
    /\ Moored \subseteq {Vessel[i] : i \in DOMAIN Vessel}

VARIABLES
    runs,               \* run -> what it is at and what it counts
    posted,             \* run -> ship -> the messages posted, in order
    lock,               \* ShipBriefing._lock
    stops               \* how often the process has ended

deliveryVars == <<runs, posted, lock, stops>>

Run == Calls \cup {Task}
Vessels == {Vessel[i] : i \in DOMAIN Vessel}
NotYet == [at |-> 0, step |-> "none", only |-> Vessels, due |-> [v \in Vessels |-> 0], next |-> 0,
           sent |-> {}, failed |-> {}, off |-> {}]

DeliveryInit ==
    /\ runs = [r \in Run |-> NotYet] /\ posted = [r \in Run |-> [v \in Vessels |-> <<>>]] /\ lock = {} /\ stops = 0

\* The next of the selected ships, or the end of the run.
Onward(run, i) ==
    LET left == {k \in DOMAIN Vessel : k > i /\ Vessel[k] \in run.only}
    IN  IF left = {} THEN [run EXCEPT !.step = "summary", !.at = Len(Vessel) + 1]
        ELSE [run EXCEPT !.step = "compose", !.at = CHOOSE k \in left : \A o \in left : k <= o]

\* The lock is held until the run has its counts.
SetRun(r, run) ==
    /\ runs' = [runs EXCEPT ![r] = run]
    /\ lock' = IF r \in Calls /\ run.step \in {"compose", "send"} THEN lock \cup {r} ELSE lock \ {r}

BeginRun(r, run) ==
    \/ SetRun(r, Onward(run, 0))
    \/ SetRun(r, [run EXCEPT !.step = "summary", !.failed = run.only])   \* no guild

\* The task of the day, over every ship.
StartTask ==
    /\ runs[Task].step = "none" /\ BeginRun(Task, NotYet)
    /\ UNCHANGED <<posted, stops>>

\* /briefing: a run that finds the lock taken is turned away; nothing waits
\* between the look at the lock and taking it.
StartManual(r, only) ==
    /\ r \in Calls /\ runs[r].step = "none"
    /\ IF lock # {} THEN SetRun(r, [NotYet EXCEPT !.step = "refused"])
       ELSE BeginRun(r, [NotYet EXCEPT !.only = only])
    /\ UNCHANGED <<posted, stops>>

\* The role and the messages of a ship; none are a concern switched off, and
\* what raises is counted and the next ship taken.
Compose(r) ==
    /\ runs[r].step = "compose"
    /\ LET run == runs[r]
           ship == Vessel[run.at]
       IN  \/ /\ ship \in Moored
              /\ \E n \in 1..MaxMessages : SetRun(r, [run EXCEPT !.step = "send", !.due[ship] = n, !.next = 1])
           \/ ship \in Moored /\ SetRun(r, Onward([run EXCEPT !.off = @ \cup {ship}], run.at))
           \/ SetRun(r, Onward([run EXCEPT !.failed = @ \cup {ship}], run.at))
    /\ UNCHANGED <<posted, stops>>

\* Faulty: one message more than there are.
SendPast(r) ==
    /\ runs[r].step = "send"
    /\ LET run == runs[r]
           ship == Vessel[run.at]
       IN  \/ /\ posted' = [posted EXCEPT ![r][ship] = Append(@, run.next)]
              /\ SetRun(r, IF run.next <= run.due[ship] THEN [run EXCEPT !.next = @ + 1]
                        ELSE Onward([run EXCEPT !.sent = @ \cup {ship}], run.at))
           \/ /\ SetRun(r, Onward([run EXCEPT !.failed = @ \cup {ship}], run.at))
              /\ UNCHANGED posted
    /\ UNCHANGED stops

\* Faulty: a ship nothing could be sent for is tried again and again.
SendAgain(r) ==
    /\ runs[r].step = "send"
    /\ LET run == runs[r]
           ship == Vessel[run.at]
       IN  \/ /\ posted' = [posted EXCEPT ![r][ship] = Append(@, run.next)]
              /\ SetRun(r, IF run.next < run.due[ship] THEN [run EXCEPT !.next = @ + 1]
                        ELSE Onward([run EXCEPT !.sent = @ \cup {ship}], run.at))
           \/ /\ SetRun(r, IF run.next = 1 THEN [run EXCEPT !.step = "compose"]
                        ELSE Onward([run EXCEPT !.failed = @ \cup {ship}], run.at))
              /\ UNCHANGED posted
    /\ UNCHANGED stops

\* _send_messages, one after the other; the rest of a ship's messages go with
\* one that fails.
Send(r) ==
    /\ runs[r].step = "send"
    /\ LET run == runs[r]
           ship == Vessel[run.at]
       IN  \/ /\ posted' = [posted EXCEPT ![r][ship] = Append(@, run.next)]
              /\ SetRun(r, IF run.next < run.due[ship] THEN [run EXCEPT !.next = @ + 1]
                        ELSE Onward([run EXCEPT !.sent = @ \cup {ship}], run.at))
           \/ /\ SetRun(r, Onward([run EXCEPT !.failed = @ \cup {ship}], run.at))
              /\ UNCHANGED posted
    /\ UNCHANGED stops

\* The summary is given.
Finish(r) ==
    /\ runs[r].step = "summary" /\ SetRun(r, [runs[r] EXCEPT !.step = "over"])
    /\ UNCHANGED <<posted, stops>>

\* The process ends, and on its hour the task has passed or runs anew.
Stop ==
    /\ stops < MaxStops /\ stops' = stops + 1
    /\ \E again \in BOOLEAN :
         runs' = [r \in Run |->
            IF r = Task /\ again THEN NotYet
            ELSE IF runs[r].step \in {"none", "over", "refused"} THEN runs[r]
            ELSE [runs[r] EXCEPT !.step = "cut"]]
    /\ lock' = {} /\ UNCHANGED posted

DeliveryStep(r) == Compose(r) \/ Send(r) \/ Finish(r)

DeliveryNext ==
    \/ StartTask \/ Stop \/ \E r \in Run : DeliveryStep(r)
    \/ \E r \in Calls, only \in {Vessels} \cup {{v} : v \in Vessels} : StartManual(r, only)

DeliveryTypeOK ==
    /\ \A r \in Run : /\ runs[r].step \in {"none", "refused", "compose", "send", "summary", "over", "cut"}
                      /\ runs[r].only \in SUBSET Vessels /\ runs[r].at \in 0..(Len(Vessel) + 1)
                      /\ Range(runs[r].due) \cup {runs[r].next} \subseteq 0..MaxMessages
    /\ \A r \in Run, v \in Vessels : Range(posted[r][v]) \subseteq 1..MaxMessages
    /\ lock \subseteq Calls /\ stops \in 0..MaxStops

\* A run that is over has an answer for each of its ships, and one only; a ship
\* counted as sent has had all its messages, in order, and of the others a
\* part at most; two runs of /briefing never work at once.  A task that a stop
\* sets going anew is not told apart from the first (ShipBriefingRunner).
BriefingsCounted ==
    /\ \A r \in Run :
         LET run == runs[r]
         IN  /\ run.step = "over" => run.sent \cup run.failed \cup run.off = run.only
             /\ run.sent \cap (run.failed \cup run.off) = {} /\ run.failed \cap run.off = {}
             /\ (stops = 0 \/ r # Task) => \A ship \in Vessels :
                  LET done == posted[r][ship]
                  IN  /\ \A i \in DOMAIN done : done[i] = i
                      /\ ship \in run.sent <=> run.due[ship] > 0 /\ Len(done) = run.due[ship]
                      /\ ship \in run.off => done = <<>>
    /\ Cardinality({r \in Calls : runs[r].step \in {"compose", "send"}}) <= 1

\* Once a run has begun, every ship of it is answered for, whatever fails for
\* the others, unless the process ends (test_failure_for_one_ship_does_not_block_the_next).
ShipsAreTried == \A r \in Run : (runs[r].step = "compose") ~> (runs[r].step \in {"over", "cut", "none"})
=============================================================================
