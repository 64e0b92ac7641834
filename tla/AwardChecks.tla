----------------------------- MODULE AwardChecks ----------------------------
(***************************************************************************)
(* Which awards a sailor has earned and not been given: the check of the   *)
(* daily briefing and of /check_awards, the check of the scheduled tasks   *)
(* (src/utils/check_awards.py), and the messages those tasks send to the   *)
(* Board and to the departments (src/utils/award_messages.py,              *)
(* src/cogs/tasks/task_check_*_awards.py).                                 *)
(***************************************************************************)
EXTENDS ChainOfCommand

CONSTANTS
    Category,           \* the categories checked, in order
    Medals,             \* category -> medals, from the lowest threshold
    Counts,             \* what a sailor may have of each
    Marks,              \* and the points of two departments
    Odd,                \* the sailors with an odd id
    MaxInMessage        \* the awards that fit in a message

ASSUME AwardsAssumption ==
    /\ MaxInMessage \in Nat \ {0}
    /\ Category \in Seq(DOMAIN Medals) /\ IsInjective(Category)
    /\ {"training", "representation"} \subseteq DOMAIN Medals
    /\ \A c \in DOMAIN Medals : /\ Medals[c] \in Seq(Range(Medals[c]))
                                /\ \A i \in DOMAIN Medals[c] : Medals[c][i].threshold \in Nat \ {0}
    /\ \A c \in DOMAIN Medals : \A i, j \in DOMAIN Medals[c] :
         i < j => Medals[c][i].threshold < Medals[c][j].threshold
    /\ \A n \in Counts, c \in Range(Category) : n[c] \in Nat
    /\ Marks \subseteq [first : Nat, second : Nat]

VARIABLES
    tally,              \* the sailors with a row -> what it counts
    marks,              \* points of training, or of representation, by department
    badges,             \* the award roles members hold
    gone,               \* the award roles the guild no longer has
    round               \* the task that sends: what it is of, owes, plans and has sent

awardVars == <<tally, marks, badges, gone, round>>

Categories == Range(Category)
Badge == UNION {{Medals[c][i].badge : i \in DOMAIN Medals[c]} : c \in DOMAIN Medals}
NoAward == [threshold |-> 0, badge |-> Nobody, able |-> {}, department |-> FALSE]

\* The elements of a sequence that are in a set, in their order.
Among(s, set) ==
    LET picked[i \in 0..Len(s)] ==
            IF i = 0 THEN <<>> ELSE IF s[i] \in set THEN Append(picked[i - 1], s[i]) ELSE picked[i - 1]
    IN  picked[Len(s)]

\* Faulty: a medal is earned with the next point only.
HighestLate(count, medals) ==
    LET earned == {i \in DOMAIN medals : \A j \in 1..i : count > medals[j].threshold}
    IN  IF earned = {} THEN NoAward ELSE medals[Max(earned)]

\* _find_highest_award walks the medals and stops at the first not earned.
Highest(count, medals) ==
    LET earned == {i \in DOMAIN medals : \A j \in 1..i : count >= medals[j].threshold}
    IN  IF earned = {} THEN NoAward ELSE medals[Max(earned)]

\* An award the departments give names no officer.
Responsible(s, award) == IF award.department THEN Nobody ELSE Giver(award.able)[s]

\* get_pending_ship_awards: in the order of the categories, with nobody
\* responsible where the search raises; an award without a role is left out.
Earned(s, c) == IF s \in DOMAIN tally THEN Highest(tally[s][c], Medals[c]) ELSE NoAward

Missing(s, award) == award # NoAward /\ award.badge \notin badges[s] \cup gone

\* The Board is a role, which has no id to assign an award to.
Assigned(officer) == IF officer \in {Board, Unanswered, Endless} THEN Nobody ELSE officer

ItemsOf(s, missing) ==
    [i \in DOMAIN missing |->
        [who |-> s, of |-> missing[i], officer |-> Assigned(Responsible(s, Earned(s, missing[i])))]]

Pending(s) == ItemsOf(s, Among(Category, {c \in Categories : Missing(s, Earned(s, c))}))

\* check_awards shows them for every member with a row.
Shown(members) == FlattenSeq([i \in DOMAIN members |-> Pending(members[i])])

\* _check_awards_by_type of the tasks: the message names the role and the
\* officer, and raises when the role, the officer or the officer's row is not
\* there.
Raises(s, award) ==
    LET officer == Responsible(s, award)
    IN  \/ award.badge \in gone
        \/ ~award.department /\ officer \notin {Board} \cup DOMAIN tally

Lacks(s, award) == award # NoAward /\ award.badge \notin badges[s]

\* check_sailor over the members of a role (create_award_messages).
Items(members) ==
    FlattenSeq([i \in DOMAIN members |->
        LET told == Among(Category, {c \in Categories : Lacks(members[i], Earned(members[i], c))})
        IN  [k \in DOMAIN told |-> [who |-> members[i], of |-> told[k]]]])

SpoilsAll(members) ==
    \E s \in Range(members), c \in Categories : Lacks(s, Earned(s, c)) /\ Raises(s, Earned(s, c))

\* Pages of a size.  Python's slices and a loop that starts a new page when the
\* last one is full cut alike.
Pages(items, size) ==
    [i \in 1..((Len(items) + size - 1) \div size) |->
        SubSeq(items, (i - 1) * size + 1, Min({i * size, Len(items)}))]

\* append_award_message_chunk: a message as full as it can be.
Chunks(items) == Pages(items, MaxInMessage)

----------------------------------------------------------------------------
(* The departments: NRC or NETC for training, Media or Scheduling for      *)
(* representation.                                                         *)

Excluded(s) == PostsOf(s) \cap {"DH", "VT", "RT"} # {}

TrainingDesk(s) ==
    LET nrc == "NRC" \in PostsOf(s)  netc == "NETC" \in PostsOf(s)
    IN  IF nrc /\ ~netc THEN "first" ELSE IF netc /\ ~nrc THEN "second"
        ELSE IF marks[s].first > marks[s].second THEN "first"
        ELSE IF marks[s].second > marks[s].first THEN "second"
        ELSE IF s \in Odd THEN "second" ELSE "first"

\* choose_representation_department
RepresentationDesk(s) == IF marks[s].first > marks[s].second THEN "first" ELSE "second"

MarksAward(s, c) == Highest(marks[s].first + marks[s].second, Medals[c])

Deserving(members, c) ==
    Among(members, {s \in Sailor : ~Excluded(s) /\ Lacks(s, MarksAward(s, c))})

\* The task of a department raises as the others do.
SpoilsDesk(members, c) == \E s \in Range(Deserving(members, c)) : Raises(s, MarksAward(s, c))

DeskFor(s, c) == IF c = "training" THEN TrainingDesk(s) ELSE RepresentationDesk(s)

DeskItems(members, c, desk) ==
    LET mine == Among(Deserving(members, c), {s \in Sailor : DeskFor(s, c) = desk})
    IN  [i \in DOMAIN mine |-> [who |-> mine[i], of |-> c]]

To(channel, messages) == [i \in DOMAIN messages |-> [to |-> channel, items |-> messages[i]]]

\* Training awards go out in one message a department, however long.
Whole(items) == IF items = <<>> THEN <<>> ELSE <<items>>

TrainingPlan(members) ==
    To("first", Whole(DeskItems(members, "training", "first")))
    \o To("second", Whole(DeskItems(members, "training", "second")))

Departments == {"first", "second"}
Engineer == "engineer"

\* A department without its channel is reported to the engineer, in a log
\* entry; the other one is served.
RepresentationPlan(members, channels) ==
    FlattenSeq([i \in 1..2 |->
        LET desk == <<"first", "second">>[i]
            items == DeskItems(members, "representation", desk)
        IN  IF desk \in channels THEN To(desk, Chunks(items)) ELSE To(Engineer, Whole(items))])

----------------------------------------------------------------------------
(* What a round owes, told from the members' counts and roles and not from *)
(* what the tasks make of them: each award, with the places it may be told.*)

Reached(count, c) == {m \in Range(Medals[c]) : m.threshold <= count}

\* The highest medal reached, where the member does not have it.
Owing(s, count, c) ==
    {m \in Reached(count, c) : /\ \A k \in Reached(count, c) : k.threshold <= m.threshold
                               /\ m.badge \notin badges[s]}

OwedByBoard(members) ==
    [x \in {y \in [who : Range(members) \cap DOMAIN tally, of : Categories] :
              Owing(y.who, tally[y.who][y.of], y.of) # {}} |-> {"board"}]

\* A member of one department only belongs to it; any other to the one they
\* have most points of, or to either.
Belongs(s, c, desk, other) ==
    LET role == [first |-> "NRC", second |-> "NETC"]
    IN  IF c = "training" /\ (role[desk] \in PostsOf(s) <=> role[other] \notin PostsOf(s))
        THEN role[desk] \in PostsOf(s) ELSE marks[s][desk] >= marks[s][other]

OwedByDesks(members, c, channels) ==
    [x \in {y \in [who : Range(members), of : {c}] :
              ~Excluded(y.who) /\ Owing(y.who, marks[y.who].first + marks[y.who].second, c) # {}} |->
        LET own == {d \in Departments : Belongs(x.who, c, d, IF d = "first" THEN "second" ELSE "first")}
        IN  (own \cap channels) \cup {Engineer : d \in own \ channels}]

----------------------------------------------------------------------------
(* A round of a scheduled task: everything is written before the first     *)
(* message is sent, and a message that fails ends it.                      *)

Idle == [of |-> "none", plan |-> <<>>, owed |-> <<>>, sent |-> 0, step |-> "idle"]

AwardInit(rows, retired) ==
    /\ tally \in UNION {[d -> Counts] : d \in rows} /\ marks \in [Sailor -> Marks]
    /\ badges = [s \in Sailor |-> {}] /\ gone \in retired /\ round = Idle

Begin(kind, plan, owed, spoilt) ==
    /\ round.step = "idle"
    /\ round' = [of |-> kind, sent |-> 0, owed |-> owed,
                 plan |-> IF spoilt THEN <<>> ELSE plan,
                 step |-> IF spoilt THEN "failed" ELSE IF plan = <<>> THEN "done" ELSE "sending"]
    /\ UNCHANGED <<tally, marks, badges, gone>>

BeginBoard(members) ==
    Begin("board", To("board", Chunks(Items(members))), OwedByBoard(members), SpoilsAll(members))

BeginTraining(members) ==
    Begin("training", TrainingPlan(members), OwedByDesks(members, "training", Departments),
          SpoilsDesk(members, "training"))

BeginRepresentation(members, channels) ==
    Begin("representation", RepresentationPlan(members, channels),
          OwedByDesks(members, "representation", channels), SpoilsDesk(members, "representation"))

\* Discord refuses a message that is too long; the connection may fail too.  An
\* entry of the log is no message.
SendAward ==
    /\ round.step = "sending"
    /\ LET next == round.plan[round.sent + 1]
       IN  \/ /\ next.to = Engineer \/ Len(next.items) <= MaxInMessage
              /\ round' = [round EXCEPT !.sent = @ + 1,
                             !.step = IF round.sent + 1 = Len(round.plan) THEN "done" ELSE @]
           \/ next.to # Engineer /\ round' = [round EXCEPT !.step = "failed"]
    /\ UNCHANGED <<tally, marks, badges, gone>>

GiveAward(s) ==
    /\ \E b \in Badge \ gone : badges' = [badges EXCEPT ![s] = @ \cup {b}]
    /\ UNCHANGED <<tally, marks, gone, round>>

AwardTypeOK ==
    /\ DOMAIN tally \subseteq Sailor /\ Range(tally) \subseteq Counts
    /\ marks \in [Sailor -> Marks]
    /\ badges \in [Sailor -> SUBSET Badge] /\ gone \subseteq Badge
    /\ round.of \in {"none", "board", "training", "representation"}
    /\ round.sent \in 0..Len(round.plan)
    /\ round.step \in {"idle", "sending", "done", "failed"}

\* /check_awards shows each member's awards once, and all of what the Board's
\* task owes but what has no role left in the guild (check_awards.py finds them
\* twice, apart); an officer it names may give the award and is not on leave.
AwardsAgree(members) ==
    \A shown \in {Shown(members)} :
      /\ \A i, j \in DOMAIN shown : shown[i].who = shown[j].who /\ shown[i].of = shown[j].of => i = j
      /\ {[who |-> x.who, of |-> x.of] : x \in Range(shown)} =
           {x \in DOMAIN OwedByBoard(members) :
              \E m \in Owing(x.who, tally[x.who][x.of], x.of) : m.badge \notin gone}
      /\ \A x \in Range(shown) : x.officer \in Sailor =>
           /\ ~OnLoa2(x.officer)
           /\ \E m \in Owing(x.who, tally[x.who][x.of], x.of) : m.able \cap PostsOf(x.officer) # {}

\* What a round has told is owed, to where it may be told, and told once; a
\* round that is done has told all that was owed when it began, and leaves out
\* nobody without a word to the engineer.  Nothing but training, which goes out
\* whole, is refused for its length.
AwardsToldOnce ==
    LET told == [i \in 1..round.sent |-> round.plan[i]]
        items == FlattenSeq([i \in DOMAIN told |-> told[i].items])
    IN  /\ IsInjective(items) /\ Range(items) \subseteq DOMAIN round.owed
        /\ \A i \in DOMAIN told : \A x \in Range(told[i].items) : told[i].to \in round.owed[x]
        /\ round.step = "done" => Range(items) = DOMAIN round.owed
        /\ \A i \in DOMAIN round.plan : Len(round.plan[i].items) > MaxInMessage =>
             round.of = "training" \/ round.plan[i].to = Engineer
=============================================================================
