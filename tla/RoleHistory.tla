----------------------------- MODULE RoleHistory ----------------------------
(***************************************************************************)
(* What is known of a member's roles: the roles Discord says they hold and *)
(* the role log the bot keeps of the audit log's entries while it runs     *)
(* (src/cogs/events/on_audit_log_entry_create, auditlog_repository.py),    *)
(* and the member's promotion check over both                              *)
(* (src/cogs/commands/JE/checkpromotion.py, src/utils/promotion).          *)
(***************************************************************************)
EXTENDS Integers, Sequences, FiniteSets, SequencesExt, FiniteSetsExt

CONSTANTS
    Role,               \* the roles that matter to a check
    Days,               \* the steps by which the clock goes, in days
    Tallies,            \* what the row of a sailor may count
    MaxDay, MaxMoves

VARIABLES
    held,               \* the roles the member holds
    netc,               \* and those in the guild of the NETC
    log,                \* role_change_log of the member
    truth,              \* role -> when it was last given or taken, and if the log has it
    row,                \* voyage and hosted counts, and when last on a voyage
    day, up, moves

historyVars == <<held, netc, log, truth, row, day, up, moves>>

Unknown == -1

ASSUME HistoryAssumption ==
    /\ MaxDay \in Nat /\ MaxMoves \in Nat /\ Days \subseteq Nat
    /\ Tallies \subseteq [voyages : Nat, hosted : Nat, last : {Unknown}]

HistoryInit(first, graduate) ==
    /\ held \in first /\ netc \in graduate
    /\ log = {} /\ truth = [r \in Role |-> [at |-> Unknown, logged |-> FALSE]]
    /\ row \in Tallies /\ day = 0 /\ up = TRUE /\ moves = 0

\* log_role_change for what was added, then for what was removed: each row in
\* a commit of its own, and one that fails is logged and left out.
LogRows(added, removed) ==
    {[role |-> r, change |-> "added", at |-> day] : r \in added}
    \cup {[role |-> r, change |-> "removed", at |-> day] : r \in removed}

\* Roles are changed in Discord, and the entry of the audit log reaches the
\* bot when it runs.  Two changes of one role in one second are left out.
ChangeRoles(now) ==
    /\ now # held /\ moves < MaxMoves /\ moves' = moves + 1
    /\ \A r \in SymDiff(now, held) : truth[r].at # day
    /\ held' = now
    /\ \E kept \in SUBSET LogRows(now \ held, held \ now) :
         /\ up \/ kept = {}
         /\ log' = log \cup kept
         /\ truth' = [r \in Role |-> IF r \in SymDiff(now, held)
                        THEN [at |-> day, logged |-> \E k \in kept : k.role = r] ELSE truth[r]]
    /\ UNCHANGED <<netc, row, day, up>>

Graduate(r) ==
    /\ r \notin netc /\ netc' = netc \cup {r} /\ UNCHANGED <<held, log, truth, row, day, up, moves>>

\* Voyages are logged.
Serve(now) ==
    /\ now \in Tallies /\ now # row
    /\ now.voyages >= row.voyages /\ now.hosted >= row.hosted
    /\ row' = [now EXCEPT !.last = IF now.voyages > row.voyages THEN day ELSE row.last]
    /\ UNCHANGED <<held, netc, log, truth, day, up, moves>>

HistoryTick ==
    /\ \E d \in Days : day + d <= MaxDay /\ day' = day + d
    /\ UNCHANGED <<held, netc, log, truth, row, up, moves>>

\* The bot stops and starts; what changes meanwhile is not made up for.
Power == up' = ~up /\ UNCHANGED <<held, netc, log, truth, row, day, moves>>

----------------------------------------------------------------------------
(* The requirements of a promotion (evaluators.py).                        *)

Pass == "pass"
Fail == "fail"
Info == "info"

Has(roles) == roles \cap held # {}

\* Awards and medals from the lowest to the highest.
Conduct == <<"CITATION_OF_CONDUCT", "LEGION_OF_CONDUCT", "HONORABLE_CONDUCT">>
Combat == <<"CITATION_OF_COMBAT", "LEGION_OF_COMBAT">>
Stripes == <<"FOUR_MONTHS", "SIX_MONTHS">>
Hosted == <<"SEA_SERVICE", "MARITIME_SERVICE">>

Req == [kind |-> "manual", status |-> Info, roles |-> {}, count |-> 0, days |-> 0, of |-> "voyages",
        tiers |-> <<>>, parts |-> <<>>, else |-> <<>>]
AwardReq(tiers, i) == [Req EXCEPT !.kind = "award", !.tiers = SubSeq(tiers, i, Len(tiers))]
Training(r) == [Req EXCEPT !.kind = "training", !.roles = {r}]
CountReq(of, n) == [Req EXCEPT !.kind = "count", !.of = of, !.count = n]
Presence(roles) == [Req EXCEPT !.kind = "presence", !.roles = roles]
Manual(status) == [Req EXCEPT !.status = status]
TimeIn(r, n) == [Req EXCEPT !.kind = "time", !.roles = {r}, !.days = n]
TimeInMax(r, n) == [Req EXCEPT !.kind = "time_max", !.roles = {r}, !.days = n]
Recent(n) == [Req EXCEPT !.kind = "recent", !.days = n]
CountAndTime(of, n, r, d) == [Req EXCEPT !.kind = "count_and_time", !.of = of, !.count = n, !.roles = {r}, !.days = d]
EitherOf(parts) == [Req EXCEPT !.kind = "either", !.parts = parts]
Conditional(r, present, absent) == [Req EXCEPT !.kind = "conditional", !.roles = {r}, !.parts = present, !.else = absent]

\* PROMOTION_PATHS_BY_RANK, the requirements a path needs; those that are only
\* shown (additional_requirements, notes) decide nothing.
Officer(hosting) ==
    <<Training("COSA"), AwardReq(Conduct, 3), AwardReq(Stripes, 1)>>
    \o IF hosting THEN <<CountReq("hosted", 35), Manual(Fail)>> ELSE <<>>

PathsOf(rank) ==
    CASE rank = 2 -> <<<<Conditional("E2A", <<TimeInMax("E2A", 14), Recent(14)>>,
                            <<CountReq("voyages", 5), EitherOf(<<AwardReq(Conduct, 1), AwardReq(Combat, 1)>>)>>)>>>>
      [] rank = 3 -> <<<<EitherOf(<<CountAndTime("voyages", 20, "E3", 7), CountAndTime("voyages", 15, "E3", 14)>>),
                         Training("JLA"), AwardReq(Conduct, 1)>>>>
      [] rank = 4 -> <<<<AwardReq(Conduct, 2), Presence({"NCO_IMPROVEMENT"}), Training("SLA"), CountReq("hosted", 10)>>>>
      [] rank = 5 -> <<<<TimeIn("E6", 30), CountReq("hosted", 20), Manual(Fail)>>>>
      [] rank = 6 -> <<Officer(FALSE), Officer(TRUE)>>
      [] rank = 8 -> <<Officer(TRUE)>>
      [] rank = 9 -> <<<<TimeIn("O1", 14), Training("OCS")>>>>
      [] rank = 10 -> <<<<Training("SOCS")>>>>
      [] rank = 11 -> <<<<TimeIn("O4", 28)>>>>
      [] rank = 12 -> <<<<TimeIn("O5", 90), AwardReq(Hosted, 2), Manual(Fail)>>>>
      [] rank \in {13, 15, 16} -> <<<<Manual(Fail)>>>>
      [] rank = 14 -> <<<<Manual(Fail), Manual(Fail)>>>>
      [] OTHER -> <<>>

\* RANKS, by index.
Ranks == {<<0, {"DH"}>>, <<0, {"RT"}>>, <<0, {"VT"}>>, <<1, {"E1"}>>, <<2, {"E2", "E2A"}>>, <<3, {"E3"}>>,
          <<4, {"E4"}>>, <<5, {"E6"}>>, <<6, {"E7"}>>, <<8, {"E8"}>>, <<9, {"O1"}>>, <<10, {"O3"}>>,
          <<11, {"O4"}>>, <<12, {"O5"}>>, <<13, {"O6"}>>, <<14, {"O7"}>>, <<15, {"O8"}>>, <<16, {"AOTN"}>>}

HeldRanks == {r[1] : r \in {x \in Ranks : Has(x[2])}}

\* get_current_rank takes the lowest index; -1 is no rank at all.
CurrentRank == IF HeldRanks = {} THEN -1 ELSE Min(HeldRanks)

\* Faulty: what was added counts on, removed since or not.
DaysSinceAdded(r) ==
    LET mine == {k \in log : k.role = r /\ k.change = "added"}
    IN  IF mine = {} THEN 0 ELSE day - Max({k.at : k \in mine})

\* get_latest_role_log_for_target_and_role: what was added last counts from
\* then, what was removed last, or has no log, for nothing.
DaysWith(r) ==
    LET mine == {k \in log : k.role = r}
        last == CHOOSE k \in mine : \A o \in mine : o.at <= k.at
    IN  IF mine = {} \/ last.change # "added" THEN 0 ELSE day - last.at

OnlyRole(req) == CHOOSE r \in req.roles : TRUE

\* Faulty: the voyages one has hosted are not among those one was on.
CountOfOthers(of) == IF of = "hosted" THEN row.hosted ELSE row.voyages - row.hosted

CountOf(of) == IF of = "hosted" THEN row.hosted ELSE row.voyages

PassIf(b) == IF b THEN Pass ELSE Fail

\* A requirement without parts; days[r] is how long role r has been held.
Leaf(req, days) ==
    CASE req.kind = "manual" -> req.status
      [] req.kind = "award" -> PassIf(Has(Range(req.tiers)))
      [] req.kind = "training" -> PassIf(req.roles \cap netc # {})
      [] req.kind = "presence" -> PassIf(Has(req.roles))
      [] req.kind = "count" -> PassIf(CountOf(req.of) >= req.count)
      [] req.kind = "time" -> PassIf(days[OnlyRole(req)] >= req.days)
      [] req.kind = "time_max" -> IF days[OnlyRole(req)] >= req.days THEN Fail ELSE Info
      [] req.kind = "recent" -> PassIf(row.last # Unknown /\ day - row.last <= req.days)
      [] req.kind = "count_and_time" ->
            PassIf(CountOf(req.of) >= req.count /\ days[OnlyRole(req)] >= req.days)

\* The best of the parts of an alternative.
Either(req, days) ==
    LET statuses == {Leaf(req.parts[i], days) : i \in DOMAIN req.parts}
    IN  IF Pass \in statuses THEN Pass ELSE IF Info \in statuses THEN Info ELSE Fail

OneOf(req, days) == IF req.kind = "either" THEN Either(req, days) ELSE Leaf(req, days)

\* The worst of the parts a role decides on.
Status(req, days) ==
    IF req.kind # "conditional" THEN OneOf(req, days)
    ELSE LET parts == IF Has(req.roles) THEN req.parts ELSE req.else
             statuses == {OneOf(parts[i], days) : i \in DOMAIN parts}
         IN  IF Fail \in statuses THEN Fail ELSE IF Info \in statuses THEN Info ELSE Pass

\* DefaultPromotionRenderer: what a section has among its required ones.
PathSection(path) == {Status(path[i], [r \in Role |-> DaysWith(r)]) : i \in DOMAIN path}
Sections == [i \in DOMAIN PathsOf(CurrentRank) |-> PathSection(PathsOf(CurrentRank)[i])]

\* checkpromotion: one failure of any section makes the answer red.
Colour ==
    IF \E i \in DOMAIN Sections : Fail \in Sections[i] THEN "red"
    ELSE IF \E i \in DOMAIN Sections : Info \in Sections[i] THEN "blue"
    ELSE IF \E i \in DOMAIN Sections : Pass \in Sections[i] THEN "green" ELSE "blue"

HistoryTypeOK ==
    /\ held \subseteq Role /\ row.last \in Unknown..MaxDay
    /\ \A k \in log : k \in [role : Role, change : {"added", "removed"}, at : 0..MaxDay]
    /\ truth \in [Role -> [at : Unknown..MaxDay, logged : BOOLEAN]]
    /\ day \in 0..MaxDay /\ up \in BOOLEAN /\ moves \in 0..MaxMoves

\* How long a role has truly been held, as far as the bot has ever known.
TrulyHeld(r) == IF r \notin held \/ truth[r].at = Unknown THEN 0 ELSE day - truth[r].at

\* When the last change of each role was logged, a check says of every section
\* what is true of the member: it has no failure exactly when each requirement
\* is met, one of an alternative, all that the member's role asks for.  What
\* was missed before that last change makes no difference.
PromotionsAreTrue ==
    (\A r \in Role : truth[r].at # Unknown => truth[r].logged) =>
        LET met(req) == Leaf(req, [r \in Role |-> TrulyHeld(r)]) # Fail
            any(req) == IF req.kind = "either" THEN \E i \in DOMAIN req.parts : met(req.parts[i]) ELSE met(req)
            all(req) == IF req.kind # "conditional" THEN any(req)
                        ELSE IF Has(req.roles) THEN \A i \in DOMAIN req.parts : any(req.parts[i])
                        ELSE \A i \in DOMAIN req.else : any(req.else[i])
            paths == PathsOf(CurrentRank)
        IN  /\ \A r \in Role : DaysWith(r) = TrulyHeld(r)
            /\ \A i \in DOMAIN paths :
                 (Fail \notin Sections[i]) <=> \A k \in DOMAIN paths[i] : all(paths[i][k])
            /\ Colour = "green" => \A i \in DOMAIN paths, k \in 1..5 : k \in DOMAIN paths[i] => all(paths[i][k])

\* More voyages, more hosting and more trainings never turn a section that had
\* no failure into one that has, while roles and the clock stay
\* (evaluators.py compares every count from below).
PromotionsOnlyImprove ==
    [][held' = held /\ log' = log /\ day' = day =>
         \A i \in DOMAIN Sections : Fail \notin Sections[i] => Fail \notin Sections'[i]]_historyVars

=============================================================================
