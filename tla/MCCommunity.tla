----------------------------- MODULE MCCommunity -----------------------------
(***************************************************************************)
(* A guild of three: its chain of command, the awards they have earned,    *)
(* the briefings of their ship, the promotion of one of them, nicknames    *)
(* and the rank table.  "desk" says which a behaviour is about.            *)
(***************************************************************************)
EXTENDS ShipBriefing, BriefingDelivery, RoleHistory, NicknameSync, RankSync

CONSTANTS ann, bob, cat

VARIABLE desk

guildVars == <<chainVars, awardVars, briefingVars>>
mcVars == <<desk, guildVars, deliveryVars, historyVars, nickVars, rankVars>>

\* The groups of two: one squad of one ship of one fleet, or of none.
Afloat == [fleet |-> "fleet", ship |-> "ship", squad |-> "squad"]
Ashore == [fleet |-> Nobody, ship |-> Nobody, squad |-> Nobody]
Assign(posts, group, leave) == [posts |-> posts, group |-> group, leave |-> leave]

MCGroups == {Afloat, Ashore}
MCLeaves == {"", "[LOA-1]", "[LOA-2]"}
MCPosts == {{"AOTN", "BOA"}, {"VADM", "E7"}, {"SHIP_CO", "SNCO"}, {"SHIP_SL", "E7"}, {"E2", "NRC"}}
MCLosses == {{}, {"SHIP_CO"}}
Able == {"E7"}

Crewed == [of |-> [s \in Sailor |->
    IF s = ann THEN Assign({"VADM", "E7"}, Ashore, "")
    ELSE IF s = bob THEN Assign({"SHIP_CO", "SNCO"}, Afloat, "") ELSE Assign({"E2", "NRC"}, Afloat, "")],
     lost |-> {}, orders |-> 0]

MCCategory == <<"voyages", "service">>
Medal(n, badge, able, department) == [threshold |-> n, badge |-> badge, able |-> able, department |-> department]
MCMedals ==
    [voyages |-> <<Medal(1, "ribbon", {"E7"}, FALSE), Medal(2, "medal", {"E7"}, FALSE)>>,
     service |-> <<Medal(2, "service", {}, TRUE)>>,
     training |-> <<Medal(1, "trained", {}, TRUE)>>,
     representation |-> <<Medal(1, "seen", {}, TRUE)>>]
MCCounts == {[voyages |-> 0, service |-> 0], [voyages |-> 1, service |-> 2], [voyages |-> 2, service |-> 2]}
MCMarks == {[first |-> 0, second |-> 0], [first |-> 1, second |-> 0], [first |-> 1, second |-> 1]}
Members == <<ann, bob, cat>>

MCActivities == [voyage : {Never, 0, 2, 3}, host : {Never, 3}, added : {Never, 1}, joined : {0}]
Rested == [voyage |-> 3, host |-> 3, added |-> 1, joined |-> 0]
Idled == [voyage |-> 0, host |-> Never, added |-> 1, joined |-> 0]
MCLogs == SUBSET (0..4)
MCSizes == {{}, {[at |-> 0, size |-> 2], [at |-> 1, size |-> 1], [at |-> 3, size |-> 2]}}

MCTallies == {[voyages |-> t[1], hosted |-> t[2], last |-> Unknown] : t \in {<<4, 0>>, <<20, 0>>, <<20, 35>>}}
Rank7 == {"E7", "HONORABLE_CONDUCT", "FOUR_MONTHS"}
MCFirst == {{"E2"}, {"E3", "LEGION_OF_CONDUCT"}, Rank7, {"O1"}}
Changing == {"E2", "E2A", "E3", "O1", "CITATION_OF_CONDUCT"}
MCRole == Changing \cup UNION MCFirst

ASSUME CommunityAssumption ==
    /\ MCRole \subseteq Role /\ {"medal", "seen"} \subseteq Badge
    /\ Members \in Seq(Sailor) /\ IsInjective(Members)

MCVersions == {<<[role |-> "e1", name |-> "Recruit"], [role |-> "none", name |-> "Master"]>>,
               <<[role |-> "e2", name |-> "Seaman"], [role |-> "e1", name |-> "Cadet"]>>,
               <<[role |-> "e2", name |-> "Seaman"]>>}

MCVessel == <<"galleon", "sloop">>
MCBranch == <<"spd", "ltm", "netc">>

Desks == {"chain", "awards", "board", "departments", "daily", "weekly", "delivery", "promotion", "nick", "ranks"}

\* At a desk the rest of the guild is as it usually is.
OnlyAt(desks, usual) == IF desk \in desks THEN TRUE ELSE usual

MCInit ==
    /\ desk \in Desks
    /\ OnlyAt({"daily", "chain"}, roster = Crewed) /\ ChainInit
    /\ desk = "chain" => roster.of = Crewed.of
    /\ desk = "daily" => roster.lost = {} /\ \A s \in Sailor : roster.of[s] \in {[Crewed.of[s] EXCEPT !.leave = l] : l \in IF s = ann THEN {""} ELSE MCLeaves}
    /\ OnlyAt({"awards", "board"}, tally = [s \in Sailor |-> [voyages |-> 0, service |-> 0]])
    /\ OnlyAt({"departments"}, marks = [s \in Sailor |-> [first |-> 0, second |-> 0]])
    /\ AwardInit({Sailor, {bob, cat}}, IF desk \in {"awards", "board"} THEN {{}, {"medal"}}
                                         ELSE IF desk = "departments" THEN {{}, {"seen"}} ELSE {{}})
    /\ OnlyAt({"daily"}, activity = [s \in Range(Crew) |-> Rested])
    /\ OnlyAt({"weekly"}, seas = {} /\ sizes = {})
    /\ BriefingInit(MCActivities, MCLogs, MCSizes)
    /\ activity[ann] \in {Rested, Idled}
    /\ DeliveryInit
    /\ HistoryInit(MCFirst, {{"COSA", "OCS"}}) /\ row.voyages = 4
    /\ OnlyAt({"promotion"}, held = {"E2"})
    /\ OnlyAt({"nick"}, main = CHOOSE n \in Nick : TRUE) /\ NickInit
    /\ RankInit

Guild == UNCHANGED <<awardVars, briefingVars>>
Others == UNCHANGED <<deliveryVars, historyVars, nickVars, rankVars>>

ChainNext == (desk = "awards" => roster = Crewed /\ badges[bob] = {}) /\ \E s \in Sailor : GiveOrder(s)

RoundNext ==
    \/ desk = "board" /\ BeginBoard(Members)
    \/ desk = "departments" /\ BeginTraining(Members)
    \/ desk = "departments" /\ \E c \in SUBSET {"first", "second"} : BeginRepresentation(Members, c)
    \/ SendAward
    \/ badges[bob] = {} /\ roster = Crewed /\ GiveAward(bob)

HistoryNext ==
    \/ \E roles \in {{}, {"E2", "E2A"}, {"E3"}} :
         ChangeRoles((held \ Changing) \cup roles)
    \/ \E r \in {"JLA"} : Graduate(r)
    \/ \E r \in Tallies : Serve(r)
    \/ HistoryTick \/ Power

\* The task and the command share nothing: either is looked at alone.  Of two
\* calls that both run, each is for a single ship.
Alone ==
    /\ runs'[Task] = NotYet \/ \A r \in Calls : runs'[r] = NotYet
    /\ \/ \E r \in Calls : runs'[r].step \in {"none", "refused"}
       \/ \A r \in Calls : runs'[r].only # Vessels

Unmoved == UNCHANGED desk

MCNext ==
    /\ Unmoved
    /\ \/ desk \in {"chain", "awards"} /\ ChainNext /\ Guild /\ Others
       \/ desk \in {"awards", "board", "departments"} /\ RoundNext /\ UNCHANGED <<chainVars, briefingVars>> /\ Others
       \/ desk = "delivery" /\ DeliveryNext /\ Alone /\ UNCHANGED <<guildVars, historyVars, nickVars, rankVars>>
       \/ desk = "promotion" /\ HistoryNext /\ UNCHANGED <<guildVars, deliveryVars, nickVars, rankVars>>
       \/ desk = "nick" /\ NickNext /\ UNCHANGED <<guildVars, deliveryVars, historyVars, rankVars>>
       \/ desk = "ranks" /\ RankNext /\ UNCHANGED <<guildVars, deliveryVars, historyVars, nickVars>>

MCStep(r) ==
    DeliveryStep(r) /\ desk = "delivery" /\ Unmoved /\ UNCHANGED <<guildVars, historyVars, nickVars, rankVars>>

\* A run that has begun goes on unless the process ends: its coroutine is
\* resumed whatever Discord answers.
MCSpec == MCInit /\ [][MCNext]_mcVars /\ \A r \in Run : WF_mcVars(MCStep(r))

CommunityTypesOK ==
    /\ ChainTypeOK /\ AwardTypeOK /\ BriefingTypeOK /\ DeliveryTypeOK
    /\ HistoryTypeOK /\ NickTypeOK /\ RankTypeOK

\* Orders and awards find their officer: the chain of command ends where it
\* should, briefing and tasks find the same awards, and the messages of a
\* round tell each of them once.
AwardsReach ==
    /\ desk = "chain" => ChainHolds(Able)
    /\ desk = "awards" => AwardsAgree(Members)
    /\ AwardsToldOnce

\* The figures of the briefings add up, and so do the counts of their runs.
BriefingsAddUp ==
    /\ desk = "daily" => DailyAddsUp
    /\ desk = "weekly" => WeeklyAddsUp
    /\ BriefingsCounted

\* Nicknames reach the guilds a member is in, and the ranks in use are those
\* configured.
NamesSettle == NicknamesFollow /\ RanksSettled

=============================================================================
