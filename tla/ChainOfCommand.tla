--------------------------- MODULE ChainOfCommand ---------------------------
(***************************************************************************)
(* Who commands whom (src/data/structs.py, SailorCO): the roles of the     *)
(* guild's members, the officer a sailor answers to, the one who acts when *)
(* that officer is on leave, and the one who may give an award.            *)
(***************************************************************************)
EXTENDS Integers, Sequences, FiniteSets, SequencesExt, FiniteSetsExt

CONSTANTS
    Sailor,
    Posts,              \* the sets of roles a member may hold
    Groups,             \* the fleet, ship and squad a member may be in
    Leaves,             \* the prefixes a display name may have
    Losses,             \* the sets of roles the guild may have lost
    MaxOrders           \* how often the roles of the guild change

VARIABLE roster         \* sailor -> [posts, group, leave]; the roles lost; and the orders given

chainVars == <<roster>>

Nobody == "nobody"
Board == "board"            \* the role of the Board of Admiralty
Unanswered == "unanswered"  \* the search raises AttributeError
Endless == "endless"        \* the search would not end

\* Members are known by their ids, which none of these is.
ASSUME ChainAssumption ==
    MaxOrders \in Nat /\ Sailor \cap {Nobody, Board, Unanswered, Endless} = {}

\* CHAIN_OF_COMMAND: a role, the role above it, and the group they share.
Chain == <<
    [role |-> "AOTN",     over |-> Nobody,    within |-> {}],
    [role |-> "VADM",     over |-> "AOTN",     within |-> {}],
    [role |-> "MCPON",    over |-> "AOTN",     within |-> {}],
    [role |-> "FLEET_CO", over |-> "VADM",     within |-> {}],
    [role |-> "SHIP_CO",  over |-> "FLEET_CO", within |-> {"fleet"}],
    [role |-> "SHIP_FO",  over |-> "SHIP_CO",  within |-> {"ship"}],
    [role |-> "SHIP_COS", over |-> "SHIP_FO",  within |-> {"ship"}],
    [role |-> "SHIP_SL",  over |-> "SHIP_COS", within |-> {"ship"}],
    [role |-> "SNCO",     over |-> "SHIP_SL",  within |-> {"squad"}],
    [role |-> "NCO",      over |-> "SHIP_SL",  within |-> {"squad"}],
    [role |-> "E3",       over |-> "SHIP_SL",  within |-> {"squad"}],
    [role |-> "E2",       over |-> "SHIP_SL",  within |-> {"squad"}],
    [role |-> "E2A",      over |-> "VADM",     within |-> {}],
    [role |-> "E1",       over |-> "VADM",     within |-> {}]>>

Links == 1..Len(Chain)
LinkOf(role) == CHOOSE i \in Links : Chain[i].role = role

PostsOf(s) == roster.of[s].posts \ roster.lost
GroupOf(s) == roster.of[s].group
OnLoa2(s) == roster.of[s].leave = "[LOA-2]"        \* startswith
OnLeave(s) == roster.of[s].leave # ""              \* a pattern that ignores case

\* A sailor in no fleet, ship or squad shares it with nobody.
Shares(s, m, groups) ==
    \A g \in groups : GroupOf(s)[g] # Nobody /\ GroupOf(m)[g] = GroupOf(s)[g]

\* The first link of the chain a sailor has the role of; 0 when there is none.
Standing(s) ==
    LET held == {i \in Links : Chain[i].role \in PostsOf(s)}
    IN  IF held = {} THEN 0 ELSE Min(held)

\* Of several members with the role the first is taken, and where there is
\* none the search goes up one link; a role the guild does not have has no
\* members to ask for.
OfficerAt(s) ==
    LET above[i \in Links] ==
        LET link == Chain[i]
            holders == {m \in Sailor : link.over \in PostsOf(m) /\ Shares(s, m, link.within)}
        IN  IF link.over = Nobody THEN Nobody
            ELSE IF link.over \in roster.lost THEN Unanswered
            ELSE IF holders # {} THEN CHOOSE m \in holders : TRUE
            ELSE above[LinkOf(link.over)]
    IN  above

Immediate(s) == IF Standing(s) = 0 THEN Nobody ELSE OfficerAt(s)[Standing(s)]

\* The officer of an officer who is on leave acts in turn.
ActingFor(officer) ==
    LET acting[steps \in 0..Len(Chain)] ==
        [s \in Sailor |->
            IF officer[s] \in {Nobody, Unanswered} \/ ~OnLoa2(officer[s]) THEN officer[s]
            ELSE IF steps = 0 THEN Endless
            ELSE acting[steps - 1][officer[s]]]
    IN  acting[Len(Chain)]

ActingIn == ActingFor([s \in Sailor |-> Immediate(s)])

\* for_awards: up the acting officers to one with a role that may give it.
GiverAmong(acting, able) ==
    LET giver[steps \in 0..Len(Chain)] ==
            [s \in Sailor |->
                IF "AOTN" \in PostsOf(s) THEN Board
                ELSE IF acting[s] \in {Nobody, Unanswered} THEN Unanswered
                ELSE IF acting[s] = Endless \/ steps = 0 THEN Endless
                ELSE IF able \cap PostsOf(acting[s]) # {} THEN acting[s]
                ELSE giver[steps - 1][acting[s]]]
    IN  giver[Len(Chain)]

Giver(able) == GiverAmong(ActingIn, able)

----------------------------------------------------------------------------
(* Roles, groups and leave are changed in Discord.                         *)

Assignment == [posts : Posts, group : Groups, leave : Leaves]

ChainInit == roster \in [of : [Sailor -> Assignment], lost : Losses, orders : {0}]

GiveOrder(s) ==
    /\ roster.orders < MaxOrders
    /\ \E a \in Assignment :
         roster' = [of |-> [roster.of EXCEPT ![s] = a], lost |-> roster.lost, orders |-> roster.orders + 1]

ChainTypeOK == roster \in [of : [Sailor -> Assignment], lost : Losses, orders : 0..MaxOrders]

\* The chain always ends, with an answer or with none; the officer a sailor
\* answers to stands above them, whoever acts is not on leave, and whoever is
\* asked to give an award may give it (SailorCO, for_awards).  The search for
\* an officer fails only where the guild has lost a role of the chain.
ChainHolds(able) ==
    \A acting \in {ActingIn}, giver \in {Giver(able)} :
        \A s \in Sailor :
          /\ Immediate(s) \in Sailor => Standing(Immediate(s)) \in 1..(Standing(s) - 1)
          /\ acting[s] \in Sailor =>
                /\ ~OnLoa2(acting[s]) /\ Standing(acting[s]) \in 1..(Standing(s) - 1)
                /\ OnLoa2(Immediate(s)) \/ acting[s] = Immediate(s)
          /\ acting[s] = Nobody => \/ Immediate(s) = Nobody
                                   \/ \E m \in Sailor : OnLoa2(m) /\ Immediate(m) = Nobody
          /\ Unanswered \in {Immediate(s), acting[s]} => roster.lost # {}
          /\ giver[s] \in Sailor => able \cap PostsOf(giver[s]) # {} /\ ~OnLoa2(giver[s])
          /\ giver[s] = Board => \E m \in {s} \cup Sailor : "AOTN" \in PostsOf(m)
          /\ acting[s] # Endless /\ giver[s] # Endless
=============================================================================
