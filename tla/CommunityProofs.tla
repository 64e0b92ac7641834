---------------------------- MODULE CommunityProofs ----------------------------
(***************************************************************************)
(* Proofs about the guild (MCCommunity): nicknames, ranks, deliveries and  *)
(* promotions on their own; the chain of command, awards and briefings,    *)
(* most of which is about operators; and all of them at their desks.       *)
(***************************************************************************)
EXTENDS MCCommunity, SumLemmas, SequenceTheorems, FiniteSetTheorems, FunctionTheorems
-----------------------------------------------------------------------------
(***************************************************************************)
(* Nicknames.  While no change crossed another and no request failed, all  *)
(* handlers but the last have ended, and the last has settled the guilds   *)
(* it has passed: where it asked for nothing the bot had been told of the  *)
(* name.  Of changes that did cross, whatever a guild shows was once asked *)
(* for by one of them.                                                     *)
(***************************************************************************)
Handler == [nick : Nick, at : 1..(Len(Branch) + 1), asked : BOOLEAN]

NickTyped ==
    /\ main \in Nick /\ saved \in Nick /\ names \in [Branches -> Nick] /\ seen \in [Branches -> Nick]
    /\ handlers \in Seq(Handler) /\ crossed \in BOOLEAN /\ lost \in BOOLEAN

Passed(h, b) == \E k \in 1..(h.at - 1) : Branch[k] = b
Given == {handlers[i].nick : i \in DOMAIN handlers}

AskedWhereJoined == \A i \in DOMAIN handlers :
    handlers[i].asked => handlers[i].at \in DOMAIN Branch /\ Branch[handlers[i].at] \in Joined

NamesGiven ==
    /\ \A b \in Branches \ Joined : names[b] = seen[b]
    /\ \A b \in Branches : names[b] \in Given \/ names[b] = seen[b]
    /\ handlers = <<>> => \A b \in Branches : names[b] = main
    /\ ~lost => \A i \in DOMAIN handlers, b \in Joined : Passed(handlers[i], b) => names[b] \in Given

OneAtATime ==
    ~crossed /\ ~lost =>
        /\ \A b \in Joined : seen[b] = main => names[b] = main
        /\ \A i \in DOMAIN handlers : i # Len(handlers) => handlers[i].at > Len(Branch)
        /\ handlers # <<>> =>
             /\ handlers[Len(handlers)].nick = main
             /\ \A b \in Joined : Passed(handlers[Len(handlers)], b) => names[b] = main

NickInv == NickTyped /\ AskedWhereJoined /\ NamesGiven /\ OneAtATime

LEMMA BranchFacts ==
    /\ Len(Branch) \in Nat /\ DOMAIN Branch = 1..Len(Branch)
    /\ \A i \in DOMAIN Branch : Branch[i] \in Branches
    /\ Joined \subseteq Branches
    /\ \A b \in Branches : \E k \in 1..Len(Branch) : Branch[k] = b
<1>1. Branch \in Seq({Branch[i] : i \in DOMAIN Branch})
    BY NicknameAssumption
<1>2. Len(Branch) \in Nat /\ DOMAIN Branch = 1..Len(Branch)
    BY <1>1
<1> QED
    BY <1>2, NicknameAssumption DEF Branches

LEMMA NickInitially == NickInit => NickInv
<1> SUFFICES ASSUME NickInit
             PROVE  NickInv
    OBVIOUS
<1>1. NickTyped
    <2>1. handlers \in Seq(Handler)
        BY DEF NickInit
    <2>2. names \in [Branches -> Nick]
        BY DEF NickInit
    <2> QED
        BY <2>1, <2>2 DEF NickInit, NickTyped
<1>2. AskedWhereJoined /\ OneAtATime
    BY BranchFacts DEF NickInit, AskedWhereJoined, OneAtATime
<1>3. NamesGiven
    BY BranchFacts DEF NickInit, NamesGiven
<1> QED
    BY <1>1, <1>2, <1>3 DEF NickInv

LEMMA RenameKeeps ==
    ASSUME NickInv, NEW n \in Nick, Rename(n)
    PROVE  NickInv'
<1> DEFINE h == [nick |-> n, at |-> 1, asked |-> FALSE]
<1>1. NickTyped /\ AskedWhereJoined /\ NamesGiven /\ OneAtATime
    BY DEF NickInv
<1>2. /\ main' = n /\ handlers' = Append(handlers, h) /\ crossed' = (crossed \/ ~Quiet)
      /\ names' = names /\ seen' = seen /\ saved' = saved /\ lost' = lost
    BY DEF Rename
<1>3. h \in Handler
    BY BranchFacts DEF Handler
<1>4. handlers \in Seq(Handler) /\ Len(handlers) \in Nat /\ DOMAIN handlers = 1..Len(handlers)
    BY <1>1 DEF NickTyped
<1>5. /\ handlers' \in Seq(Handler) /\ Len(handlers') = Len(handlers) + 1
      /\ DOMAIN handlers' = 1..(Len(handlers) + 1)
      /\ \A i \in DOMAIN handlers : i \in DOMAIN handlers' /\ handlers'[i] = handlers[i]
      /\ handlers'[Len(handlers) + 1] = h
      /\ \A i \in DOMAIN handlers' : i \in DOMAIN handlers \/ i = Len(handlers) + 1
      /\ handlers' # <<>>
    <2> HIDE DEF h
    <2> QED
        BY <1>2, <1>3, <1>4
<1>6. NickTyped'
    BY <1>1, <1>2, <1>5 DEF NickTyped, Quiet
<1>7. AskedWhereJoined'
    BY <1>1, <1>5 DEF AskedWhereJoined
<1>8. \A b : ~Passed(h, b)
    BY DEF Passed
<1> HIDE DEF h
<1>9. \A b : \A i \in DOMAIN handlers' : Passed(handlers'[i], b) => i \in DOMAIN handlers /\ Passed(handlers[i], b)
    BY <1>5, <1>8 DEF Passed
<1>10. Given \subseteq Given'
    BY <1>5 DEF Given
<1>11. NamesGiven'
    BY <1>1, <1>2, <1>5, <1>9, <1>10 DEF NamesGiven
<1>12. OneAtATime'
    <2> SUFFICES ASSUME ~crossed', ~lost'
                 PROVE  /\ \A b \in Joined : seen'[b] = main' => names'[b] = main'
                        /\ \A i \in DOMAIN handlers' : i # Len(handlers') => handlers'[i].at > Len(Branch)
                        /\ handlers'[Len(handlers')].nick = main'
                        /\ \A b \in Joined : Passed(handlers'[Len(handlers')], b) => names'[b] = main'
        BY DEF OneAtATime, Passed
    <2>1. seen = names /\ \A i \in DOMAIN handlers : handlers[i].at > Len(Branch)
        BY <1>2 DEF Quiet
    <2>2. Len(handlers') = Len(handlers) + 1 /\ handlers'[Len(handlers')] = h /\ h.nick = n
        BY <1>5 DEF h
    <2>3. \A i \in DOMAIN handlers' : i # Len(handlers') => handlers'[i].at > Len(Branch)
        BY <1>5, <2>1, <2>2
    <2> QED
        BY <1>2, <1>8, <2>1, <2>2, <2>3
<1> QED
    BY <1>6, <1>7, <1>11, <1>12 DEF NickInv

\* A handler that moves on keeps its name, and passes the guild it was at.
LEMMA Moving ==
    ASSUME NickTyped, NEW i \in DOMAIN handlers, NEW h \in Handler, Move(i, h),
           h.nick = handlers[i].nick
    PROVE  /\ handlers' \in Seq(Handler) /\ Len(handlers') = Len(handlers)
           /\ DOMAIN handlers' = DOMAIN handlers /\ handlers # <<>> /\ handlers' # <<>>
           /\ handlers'[i] = h /\ \A j \in DOMAIN handlers : j # i => handlers'[j] = handlers[j]
           /\ Given' = Given
           /\ Len(handlers) \in Nat /\ DOMAIN handlers = 1..Len(handlers)
           /\ Len(handlers) \in DOMAIN handlers
<1>1. handlers \in Seq(Handler) /\ Len(handlers) \in Nat /\ DOMAIN handlers = 1..Len(handlers)
    BY DEF NickTyped
<1>2. handlers' = [handlers EXCEPT ![i] = h]
    BY DEF Move
<1>3. /\ handlers' \in Seq(Handler) /\ Len(handlers') = Len(handlers)
      /\ DOMAIN handlers' = DOMAIN handlers /\ handlers # <<>> /\ handlers' # <<>>
      /\ handlers'[i] = h /\ \A j \in DOMAIN handlers : j # i => handlers'[j] = handlers[j]
    BY <1>1, <1>2
<1>4. \A j \in DOMAIN handlers : handlers'[j].nick = handlers[j].nick
    BY <1>3
<1>5. Given' = Given
    BY <1>3, <1>4 DEF Given
<1> QED
    BY <1>1, <1>3, <1>5

LEMMA NextHandler ==
    ASSUME NEW h \in Handler, NEW at \in 1..(Len(Branch) + 1)
    PROVE  [h EXCEPT !.at = at, !.asked = FALSE] \in Handler
<1> DEFINE positions == 1..(Len(Branch) + 1)
<1>1. at \in positions /\ Handler = [nick : Nick, at : positions, asked : BOOLEAN]
    BY DEF Handler
<1> HIDE DEF positions
<1> QED
    BY <1>1

LEMMA PassesOne ==
    ASSUME NEW h, NEW g, NEW b, h.at \in Nat, g.at = h.at + 1, Passed(g, b)
    PROVE  Passed(h, b) \/ Branch[h.at] = b
<1>1. PICK k \in 1..(g.at - 1) : Branch[k] = b
    BY DEF Passed
<1>2. k \in 1..(h.at - 1) \/ k = h.at
    BY <1>1
<1> QED
    BY <1>1, <1>2 DEF Passed

LEMMA LookKeeps ==
    ASSUME NickInv, NEW i \in DOMAIN handlers, Look(i)
    PROVE  NickInv'
<1> DEFINE h == handlers[i]
           b == Branch[h.at]
           asks == b \in Joined /\ seen[b] # h.nick
<1>1. NickTyped /\ AskedWhereJoined /\ NamesGiven /\ OneAtATime
    BY DEF NickInv
<1>2. /\ h.at \in DOMAIN Branch /\ ~h.asked
      /\ main' = main /\ names' = names /\ seen' = seen /\ saved' = saved /\ crossed' = crossed
    BY DEF Look
<1>3. h \in Handler /\ h.at \in 1..Len(Branch) /\ Len(Branch) \in Nat /\ b \in Branches
    BY <1>1, <1>2, BranchFacts DEF NickTyped
<1>4. CASE asks /\ Move(i, [h EXCEPT !.asked = TRUE]) /\ lost' = lost
    <2> DEFINE g == [h EXCEPT !.asked = TRUE]
    <2>1. g \in Handler /\ g.nick = h.nick /\ g.at = h.at /\ Move(i, g)
        BY <1>2, <1>3, <1>4 DEF Handler
    <2> HIDE DEF g
    <2>2. /\ handlers' \in Seq(Handler) /\ Len(handlers') = Len(handlers)
          /\ DOMAIN handlers' = DOMAIN handlers /\ handlers # <<>> /\ handlers' # <<>>
          /\ handlers'[i] = g /\ \A j \in DOMAIN handlers : j # i => handlers'[j] = handlers[j]
          /\ Given' = Given
        BY <1>1, <2>1, Moving
    <2>3. \A j \in DOMAIN handlers : handlers'[j].at = handlers[j].at /\ handlers'[j].nick = handlers[j].nick
        BY <2>1, <2>2
    <2>4. \A c : \A j \in DOMAIN handlers : Passed(handlers'[j], c) <=> Passed(handlers[j], c)
        BY <2>3 DEF Passed
    <2>5. NickTyped'
        BY <1>1, <1>2, <1>4, <2>2 DEF NickTyped
    <2>6. AskedWhereJoined'
        BY <1>1, <1>2, <1>4, <2>1, <2>2 DEF AskedWhereJoined
    <2>7. NamesGiven'
        BY <1>1, <1>2, <1>4, <2>2, <2>4 DEF NamesGiven
    <2>8. Len(handlers) \in DOMAIN handlers
        BY <1>1, <2>1, Moving
    <2>9. OneAtATime'
        BY <1>1, <1>2, <1>4, <2>2, <2>3, <2>4, <2>8 DEF OneAtATime
    <2> QED
        BY <2>5, <2>6, <2>7, <2>9 DEF NickInv
<1>5. CASE ~asks /\ Move(i, [h EXCEPT !.at = @ + 1]) /\ lost' = lost
    <2> DEFINE g == [h EXCEPT !.at = @ + 1]
    <2>1. g \in Handler /\ g.nick = h.nick /\ g.at = h.at + 1 /\ ~g.asked /\ Move(i, g)
        BY <1>2, <1>3, <1>5 DEF Handler
    <2> HIDE DEF g
    <2>2. /\ handlers' \in Seq(Handler) /\ Len(handlers') = Len(handlers)
          /\ DOMAIN handlers' = DOMAIN handlers /\ handlers # <<>> /\ handlers' # <<>>
          /\ handlers'[i] = g /\ \A j \in DOMAIN handlers : j # i => handlers'[j] = handlers[j]
          /\ Given' = Given /\ Len(handlers) \in DOMAIN handlers
        BY <1>1, <2>1, Moving
    <2>3. \A c : Passed(g, c) => Passed(h, c) \/ b = c
        BY <1>3, <2>1, PassesOne
    <2>4. NickTyped'
        BY <1>1, <1>2, <1>5, <2>2 DEF NickTyped
    <2>5. AskedWhereJoined'
        BY <1>1, <1>2, <2>1, <2>2 DEF AskedWhereJoined
    <2>6. h.nick \in Given
        BY DEF Given
    <2>7. b \in Joined => names[b] \in Given
        BY <1>1, <1>3, <1>5, <2>6 DEF NamesGiven
    <2>8. NamesGiven'
        <3>1. ASSUME ~lost', NEW j \in DOMAIN handlers', NEW c \in Joined, Passed(handlers'[j], c)
              PROVE  names'[c] \in Given'
            <4>1. Passed(handlers[j], c) \/ b = c
                BY <2>2, <2>3, <3>1
            <4>2. ~lost /\ j \in DOMAIN handlers
                BY <1>2, <1>5, <2>2, <3>1
            <4>3. names[c] \in Given
                BY <1>1, <2>7, <4>1, <4>2 DEF NamesGiven
            <4> QED
                BY <1>2, <2>2, <4>3
        <3> QED
            BY <1>1, <1>2, <1>5, <2>2, <3>1 DEF NamesGiven
    <2>9. OneAtATime'
        <3> SUFFICES ASSUME ~crossed', ~lost'
                     PROVE  /\ \A c \in Joined : seen'[c] = main' => names'[c] = main'
                            /\ \A j \in DOMAIN handlers' : j # Len(handlers') => handlers'[j].at > Len(Branch)
                            /\ handlers'[Len(handlers')].nick = main'
                            /\ \A c \in Joined : Passed(handlers'[Len(handlers')], c) => names'[c] = main'
            BY DEF OneAtATime, Passed
        <3>1. /\ \A c \in Joined : seen[c] = main => names[c] = main
              /\ \A j \in DOMAIN handlers : j # Len(handlers) => handlers[j].at > Len(Branch)
              /\ handlers[Len(handlers)].nick = main
              /\ \A c \in Joined : Passed(handlers[Len(handlers)], c) => names[c] = main
            BY <1>1, <1>2, <1>5, <2>2 DEF OneAtATime
        <3>2. i = Len(handlers)
            BY <1>3, <3>1
        <3>3. b \in Joined => names[b] = main
            BY <1>5, <3>1, <3>2
        <3>4. \A j \in DOMAIN handlers' : j # Len(handlers') => handlers'[j].at > Len(Branch)
            BY <2>2, <3>1, <3>2
        <3>5. handlers'[Len(handlers')] = g
            BY <2>2, <3>2
        <3> QED
            BY <1>2, <2>1, <2>3, <3>1, <3>2, <3>3, <3>4, <3>5
    <2> QED
        BY <2>4, <2>5, <2>8, <2>9 DEF NickInv
<1>6. CASE lost' = TRUE /\ Move(i, [h EXCEPT !.at = Len(Branch) + 1])
    <2> DEFINE g == [h EXCEPT !.at = Len(Branch) + 1]
    <2>1. g \in Handler /\ g.nick = h.nick /\ ~g.asked /\ Move(i, g)
        <3>1. Len(Branch) + 1 \in 1..(Len(Branch) + 1)
            BY <1>3
        <3> DEFINE positions == 1..(Len(Branch) + 1)
        <3>2. Len(Branch) + 1 \in positions /\ Handler = [nick : Nick, at : positions, asked : BOOLEAN]
            BY <3>1 DEF Handler
        <3> HIDE DEF positions
        <3> QED
            BY <1>2, <1>3, <1>6, <3>2
    <2> HIDE DEF g
    <2>2. /\ handlers' \in Seq(Handler) /\ Len(handlers') = Len(handlers)
          /\ DOMAIN handlers' = DOMAIN handlers /\ handlers # <<>> /\ handlers' # <<>>
          /\ handlers'[i] = g /\ \A j \in DOMAIN handlers : j # i => handlers'[j] = handlers[j]
          /\ Given' = Given
        BY <1>1, <2>1, Moving
    <2>3. NickTyped'
        BY <1>1, <1>2, <1>6, <2>2 DEF NickTyped
    <2>4. AskedWhereJoined'
        BY <1>1, <2>1, <2>2 DEF AskedWhereJoined
    <2>5. NamesGiven' /\ OneAtATime'
        BY <1>1, <1>2, <1>6, <2>2 DEF NamesGiven, OneAtATime
    <2> QED
        BY <2>3, <2>4, <2>5 DEF NickInv
<1> QED
    BY <1>4, <1>5, <1>6 DEF Look

LEMMA EditedKeeps ==
    ASSUME NickInv, NEW i \in DOMAIN handlers, Edited(i)
    PROVE  NickInv'
<1> DEFINE h == handlers[i]
           b == Branch[h.at]
<1>1. NickTyped /\ AskedWhereJoined /\ NamesGiven /\ OneAtATime
    BY DEF NickInv
<1>2. /\ h.at \in DOMAIN Branch /\ h.asked
      /\ main' = main /\ seen' = seen /\ saved' = saved /\ crossed' = crossed
    BY DEF Edited
<1>3. h \in Handler /\ h.at \in 1..Len(Branch) /\ Len(Branch) \in Nat /\ b \in Branches /\ b \in Joined
    BY <1>1, <1>2, BranchFacts DEF NickTyped, AskedWhereJoined
<1>4. h.nick \in Given
    BY DEF Given
<1>5. CASE names' = [names EXCEPT ![b] = h.nick] /\ lost' = lost
           /\ Move(i, [h EXCEPT !.at = @ + 1, !.asked = FALSE])
    <2> DEFINE g == [h EXCEPT !.at = @ + 1, !.asked = FALSE]
    <2>1. g \in Handler /\ g.nick = h.nick /\ g.at = h.at + 1 /\ ~g.asked /\ Move(i, g)
        <3>1. Move(i, g)
            BY <1>5
        <3>2. g.nick = h.nick /\ g.at = h.at + 1 /\ g.asked = FALSE
            BY <1>3 DEF Handler
        <3>3. g \in Handler
            <4>1. h.at + 1 \in 1..(Len(Branch) + 1)
                BY <1>3
            <4> QED
                BY <1>3, <4>1, NextHandler
        <3> QED
            BY <3>1, <3>2, <3>3
    <2> HIDE DEF g
    <2>2. /\ handlers' \in Seq(Handler) /\ Len(handlers') = Len(handlers)
          /\ DOMAIN handlers' = DOMAIN handlers /\ handlers # <<>> /\ handlers' # <<>>
          /\ handlers'[i] = g /\ \A j \in DOMAIN handlers : j # i => handlers'[j] = handlers[j]
          /\ Given' = Given /\ Len(handlers) \in DOMAIN handlers
        BY <1>1, <2>1, Moving
    <2>3. \A c : Passed(g, c) => Passed(h, c) \/ b = c
        BY <1>3, <2>1, PassesOne
    <2>4. h.nick \in Nick
        BY <1>3 DEF Handler
    <2>5. names' \in [Branches -> Nick] /\ names'[b] = h.nick
          /\ \A c \in Branches : c # b => names'[c] = names[c]
        BY <1>1, <1>3, <1>5, <2>4 DEF NickTyped
    <2>6. NickTyped'
        BY <1>1, <1>2, <1>5, <2>2, <2>5 DEF NickTyped
    <2>7. AskedWhereJoined'
        BY <1>1, <2>1, <2>2 DEF AskedWhereJoined
    <2>8. NamesGiven'
        <3>1. ASSUME ~lost', NEW j \in DOMAIN handlers', NEW c \in Joined, Passed(handlers'[j], c)
              PROVE  names'[c] \in Given'
            <4>1. Passed(handlers[j], c) \/ b = c
                BY <2>2, <2>3, <3>1
            <4>2. ~lost /\ j \in DOMAIN handlers /\ c \in Branches
                BY <1>5, <2>2, <3>1, BranchFacts
            <4>3. c # b => names[c] \in Given
                BY <1>1, <4>1, <4>2 DEF NamesGiven
            <4> QED
                BY <1>4, <2>2, <2>5, <4>2, <4>3
        <3>2. \A c \in Branches \ Joined : names'[c] = seen'[c]
            BY <1>1, <1>2, <1>3, <2>5 DEF NamesGiven
        <3>3. \A c \in Branches : names'[c] \in Given' \/ names'[c] = seen'[c]
            BY <1>1, <1>2, <1>4, <2>2, <2>5 DEF NamesGiven
        <3> QED
            BY <2>2, <3>1, <3>2, <3>3 DEF NamesGiven
    <2>9. OneAtATime'
        <3> SUFFICES ASSUME ~crossed', ~lost'
                     PROVE  /\ \A c \in Joined : seen'[c] = main' => names'[c] = main'
                            /\ \A j \in DOMAIN handlers' : j # Len(handlers') => handlers'[j].at > Len(Branch)
                            /\ handlers'[Len(handlers')].nick = main'
                            /\ \A c \in Joined : Passed(handlers'[Len(handlers')], c) => names'[c] = main'
            BY DEF OneAtATime, Passed
        <3>1. /\ \A c \in Joined : seen[c] = main => names[c] = main
              /\ \A j \in DOMAIN handlers : j # Len(handlers) => handlers[j].at > Len(Branch)
              /\ handlers[Len(handlers)].nick = main
              /\ \A c \in Joined : Passed(handlers[Len(handlers)], c) => names[c] = main
            BY <1>1, <1>2, <1>5, <2>2 DEF OneAtATime
        <3>2. i = Len(handlers) /\ h.nick = main
            BY <1>3, <3>1
        <3>3. names'[b] = main /\ \A c \in Joined : names[c] = main => names'[c] = main
            BY <2>5, <3>2, BranchFacts
        <3>4. \A j \in DOMAIN handlers' : j # Len(handlers') => handlers'[j].at > Len(Branch)
            BY <2>2, <3>1, <3>2
        <3>5. handlers'[Len(handlers')] = g /\ g.nick = main
            BY <2>1, <2>2, <3>2
        <3>6. \A c \in Joined : Passed(g, c) => names'[c] = main
            BY <2>3, <3>1, <3>2, <3>3
        <3> QED
            BY <1>2, <3>1, <3>3, <3>4, <3>5, <3>6
    <2> QED
        BY <2>6, <2>7, <2>8, <2>9 DEF NickInv
<1>6. CASE lost' = TRUE /\ names' = names
           /\ Move(i, [h EXCEPT !.at = Len(Branch) + 1, !.asked = FALSE])
    <2> DEFINE g == [h EXCEPT !.at = Len(Branch) + 1, !.asked = FALSE]
    <2>1. g \in Handler /\ g.nick = h.nick /\ ~g.asked /\ Move(i, g)
        <3>1. Move(i, g)
            BY <1>6
        <3>2. g.nick = h.nick /\ g.asked = FALSE
            BY <1>3 DEF Handler
        <3>3. g \in Handler
            <4>1. Len(Branch) + 1 \in 1..(Len(Branch) + 1)
                BY <1>3
            <4> QED
                BY <1>3, <4>1, NextHandler
        <3> QED
            BY <3>1, <3>2, <3>3
    <2> HIDE DEF g
    <2>2. /\ handlers' \in Seq(Handler) /\ Len(handlers') = Len(handlers)
          /\ DOMAIN handlers' = DOMAIN handlers /\ handlers # <<>> /\ handlers' # <<>>
          /\ handlers'[i] = g /\ \A j \in DOMAIN handlers : j # i => handlers'[j] = handlers[j]
          /\ Given' = Given
        BY <1>1, <2>1, Moving
    <2>3. NickTyped'
        BY <1>1, <1>2, <1>6, <2>2 DEF NickTyped
    <2>4. AskedWhereJoined'
        BY <1>1, <2>1, <2>2 DEF AskedWhereJoined
    <2>5. NamesGiven' /\ OneAtATime'
        BY <1>1, <1>2, <1>6, <2>2 DEF NamesGiven, OneAtATime
    <2> QED
        BY <2>3, <2>4, <2>5 DEF NickInv
<1> QED
    BY <1>5, <1>6 DEF Edited

LEMMA ToldKeeps ==
    ASSUME NickInv, NEW b \in Branches, Told(b)
    PROVE  NickInv'
<1>1. NickTyped /\ AskedWhereJoined /\ NamesGiven /\ OneAtATime
    BY DEF NickInv
<1>2. /\ seen[b] # names[b] /\ seen' = [seen EXCEPT ![b] = names[b]]
      /\ main' = main /\ names' = names /\ handlers' = handlers /\ saved' = saved
      /\ crossed' = crossed /\ lost' = lost
    BY DEF Told
<1>3. seen' \in [Branches -> Nick] /\ \A c \in Branches : seen'[c] = IF c = b THEN names[b] ELSE seen[c]
    BY <1>1, <1>2 DEF NickTyped
<1>4. NickTyped' /\ AskedWhereJoined' /\ Given' = Given
    BY <1>1, <1>2, <1>3 DEF NickTyped, AskedWhereJoined, Given
<1>5. NamesGiven'
    BY <1>1, <1>2, <1>3, <1>4 DEF NamesGiven
<1>6. OneAtATime'
    BY <1>1, <1>2, <1>3, BranchFacts DEF OneAtATime
<1> QED
    BY <1>4, <1>5, <1>6 DEF NickInv

LEMMA NickKept ==
    ASSUME NickInv, [NickNext]_nickVars
    PROVE  NickInv'
<1>1. CASE UNCHANGED nickVars
    BY <1>1 DEF nickVars, NickInv, NickTyped, AskedWhereJoined, NamesGiven, OneAtATime, Given
<1>2. CASE SaveProfiles
    BY <1>2 DEF SaveProfiles, NickInv, NickTyped, AskedWhereJoined, NamesGiven, OneAtATime, Given
<1> QED
    BY <1>1, <1>2, RenameKeeps, LookKeeps, EditedKeeps, ToldKeeps DEF NickNext

LEMMA NamesDoFollow == NickInv => NickTypeOK /\ NicknamesFollow
<1> SUFFICES ASSUME NickInv
             PROVE  NickTypeOK /\ NicknamesFollow
    OBVIOUS
<1>1. NickTyped /\ AskedWhereJoined /\ NamesGiven /\ OneAtATime
    BY DEF NickInv
<1>2. handlers \in Seq(Handler) /\ Len(handlers) \in Nat /\ DOMAIN handlers = 1..Len(handlers)
      /\ \A i \in DOMAIN handlers : handlers[i] \in Handler
    BY <1>1 DEF NickTyped
<1>3. NickTypeOK
    BY <1>1, <1>2 DEF NickTyped, NickTypeOK, Handler
<1>4. ASSUME Quiet, NEW i \in DOMAIN handlers, NEW b \in Joined
      PROVE  Passed(handlers[i], b)
    <2>1. handlers[i].at = Len(Branch) + 1 /\ Len(Branch) \in Nat
        BY <1>2, <1>4, BranchFacts DEF Quiet, Handler
    <2>2. PICK k \in 1..Len(Branch) : Branch[k] = b
        BY BranchFacts
    <2>3. handlers[i].at - 1 = Len(Branch)
        BY <2>1
    <2> QED
        BY <2>2, <2>3 DEF Passed
<1>5. handlers # <<>> => Len(handlers) \in DOMAIN handlers /\ DOMAIN handlers # {}
    <2>1. handlers # <<>> => Len(handlers) \in Nat \ {0}
        BY <1>2, EmptySeq
    <2>2. Len(handlers) \in Nat \ {0} => Len(handlers) \in 1..Len(handlers)
        OBVIOUS
    <2> QED
        BY <1>2, <2>1, <2>2
<1>6. Quiet /\ ~crossed /\ ~lost => \A b \in Joined : names[b] = main
    BY <1>1, <1>4, <1>5, BranchFacts DEF NamesGiven, OneAtATime
<1>7. Quiet /\ ~lost => \A b \in Joined : names[b] = main \/ \E i \in DOMAIN handlers : names[b] = handlers[i].nick
    BY <1>1, <1>4, <1>5, BranchFacts DEF NamesGiven, Given
<1> QED
    BY <1>1, <1>3, <1>6, <1>7 DEF NicknamesFollow, NamesGiven
-----------------------------------------------------------------------------
(***************************************************************************)
(* Ranks.  A sync has put in order the ranks it has passed, and what is    *)
(* in the table besides those configured it has read, unless it was blind. *)
(***************************************************************************)
RankRole == UNION {{v[i].role : i \in DOMAIN v} : v \in Versions}
RankName == UNION {{v[i].name : i \in DOMAIN v} : v \in Versions}
RankRow == [name : RankName, active : BOOLEAN]
Table == UNION {[d -> RankRow] : d \in SUBSET RankRole}
Syncs == [config : Versions \cup {<<>>}, step : {"down", "upsert", "up"}, at : Nat \ {0},
          known : Table, blind : BOOLEAN, starts : 0..MaxStarts]

RankTyped == ranks \in Table /\ sync \in Syncs /\ sync.at <= Len(sync.config) + 1

Settled(i) ==
    LET r == sync.config[i].role
    IN  r # "none" => r \in DOMAIN ranks /\ ranks[r].active /\ ranks[r].name = sync.config[i].name

SyncOrder ==
    sync.step # "down" =>
        /\ sync.config \in Versions
        /\ \A i \in DOMAIN sync.config : i < sync.at => Settled(i)
        /\ DOMAIN sync.known \subseteq DOMAIN ranks
        /\ ~sync.blind => DOMAIN ranks \subseteq DOMAIN sync.known \cup Named(sync.config)
        /\ sync.step = "up" => sync.at = Len(sync.config) + 1 /\ Retired = {}

RankInv == RankTyped /\ SyncOrder

LEMMA ConfigIsSeq ==
    ASSUME RankTyped
    PROVE  /\ Len(sync.config) \in Nat /\ DOMAIN sync.config = 1..Len(sync.config)
           /\ sync.config \in Versions => \A i \in DOMAIN sync.config :
                 sync.config[i].role \in RankRole /\ sync.config[i].name \in RankName
<1>1. sync.config \in Versions \cup {<<>>}
    BY DEF RankTyped, Syncs
<1>2. CASE sync.config \in Versions
    <2>1. sync.config \in Seq({sync.config[i] : i \in DOMAIN sync.config})
        BY <1>2, RankAssumption
    <2>2. Len(sync.config) \in Nat /\ DOMAIN sync.config = 1..Len(sync.config)
        BY <2>1
    <2> QED
        BY <1>2, <2>2 DEF RankRole, RankName
<1>3. CASE sync.config = <<>> /\ sync.config \notin Versions
    BY <1>3
<1> QED
    BY <1>1, <1>2, <1>3

LEMMA TableFacts ==
    ASSUME NEW t \in Table
    PROVE  DOMAIN t \subseteq RankRole /\ \A r \in DOMAIN t : t[r] \in RankRow
BY DEF Table

LEMMA NothingIsATable == <<>> \in Table
<1>1. <<>> \in [{} -> RankRow]
    BY SMT
<1> QED
    BY <1>1 DEF Table

LEMMA RankInitially == RankInit => RankInv
<1> SUFFICES ASSUME RankInit
             PROVE  RankInv
    OBVIOUS
<1>1. sync = Down /\ ranks = <<>>
    BY DEF RankInit
<1>2. Down \in Syncs /\ Down.step = "down" /\ Down.at = 1 /\ Down.config = <<>>
    BY NothingIsATable, RankAssumption DEF Down, Syncs
<1>3. sync.at <= Len(sync.config) + 1
    BY <1>1, <1>2
<1> QED
    BY <1>1, <1>2, <1>3, NothingIsATable DEF RankInv, RankTyped, SyncOrder

LEMMA RaiseKeepsRanks ==
    ASSUME RankInv, Raise
    PROVE  RankInv'
<1>1. sync \in Syncs /\ sync' = [sync EXCEPT !.step = "down"] /\ ranks' = ranks
    BY DEF Raise, RankInv, RankTyped
<1>2. sync' \in Syncs /\ sync'.step = "down" /\ sync'.at = sync.at /\ sync'.config = sync.config
    BY <1>1 DEF Syncs
<1> QED
    BY <1>1, <1>2 DEF RankInv, RankTyped, SyncOrder

LEMMA StartSyncKeeps ==
    ASSUME RankInv, NEW config \in Versions, StartSync(config)
    PROVE  RankInv'
<1>1. RankTyped /\ ranks \in Table /\ sync \in Syncs /\ ranks' = ranks
    BY DEF StartSync, RankInv, RankTyped
<1>2. PICK blind \in BOOLEAN :
        sync' = [config |-> config, step |-> "upsert", at |-> 1, blind |-> blind,
                 known |-> IF blind THEN <<>> ELSE ranks, starts |-> sync.starts + 1]
    BY DEF StartSync
<1> DEFINE known == IF blind THEN <<>> ELSE ranks
           starts == sync.starts + 1
<1>3. known \in Table
    BY <1>1, NothingIsATable
<1>4. starts \in 0..MaxStarts
    BY <1>1, RankAssumption DEF StartSync, Syncs
<1>5. ~blind => known = ranks
    OBVIOUS
<1>6. DOMAIN known \subseteq DOMAIN ranks
    <2>1. CASE blind
        <3>1. DOMAIN <<>> = {}
            BY SMT
        <3> QED
            BY <2>1, <3>1
    <2>2. CASE ~blind
        BY <2>2
    <2> QED
        BY <2>1, <2>2
<1> HIDE DEF known, starts
<1>7. sync' = [config |-> config, step |-> "upsert", at |-> 1, blind |-> blind,
               known |-> known, starts |-> starts]
    BY <1>2 DEF known, starts
<1>8. sync' \in Syncs
    BY <1>3, <1>4, <1>7 DEF Syncs
<1>9. /\ sync'.config = config /\ sync'.step = "upsert" /\ sync'.at = 1 /\ sync'.blind = blind
      /\ sync'.known = known
    BY <1>7
<1>10. Len(config) \in Nat /\ DOMAIN config = 1..Len(config)
    <2>1. config \in Seq({config[i] : i \in DOMAIN config})
        BY RankAssumption
    <2> QED
        BY <2>1
<1>11. RankTyped'
    BY <1>1, <1>8, <1>9, <1>10 DEF RankTyped
<1>12. ~(\E i \in DOMAIN config : i < 1)
    BY <1>10
<1>13. SyncOrder'
    BY <1>1, <1>5, <1>6, <1>9, <1>12 DEF SyncOrder
<1> QED
    BY <1>11, <1>13 DEF RankInv

\* What it does to the table to write a row.
LEMMA Putting ==
    ASSUME ranks \in Table, NEW r \in RankRole, NEW name \in RankName, NEW active \in BOOLEAN,
           Put(r, name, active)
    PROVE  /\ ranks' \in Table /\ DOMAIN ranks' = DOMAIN ranks \cup {r}
           /\ ranks'[r].name = name /\ ranks'[r].active = active
           /\ \A o \in DOMAIN ranks : o # r => ranks'[o] = ranks[o]
<1> DEFINE d == DOMAIN ranks \cup {r}
<1>1. ranks' = [o \in d |-> IF o = r THEN [name |-> name, active |-> active] ELSE ranks[o]]
    BY DEF Put
<1>2. d \in SUBSET RankRole /\ \A o \in DOMAIN ranks : ranks[o] \in RankRow
    BY TableFacts
<1>3. [name |-> name, active |-> active] \in RankRow
    BY DEF RankRow
<1>4. \A o \in d : ranks'[o] \in RankRow
    BY <1>1, <1>2, <1>3
<1>5. ranks' \in [d -> RankRow]
    BY <1>1, <1>4
<1>6. ranks' \in Table
    BY <1>2, <1>5 DEF Table
<1>7. r \in d /\ \A o \in DOMAIN ranks : o \in d
    OBVIOUS
<1>8. ranks'[r] = [name |-> name, active |-> active]
    BY <1>1, <1>7
<1> QED
    BY <1>1, <1>6, <1>7, <1>8

LEMMA UpsertKeeps ==
    ASSUME RankInv, Upsert
    PROVE  RankInv'
<1> DEFINE i == sync.at
           rank == sync.config[i]
           g == [sync EXCEPT !.at = @ + 1]
<1>1. RankTyped /\ SyncOrder /\ ranks \in Table /\ sync \in Syncs
    BY DEF RankInv, RankTyped
<1>2. sync.step = "upsert" /\ i \in DOMAIN sync.config /\ sync.config \in Versions
    BY <1>1 DEF Upsert, SyncOrder
<1>3. CASE Raise
    BY <1>3, RaiseKeepsRanks
<1>4. CASE /\ sync' = g
           /\ IF rank.role = "none" THEN UNCHANGED ranks
              ELSE /\ rank.role \in DOMAIN sync.known \/ rank.role \notin DOMAIN ranks
                   /\ Put(rank.role, rank.name, TRUE)
    <2>1. /\ g.config = sync.config /\ g.step = "upsert" /\ g.at = i + 1 /\ g.known = sync.known
          /\ g.blind = sync.blind /\ g \in Syncs
        BY <1>1, <1>2 DEF Syncs
    <2>2. Len(sync.config) \in Nat /\ DOMAIN sync.config = 1..Len(sync.config)
          /\ rank.role \in RankRole /\ rank.name \in RankName /\ i \in 1..Len(sync.config)
        BY <1>1, <1>2, ConfigIsSeq
    <2>3. sync' = g
        BY <1>4
    <2> HIDE DEF g
    <2>4. i + 1 <= Len(sync.config) + 1 /\ \A k \in DOMAIN sync.config : k < i + 1 => k < i \/ k = i
        BY <2>2
    <2>5. CASE rank.role = "none"
        <3>1. ranks' = ranks
            BY <1>4, <2>5
        <3>2. RankTyped'
            BY <1>1, <2>1, <2>3, <2>4, <3>1 DEF RankTyped
        <3>3. \A k \in DOMAIN sync.config : k < i + 1 => Settled(k)
            BY <1>1, <1>2, <2>4, <2>5 DEF SyncOrder, Settled
        <3>4. \A k \in DOMAIN sync'.config : k < sync'.at => Settled(k)'
            BY <2>1, <2>3, <3>1, <3>3 DEF Settled
        <3> QED
            BY <1>1, <1>2, <2>1, <2>3, <3>1, <3>2, <3>4 DEF RankInv, SyncOrder
    <2>6. CASE rank.role # "none"
        <3>1. /\ ranks' \in Table /\ DOMAIN ranks' = DOMAIN ranks \cup {rank.role}
              /\ ranks'[rank.role].name = rank.name /\ ranks'[rank.role].active = TRUE
              /\ \A o \in DOMAIN ranks : o # rank.role => ranks'[o] = ranks[o]
            BY <1>1, <1>4, <2>2, <2>6, Putting
        <3>2. RankTyped'
            BY <1>1, <2>1, <2>3, <2>4, <3>1 DEF RankTyped
        <3>3. ASSUME NEW k \in DOMAIN sync.config, k < i + 1, sync.config[k].role # "none"
              PROVE  LET r == sync.config[k].role
                     IN  r \in DOMAIN ranks' /\ ranks'[r].active /\ ranks'[r].name = sync.config[k].name
            <4>1. CASE k = i
                BY <3>1, <4>1
            <4>2. CASE k # i
                <5>1. k < i /\ Settled(k)
                    BY <1>1, <1>2, <2>4, <3>3, <4>2 DEF SyncOrder
                <5>2. sync.config[k].role # rank.role
                    BY <1>2, <3>3, <4>2, RankAssumption
                <5>3. sync.config[k].role \in DOMAIN ranks
                    BY <3>3, <5>1 DEF Settled
                <5>4. ranks'[sync.config[k].role] = ranks[sync.config[k].role]
                    BY <3>1, <5>2, <5>3
                <5> QED
                    BY <3>1, <3>3, <5>1, <5>3, <5>4 DEF Settled
            <4> QED
                BY <4>1, <4>2
        <3>4. \A k \in DOMAIN sync'.config : k < sync'.at => Settled(k)'
            BY <2>1, <2>3, <3>3 DEF Settled
        <3>5. rank.role \in Named(sync.config)
            BY <1>2, <2>6 DEF Named
        <3> QED
            BY <1>1, <1>2, <2>1, <2>3, <3>1, <3>2, <3>4, <3>5 DEF RankInv, SyncOrder
    <2> QED
        BY <2>5, <2>6
<1> QED
    BY <1>3, <1>4 DEF Upsert

LEMMA DeactivateKeeps ==
    ASSUME RankInv, Deactivate
    PROVE  RankInv'
<1>1. RankTyped /\ SyncOrder /\ ranks \in Table /\ sync \in Syncs
    BY DEF RankInv, RankTyped
<1>2. sync.step = "upsert" /\ sync.config \in Versions
    BY <1>1 DEF Deactivate, SyncOrder
<1>3. CASE Raise
    BY <1>3, RaiseKeepsRanks
<1>4. ASSUME NEW r \in Retired, Put(r, ranks[r].name, FALSE), UNCHANGED sync
      PROVE  RankInv'
    <2>1. r \in DOMAIN sync.known /\ r \notin Named(sync.config) /\ r \in DOMAIN ranks
        BY <1>1, <1>2 DEF Retired, SyncOrder
    <2>2. r \in RankRole /\ ranks[r].name \in RankName
        BY <1>1, <2>1, TableFacts DEF RankRow
    <2>3. /\ ranks' \in Table /\ DOMAIN ranks' = DOMAIN ranks \cup {r}
          /\ \A o \in DOMAIN ranks : o # r => ranks'[o] = ranks[o]
        BY <1>1, <1>4, <2>2, Putting
    <2>4. DOMAIN ranks' = DOMAIN ranks
        BY <2>1, <2>3
    <2>5. ASSUME NEW k \in DOMAIN sync.config, k < sync.at
          PROVE  Settled(k)'
        <3>1. Settled(k)
            BY <1>1, <1>2, <2>5 DEF SyncOrder
        <3>2. sync.config[k].role # "none" => sync.config[k].role \in Named(sync.config)
            BY DEF Named
        <3> QED
            BY <1>4, <2>1, <2>3, <2>4, <3>1, <3>2 DEF Settled
    <2> QED
        BY <1>1, <1>2, <1>4, <2>3, <2>4, <2>5 DEF RankInv, RankTyped, SyncOrder
<1> QED
    BY <1>3, <1>4 DEF Deactivate

LEMMA StartedKeeps ==
    ASSUME RankInv, Started
    PROVE  RankInv'
<1>1. RankTyped /\ SyncOrder /\ ranks \in Table /\ sync \in Syncs
    BY DEF RankInv, RankTyped
<1>2. /\ sync.step = "upsert" /\ sync.at > Len(sync.config) /\ Retired = {} /\ ranks' = ranks
      /\ sync' = [sync EXCEPT !.step = "up"]
    BY DEF Started
<1>3. sync.at = Len(sync.config) + 1
    BY <1>1, <1>2, ConfigIsSeq DEF RankTyped, Syncs
<1>4. /\ sync' \in Syncs /\ sync'.step = "up" /\ sync'.at = sync.at /\ sync'.config = sync.config
      /\ sync'.known = sync.known /\ sync'.blind = sync.blind
    BY <1>1, <1>2 DEF Syncs
<1>5. RankTyped'
    BY <1>1, <1>2, <1>4 DEF RankTyped
<1>6. Retired' = Retired
    BY <1>2, <1>4 DEF Retired
<1>7. \A i : Settled(i)' <=> Settled(i)
    BY <1>2, <1>4 DEF Settled
<1>8. SyncOrder'
    BY <1>1, <1>2, <1>3, <1>4, <1>6, <1>7 DEF SyncOrder
<1> QED
    BY <1>5, <1>8 DEF RankInv

LEMMA RanksKept ==
    ASSUME RankInv, [RankNext]_rankVars
    PROVE  RankInv'
<1>1. CASE UNCHANGED rankVars
    BY <1>1 DEF rankVars, RankInv, RankTyped, SyncOrder, Settled, Retired
<1> QED
    BY <1>1, StartSyncKeeps, UpsertKeeps, DeactivateKeeps, StartedKeeps, RaiseKeepsRanks
    DEF RankNext, Shutdown

LEMMA RanksAreSettled == RankInv => RankTypeOK /\ RanksSettled
<1> SUFFICES ASSUME RankInv
             PROVE  RankTypeOK /\ RanksSettled
    OBVIOUS
<1>1. RankTyped /\ SyncOrder /\ ranks \in Table /\ sync \in Syncs
    BY DEF RankInv, RankTyped
<1>2. \A r \in DOMAIN ranks : ranks[r].active \in BOOLEAN
    BY <1>1, TableFacts DEF RankRow
<1>3. sync.at \in 1..(Len(sync.config) + 1)
    BY <1>1, ConfigIsSeq DEF RankTyped, Syncs
<1>4. RankTypeOK
    BY <1>1, <1>2, <1>3 DEF RankTypeOK, Syncs
<1>5. ASSUME sync.step = "up"
      PROVE  /\ \A r \in Named(sync.config) : ranks[r].active
             /\ \A i \in DOMAIN sync.config : sync.config[i].role # "none" =>
                  ranks[sync.config[i].role].name = sync.config[i].name
             /\ sync.blind \/ {r \in DOMAIN ranks : ranks[r].active} = Named(sync.config)
    <2>1. Len(sync.config) \in Nat /\ DOMAIN sync.config = 1..Len(sync.config)
          /\ sync.at = Len(sync.config) + 1
        BY <1>1, <1>5, ConfigIsSeq DEF SyncOrder
    <2>2. \A i \in DOMAIN sync.config : i < sync.at
        BY <2>1
    <2>3. \A i \in DOMAIN sync.config : Settled(i)
        BY <1>1, <1>5, <2>2 DEF SyncOrder
    <2>4. \A r \in Named(sync.config) : r \in DOMAIN ranks /\ ranks[r].active
        BY <2>3 DEF Named, Settled
    <2>5. ~sync.blind => \A r \in DOMAIN ranks : ranks[r].active => r \in Named(sync.config)
        BY <1>1, <1>5 DEF SyncOrder, Retired
    <2> QED
        BY <2>3, <2>4, <2>5 DEF Settled
<1> QED
    BY <1>4, <1>5 DEF RanksSettled
-----------------------------------------------------------------------------
(***************************************************************************)
(* Deliveries.  A run has answered for the ships before the one it is at;  *)
(* of that one it has posted the messages before the next, and of those    *)
(* to come none.                                                           *)
(***************************************************************************)
RunStep == {"none", "refused", "compose", "send", "summary", "over", "cut"}
Working == {"compose", "send"}
Amount == 0..MaxMessages
RunRecord == [at : 0..(Len(Vessel) + 1), step : RunStep, only : SUBSET Vessels,
              due : [Vessels -> Amount], next : Amount,
              sent : SUBSET Vessels, failed : SUBSET Vessels, off : SUBSET Vessels]
PostsOfRun == [Vessels -> Seq(1..MaxMessages)]

Answered(run) == run.sent \cup run.failed \cup run.off
UpTo(i) == {Vessel[k] : k \in 1..i}
Apart(run) == run.sent \cap (run.failed \cup run.off) = {} /\ run.failed \cap run.off = {}

RunTrue(run) ==
    /\ run \in RunRecord /\ Apart(run)
    /\ run.step \in {"none", "refused"} => Answered(run) = {}
    /\ run.step \in Working =>
          run.at \in DOMAIN Vessel /\ Vessel[run.at] \in run.only
          /\ Answered(run) = UpTo(run.at - 1) \cap run.only
    /\ run.step \in {"summary", "over"} => Answered(run) = run.only
    /\ run.step = "send" => run.next \in 1..run.due[Vessel[run.at]]

\* What was posted for a ship goes with what the run says of it.
Sailed(run, ships, v) ==
    /\ \A i \in DOMAIN ships[v] : ships[v][i] = i
    /\ Len(ships[v]) <= run.due[v]
    /\ v \in run.sent => run.due[v] > 0 /\ Len(ships[v]) = run.due[v]
    /\ v \in run.off => run.due[v] = 0
    /\ v \notin run.sent => run.due[v] = 0 \/ Len(ships[v]) < run.due[v]

At(run, v) == run.step = "send" /\ v = Vessel[run.at]

Posted(run, ships, v) ==
    /\ Sailed(run, ships, v)
    /\ At(run, v) => Len(ships[v]) = run.next - 1
    /\ v \notin Answered(run) /\ ~At(run, v) /\ run.step # "cut" => run.due[v] = 0

AtWork == {r \in Calls : runs[r].step \in Working}
LockTrue == lock = AtWork /\ \A r, s \in lock : r = s

DeliveryTyped ==
    /\ runs \in [Run -> RunRecord] /\ posted \in [Run -> PostsOfRun]
    /\ lock \in SUBSET Calls /\ stops \in 0..MaxStops

RunsTrue == \A r \in Run :
    /\ RunTrue(runs[r])
    /\ stops = 0 \/ r # Task => \A v \in Vessels : Posted(runs[r], posted[r], v)

DeliveryInv == DeliveryTyped /\ RunsTrue /\ LockTrue

LEMMA VesselFacts ==
    /\ Len(Vessel) \in Nat /\ DOMAIN Vessel = 1..Len(Vessel)
    /\ \A i \in DOMAIN Vessel : Vessel[i] \in Vessels
    /\ \A v \in Vessels : \E i \in 1..Len(Vessel) : v = Vessel[i]
    /\ \A i, j \in DOMAIN Vessel : Vessel[i] = Vessel[j] => i = j
    /\ MaxMessages \in Nat /\ MaxStops \in Nat /\ Task \notin Calls
<1>1. Vessel \in Seq({Vessel[i] : i \in DOMAIN Vessel}) /\ IsInjective(Vessel)
    BY DeliveryAssumption
<1>2. Len(Vessel) \in Nat /\ DOMAIN Vessel = 1..Len(Vessel)
    BY <1>1
<1>3. \A i, j \in DOMAIN Vessel : Vessel[i] = Vessel[j] => i = j
    BY <1>1 DEF IsInjective
<1> QED
    BY <1>2, <1>3, DeliveryAssumption DEF Vessels

\* The first of some naturals.
LEMMA Least ==
    ASSUME NEW T \in SUBSET Nat, T # {}
    PROVE  \E k \in T : \A o \in T : k <= o
<1>1. PICK k \in T : \A n \in T : ~(<<n, k>> \in OpToRel(<, Nat))
    BY WFMin, NatLessThanWellFounded
<1>2. ASSUME NEW o \in T
      PROVE  k <= o
    <2>1. o \in Nat /\ k \in Nat
        OBVIOUS
    <2>2. o < k => <<o, k>> \in OpToRel(<, Nat)
        BY <2>1 DEF OpToRel
    <2>3. ~(o < k)
        BY <1>1, <2>2, Zenon
    <2> QED
        BY <2>1, <2>3
<1> QED
    BY <1>2

LEMMA NotYetTrue ==
    /\ NotYet \in RunRecord /\ NotYet.step = "none" /\ RunTrue(NotYet)
    /\ \A v \in Vessels : NotYet.due[v] = 0
    /\ NotYet.sent = {} /\ NotYet.failed = {} /\ NotYet.off = {}
<1>1. 0 \in Amount /\ 0 \in 0..(Len(Vessel) + 1)
    BY VesselFacts DEF Amount
<1>2. NotYet \in RunRecord
    BY <1>1 DEF NotYet, RunRecord, RunStep
<1>3. /\ NotYet.step = "none" /\ \A v \in Vessels : NotYet.due[v] = 0
      /\ NotYet.sent = {} /\ NotYet.failed = {} /\ NotYet.off = {}
    BY DEF NotYet
<1>4. RunTrue(NotYet)
    BY <1>2, <1>3 DEF RunTrue, Apart, Answered, Working
<1> QED
    BY <1>2, <1>3, <1>4

LEMMA OnwardTrue ==
    ASSUME NEW run \in RunRecord, NEW i \in 0..Len(Vessel), Apart(run),
           Answered(run) = UpTo(i) \cap run.only
    PROVE  LET on == Onward(run, i)
           IN  /\ RunTrue(on) /\ on.step \in {"summary", "compose"}
               /\ on.only = run.only /\ on.due = run.due /\ on.next = run.next
               /\ on.sent = run.sent /\ on.failed = run.failed /\ on.off = run.off
<1> DEFINE left == {k \in DOMAIN Vessel : k > i /\ Vessel[k] \in run.only}
           k == CHOOSE k \in left : \A o \in left : k <= o
           on == Onward(run, i)
<1>1. on = IF left = {} THEN [run EXCEPT !.step = "summary", !.at = Len(Vessel) + 1]
           ELSE [run EXCEPT !.step = "compose", !.at = k]
    BY Zenon DEF Onward
<1>2. left # {} => k \in left /\ \A o \in left : k <= o
    <2>1. left \in SUBSET Nat
        BY VesselFacts
    <2>2. left # {} => \E n \in left : \A o \in left : n <= o
        BY <2>1, Least
    <2> QED
        BY <2>2
<1> HIDE DEF k
<1>3. CASE left = {}
    <2> DEFINE end == Len(Vessel) + 1
    <2>1. end \in 0..(Len(Vessel) + 1)
        BY VesselFacts
    <2>2. \A v \in run.only : v \in UpTo(i)
        <3> TAKE v \in run.only
        <3>1. v \in Vessels
            BY DEF RunRecord
        <3>2. PICK n \in 1..Len(Vessel) : v = Vessel[n]
            BY <3>1, VesselFacts
        <3>3. n <= i
            BY <1>3, <3>2, VesselFacts
        <3> QED
            BY <3>2, <3>3 DEF UpTo
    <2>3. Answered(run) = run.only
        BY <2>2
    <2>4. on = [run EXCEPT !.step = "summary", !.at = end]
        BY <1>1, <1>3
    <2> HIDE DEF end
    <2>5. /\ on.only = run.only /\ on.due = run.due /\ on.next = run.next
          /\ on.sent = run.sent /\ on.failed = run.failed /\ on.off = run.off
          /\ on.step = "summary"
        BY <2>4 DEF RunRecord
    <2>6. on \in RunRecord
        BY <2>1, <2>4 DEF RunRecord, RunStep
    <2> HIDE DEF on
    <2>7. RunTrue(on)
        BY <2>3, <2>5, <2>6 DEF RunTrue, Apart, Answered, Working
    <2> QED
        BY <2>5, <2>7 DEF on
<1>4. CASE left # {}
    <2>1. k \in DOMAIN Vessel /\ k > i /\ Vessel[k] \in run.only /\ \A o \in left : k <= o
        BY <1>2, <1>4
    <2>2. k \in 0..(Len(Vessel) + 1) /\ k \in 1..Len(Vessel) /\ i \in Nat
        BY <2>1, VesselFacts
    <2>3. UpTo(k - 1) \cap run.only = UpTo(i) \cap run.only
        <3>1. ASSUME NEW n \in 1..(k - 1), Vessel[n] \in run.only
              PROVE  n \in 1..i
            <4>1. n \in DOMAIN Vessel /\ n < k
                BY <2>2, VesselFacts
            <4>2. ~(n > i)
                BY <2>1, <2>2, <3>1, <4>1
            <4> QED
                BY <2>2, <4>2
        <3>2. \A n \in 1..i : n \in 1..(k - 1)
            BY <2>1, <2>2
        <3> QED
            BY <3>1, <3>2 DEF UpTo
    <2>4. on = [run EXCEPT !.step = "compose", !.at = k]
        BY <1>1, <1>4
    <2>5. /\ on.only = run.only /\ on.due = run.due /\ on.next = run.next
          /\ on.sent = run.sent /\ on.failed = run.failed /\ on.off = run.off
          /\ on.step = "compose" /\ on.at = k
        BY <2>4 DEF RunRecord
    <2>6. on \in RunRecord
        BY <2>2, <2>4 DEF RunRecord, RunStep
    <2> HIDE DEF on
    <2>7. RunTrue(on)
        BY <2>1, <2>3, <2>5, <2>6 DEF RunTrue, Apart, Answered, Working
    <2> QED
        BY <2>5, <2>7 DEF on
<1> QED
    BY <1>3, <1>4

\* A run that goes on has nothing due for what it has not answered for.
LEMMA OnwardPosted ==
    ASSUME NEW run \in RunRecord, NEW i \in 0..Len(Vessel), Apart(run),
           Answered(run) = UpTo(i) \cap run.only, NEW ships, NEW v,
           Sailed(run, ships, v), v \notin Answered(run) => run.due[v] = 0
    PROVE  Posted(Onward(run, i), ships, v)
<1> DEFINE on == Onward(run, i)
<1>1. /\ on.step \in {"summary", "compose"} /\ on.due = run.due
      /\ on.sent = run.sent /\ on.failed = run.failed /\ on.off = run.off
    BY OnwardTrue
<1> HIDE DEF on
<1>2. Posted(on, ships, v)
    BY <1>1 DEF Posted, Sailed, Answered, At
<1> QED
    BY <1>2 DEF on

\* A run that is set to what is true of it.
LEMMA SettingKeeps ==
    ASSUME DeliveryInv, NEW r \in Run, NEW run, NEW ships \in PostsOfRun, RunTrue(run),
           stops = 0 \/ r # Task => \A v \in Vessels : Posted(run, ships, v),
           run.step \in Working => r = Task \/ r \in lock \/ lock = {},
           SetRun(r, run), posted' = [posted EXCEPT ![r] = ships], stops' = stops
    PROVE  DeliveryInv'
<1>1. DeliveryTyped /\ RunsTrue /\ LockTrue
    BY DEF DeliveryInv
<1>2. runs' = [runs EXCEPT ![r] = run] /\ run \in RunRecord
    BY DEF SetRun, RunTrue
<1>3. lock' = IF r \in Calls /\ run.step \in Working THEN lock \cup {r} ELSE lock \ {r}
    BY DEF SetRun, Working
<1>4. /\ runs' \in [Run -> RunRecord] /\ runs'[r] = run
      /\ \A s \in Run : s # r => runs'[s] = runs[s]
    BY <1>1, <1>2 DEF DeliveryTyped
<1>5. /\ posted' \in [Run -> PostsOfRun] /\ posted'[r] = ships
      /\ \A s \in Run : s # r => posted'[s] = posted[s]
    BY <1>1 DEF DeliveryTyped
<1>6. DeliveryTyped'
    BY <1>1, <1>3, <1>4, <1>5 DEF DeliveryTyped
<1>7. RunsTrue'
    BY <1>1, <1>4, <1>5 DEF RunsTrue
<1>8. LockTrue'
    <2>1. \A s \in Calls : s \in Run /\ s # Task
        BY VesselFacts DEF Run
    <2>2. AtWork' = {s \in Calls : runs'[s].step \in Working}
        BY DEF AtWork
    <2>3. lock' = AtWork'
        BY <1>1, <1>3, <1>4, <2>1, <2>2 DEF LockTrue, AtWork
    <2>4. \A s, t \in lock' : s = t
        BY <1>1, <1>3, <2>1 DEF LockTrue
    <2> QED
        BY <2>3, <2>4 DEF LockTrue
<1> QED
    BY <1>6, <1>7, <1>8 DEF DeliveryInv

LEMMA DeliveryInitially == DeliveryInit => DeliveryInv
<1> SUFFICES ASSUME DeliveryInit
             PROVE  DeliveryInv
    OBVIOUS
<1>1. /\ runs = [r \in Run |-> NotYet] /\ posted = [r \in Run |-> [v \in Vessels |-> <<>>]]
      /\ lock = {} /\ stops = 0
    BY DEF DeliveryInit
<1>2. /\ NotYet \in RunRecord /\ NotYet.step = "none" /\ RunTrue(NotYet)
      /\ \A v \in Vessels : NotYet.due[v] = 0
      /\ NotYet.sent = {} /\ NotYet.failed = {} /\ NotYet.off = {}
    BY NotYetTrue
<1>3. DeliveryTyped
    BY <1>1, <1>2, VesselFacts DEF DeliveryTyped, PostsOfRun
<1>4. ASSUME NEW r \in Run, NEW v \in Vessels
      PROVE  Posted(runs[r], posted[r], v)
    <2>1. runs[r] = NotYet /\ posted[r][v] = <<>>
        BY <1>1
    <2>2. Len(<<>>) = 0 /\ DOMAIN <<>> = {}
        OBVIOUS
    <2> QED
        BY <1>2, <2>1, <2>2 DEF Posted, Sailed, At, Answered
<1>5. LockTrue
    BY <1>1, <1>2, VesselFacts DEF LockTrue, AtWork, Working, Run
<1>6. RunsTrue
    BY <1>1, <1>2, <1>4 DEF RunsTrue
<1> QED
    BY <1>3, <1>5, <1>6 DEF DeliveryInv

LEMMA BeginKeeps ==
    ASSUME DeliveryInv, NEW r \in Run, runs[r].step = "none", NEW only \in SUBSET Vessels,
           r = Task \/ lock = {}, BeginRun(r, [NotYet EXCEPT !.only = only]),
           posted' = posted, stops' = stops
    PROVE  DeliveryInv'
<1> DEFINE run == [NotYet EXCEPT !.only = only]
<1>1. DeliveryTyped /\ RunsTrue
    BY DEF DeliveryInv
<1>2. /\ run \in RunRecord /\ run.only = only /\ run.step = "none"
      /\ run.sent = {} /\ run.failed = {} /\ run.off = {} /\ \A v \in Vessels : run.due[v] = 0
    BY NotYetTrue DEF RunRecord, NotYet
<1> HIDE DEF run
<1>3. posted[r] \in PostsOfRun /\ posted' = [posted EXCEPT ![r] = posted[r]]
    BY <1>1 DEF DeliveryTyped
<1>4. ASSUME stops = 0 \/ r # Task, NEW v \in Vessels
      PROVE  Sailed(run, posted[r], v)
    <2>1. Posted(runs[r], posted[r], v) /\ RunTrue(runs[r]) /\ runs[r] \in RunRecord
        BY <1>1, <1>4 DEF RunsTrue, RunTrue
    <2>2. v \notin Answered(runs[r])
        BY <2>1 DEF RunTrue
    <2>3. runs[r].due[v] = 0
        BY <2>1, <2>2 DEF Posted, At
    <2> QED
        BY <1>2, <2>1, <2>2, <2>3 DEF Posted, Sailed, Answered
<1>5. CASE SetRun(r, Onward(run, 0))
    <2> DEFINE on == Onward(run, 0)
    <2>1. Apart(run) /\ Answered(run) = UpTo(0) \cap run.only /\ 0 \in 0..Len(Vessel)
        BY <1>2, VesselFacts DEF Apart, Answered, UpTo
    <2>2. RunTrue(on)
        BY <1>2, <2>1, OnwardTrue
    <2>3. stops = 0 \/ r # Task => \A v \in Vessels : Posted(on, posted[r], v)
        BY <1>2, <1>4, <2>1, OnwardPosted
    <2> HIDE DEF on
    <2> QED
        BY <1>3, <1>5, <2>2, <2>3, SettingKeeps DEF on
<1>6. CASE SetRun(r, [run EXCEPT !.step = "summary", !.failed = run.only])
    <2> DEFINE end == [run EXCEPT !.step = "summary", !.failed = run.only]
    <2>1. /\ end \in RunRecord /\ end.step = "summary" /\ end.sent = {} /\ end.off = {}
          /\ end.failed = only /\ end.only = only /\ end.due = run.due
        BY <1>2 DEF RunRecord, RunStep
    <2> HIDE DEF end
    <2>2. RunTrue(end)
        BY <2>1 DEF RunTrue, Apart, Answered, Working
    <2>3. stops = 0 \/ r # Task => \A v \in Vessels : Posted(end, posted[r], v)
        BY <1>2, <1>4, <2>1 DEF Posted, Sailed, At, Answered
    <2>4. end.step \notin Working
        BY <2>1 DEF Working
    <2> QED
        BY <1>3, <1>6, <2>2, <2>3, <2>4, SettingKeeps DEF end
<1> QED
    BY <1>5, <1>6 DEF BeginRun, run

LEMMA StartsKeep ==
    ASSUME DeliveryInv, \/ StartTask
                        \/ \E r \in Calls, only \in SUBSET Vessels : StartManual(r, only)
    PROVE  DeliveryInv'
<1>1. DeliveryTyped /\ RunsTrue /\ LockTrue
    BY DEF DeliveryInv
<1>2. CASE StartTask
    <2>1. NotYet = [NotYet EXCEPT !.only = Vessels] /\ Task \in Run /\ Vessels \in SUBSET Vessels
        BY DEF NotYet, Run
    <2> QED
        BY <1>2, <2>1, BeginKeeps DEF StartTask
<1>3. ASSUME NEW r \in Calls, NEW only \in SUBSET Vessels, StartManual(r, only)
      PROVE  DeliveryInv'
    <2>1. r \in Run /\ runs[r].step = "none" /\ posted' = posted /\ stops' = stops
        BY <1>3 DEF StartManual, Run
    <2>2. CASE lock = {}
        BY <1>3, <2>1, <2>2, BeginKeeps DEF StartManual
    <2>3. CASE lock # {}
        <3> DEFINE run == [NotYet EXCEPT !.step = "refused"]
        <3>1. SetRun(r, run)
            BY <1>3, <2>3 DEF StartManual
        <3>2. /\ run \in RunRecord /\ run.step = "refused" /\ run.sent = {} /\ run.failed = {}
              /\ run.off = {} /\ \A v \in Vessels : run.due[v] = 0
            BY NotYetTrue DEF RunRecord, RunStep
        <3> HIDE DEF run
        <3>3. RunTrue(run)
            BY <3>2 DEF RunTrue, Apart, Answered, Working
        <3>4. ASSUME NEW v \in Vessels, r # Task
              PROVE  Posted(run, posted[r], v)
            <4>1. Posted(runs[r], posted[r], v) /\ RunTrue(runs[r])
                BY <1>1, <2>1, <3>4 DEF RunsTrue
            <4>2. v \notin Answered(runs[r])
                BY <2>1, <4>1 DEF RunTrue
            <4>3. runs[r].due[v] = 0
                BY <2>1, <4>1, <4>2 DEF Posted, At
            <4> QED
                BY <3>2, <4>1, <4>2, <4>3 DEF Posted, Sailed, Answered, At
        <3>5. r # Task /\ run.step \notin Working
            BY <3>2, VesselFacts DEF Working
        <3>6. posted[r] \in PostsOfRun /\ posted' = [posted EXCEPT ![r] = posted[r]]
            BY <1>1, <2>1 DEF DeliveryTyped
        <3> QED
            BY <2>1, <3>1, <3>3, <3>4, <3>5, <3>6, SettingKeeps
    <2> QED
        BY <2>2, <2>3
<1> QED
    BY <1>2, <1>3

LEMMA Here ==
    ASSUME NEW i \in DOMAIN Vessel
    PROVE  /\ i \in 1..Len(Vessel) /\ i \in 0..Len(Vessel) /\ Vessel[i] \in Vessels
           /\ Vessel[i] \notin UpTo(i - 1) /\ UpTo(i) = UpTo(i - 1) \cup {Vessel[i]}
<1>1. i \in 1..Len(Vessel) /\ i \in 0..Len(Vessel) /\ Vessel[i] \in Vessels
    BY VesselFacts
<1>2. \A k \in 1..(i - 1) : k \in DOMAIN Vessel /\ k # i
    BY <1>1, VesselFacts
<1>3. Vessel[i] \notin UpTo(i - 1)
    BY <1>2, VesselFacts DEF UpTo
<1>4. 1..i = (1..(i - 1)) \cup {i}
    BY <1>1, VesselFacts
<1>5. UpTo(i) = UpTo(i - 1) \cup {Vessel[i]}
    BY <1>4 DEF UpTo
<1> QED
    BY <1>1, <1>3, <1>5

\* What is true of a run at work, and of what it posted.
LEMMA WorkTrue ==
    ASSUME DeliveryInv, NEW r \in Run, runs[r].step \in Working
    PROVE  LET run == runs[r]
               ship == Vessel[run.at]
           IN  /\ run \in RunRecord /\ Apart(run) /\ run.at \in DOMAIN Vessel /\ ship \in run.only
               /\ ship \in Vessels /\ ship \notin Answered(run)
               /\ Answered(run) \cup {ship} = UpTo(run.at) \cap run.only
               /\ r = Task \/ r \in lock
               /\ posted[r] \in PostsOfRun
<1> DEFINE run == runs[r]
<1>1. DeliveryTyped /\ RunsTrue /\ LockTrue
    BY DEF DeliveryInv
<1>2. /\ run \in RunRecord /\ Apart(run) /\ run.at \in DOMAIN Vessel
      /\ Vessel[run.at] \in run.only /\ Answered(run) = UpTo(run.at - 1) \cap run.only
    BY <1>1 DEF RunsTrue, RunTrue
<1>3. r = Task \/ r \in lock
    BY <1>1 DEF LockTrue, AtWork, Run
<1> QED
    BY <1>1, <1>2, <1>3, Here DEF DeliveryTyped

\* A run that has an answer for the ship it is at goes on to the next.
LEMMA AnsweredGoesOn ==
    ASSUME DeliveryInv, NEW r \in Run, runs[r].step \in Working,
           NEW run \in RunRecord, NEW ships \in PostsOfRun,
           run.at = runs[r].at, run.only = runs[r].only, run.due = runs[r].due, Apart(run),
           Answered(run) = Answered(runs[r]) \cup {Vessel[run.at]},
           stops = 0 \/ r # Task => \A v \in Vessels : Sailed(run, ships, v),
           SetRun(r, Onward(run, run.at)), posted' = [posted EXCEPT ![r] = ships], stops' = stops
    PROVE  DeliveryInv'
<1> DEFINE on == Onward(run, run.at)
<1>1. /\ run.at \in DOMAIN Vessel /\ run.at \in 0..Len(Vessel)
      /\ Answered(run) = UpTo(run.at) \cap run.only /\ (r = Task \/ r \in lock)
    BY WorkTrue, Here
<1>2. RunTrue(on)
    BY <1>1, OnwardTrue
<1>3. ASSUME stops = 0 \/ r # Task, NEW v \in Vessels
      PROVE  Posted(on, ships, v)
    <2>1. Posted(runs[r], posted[r], v)
        BY <1>3 DEF DeliveryInv, RunsTrue
    <2>2. runs[r].step # "cut" /\ Vessel[runs[r].at] \in Answered(run)
        BY DEF Working
    <2>3. v \notin Answered(run) => run.due[v] = 0
        BY <2>1, <2>2 DEF Posted, At
    <2> QED
        BY <1>1, <1>3, <2>3, OnwardPosted
<1>4. stops = 0 \/ r # Task => \A v \in Vessels : Posted(on, ships, v)
    BY <1>3
<1> HIDE DEF on
<1> QED
    BY <1>1, <1>2, <1>4, SettingKeeps DEF on

LEMMA ComposeKeeps ==
    ASSUME DeliveryInv, NEW r \in Run, Compose(r)
    PROVE  DeliveryInv'
<1> DEFINE run == runs[r]
           ship == Vessel[run.at]
<1>1. run.step = "compose" /\ run.step \in Working /\ posted' = posted /\ stops' = stops
    BY DEF Compose, Working
<1>2. /\ run \in RunRecord /\ Apart(run) /\ run.at \in DOMAIN Vessel /\ ship \in run.only
      /\ ship \in Vessels /\ ship \notin Answered(run) /\ (r = Task \/ r \in lock)
      /\ posted[r] \in PostsOfRun
    BY <1>1, WorkTrue
<1>3. posted' = [posted EXCEPT ![r] = posted[r]]
    BY <1>1 DEF DeliveryInv, DeliveryTyped
<1>4. ASSUME stops = 0 \/ r # Task, NEW v \in Vessels
      PROVE  Sailed(run, posted[r], v) /\ (v \notin Answered(run) => run.due[v] = 0)
    BY <1>1, <1>4 DEF DeliveryInv, RunsTrue, Posted, At
<1>8. stops' = stops /\ run.step \in Working
    BY <1>1
<1>5. ASSUME NEW n \in 1..MaxMessages,
             SetRun(r, [run EXCEPT !.step = "send", !.due[ship] = n, !.next = 1])
      PROVE  DeliveryInv'
    <2> DEFINE new == [run EXCEPT !.step = "send", !.due[ship] = n, !.next = 1]
               due == [run.due EXCEPT ![ship] = n]
    <2>1. n \in Amount /\ 1 \in Amount /\ n \in Nat /\ n > 0 /\ 1 \in 1..n
        BY VesselFacts DEF Amount
    <2>2. /\ due \in [Vessels -> Amount] /\ due[ship] = n
          /\ \A v \in Vessels : v # ship => due[v] = run.due[v]
        BY <1>2, <2>1 DEF RunRecord
    <2>3. new = [run EXCEPT !.step = "send", !.due = due, !.next = 1]
        BY <1>2 DEF RunRecord
    <2> HIDE DEF due, new
    <2>4. /\ new \in RunRecord /\ new.step = "send" /\ new.due = due /\ new.next = 1
          /\ new.at = run.at /\ new.only = run.only /\ new.sent = run.sent
          /\ new.failed = run.failed /\ new.off = run.off
        BY <1>2, <2>1, <2>2, <2>3 DEF RunRecord, RunStep
    <2>5. RunTrue(new)
        <3>1. RunTrue(run)
            BY DEF DeliveryInv, RunsTrue
        <3> QED
            BY <1>1, <1>2, <2>1, <2>2, <2>4, <3>1 DEF RunTrue, Apart, Answered, Working
    <2>6. ASSUME stops = 0 \/ r # Task, NEW v \in Vessels
          PROVE  Posted(new, posted[r], v)
        <3>1. Sailed(run, posted[r], v) /\ (v \notin Answered(run) => run.due[v] = 0)
            BY <1>4, <2>6
        <3>2. Len(posted[r][v]) \in Nat
            BY <1>2 DEF PostsOfRun
        <3>3. Answered(new) = Answered(run)
            BY <2>4 DEF Answered
        <3>4. CASE v = ship
            <4>1. Len(posted[r][v]) = 0 /\ v \notin run.sent /\ v \notin run.off
                BY <1>2, <3>1, <3>2, <3>4 DEF Sailed, Answered
            <4> QED
                BY <2>1, <2>2, <2>4, <3>1, <3>4, <4>1 DEF Posted, Sailed, At
        <3>5. CASE v # ship
            BY <2>2, <2>4, <3>1, <3>3, <3>5 DEF Posted, Sailed, At
        <3> QED
            BY <3>4, <3>5
    <2> QED
        BY <1>1, <1>2, <1>3, <1>5, <2>5, <2>6, SettingKeeps DEF new
<1>6. CASE SetRun(r, Onward([run EXCEPT !.off = @ \cup {ship}], run.at))
    <2> DEFINE new == [run EXCEPT !.off = @ \cup {ship}]
    <2>1. /\ new \in RunRecord /\ new.off = run.off \cup {ship} /\ new.due = run.due
          /\ new.at = run.at /\ new.only = run.only /\ new.sent = run.sent /\ new.failed = run.failed
        BY <1>2 DEF RunRecord
    <2> HIDE DEF new
    <2>2. Apart(new) /\ Answered(new) = Answered(run) \cup {ship}
        BY <1>2, <2>1 DEF Apart, Answered
    <2>3. stops = 0 \/ r # Task => \A v \in Vessels : Sailed(new, posted[r], v)
        BY <1>2, <1>4, <2>1 DEF Sailed
    <2>4. SetRun(r, Onward(new, new.at))
        BY <1>6, <2>1 DEF new
    <2> QED
        BY <1>2, <1>3, <1>8, <2>1, <2>2, <2>3, <2>4, AnsweredGoesOn
<1>7. CASE SetRun(r, Onward([run EXCEPT !.failed = @ \cup {ship}], run.at))
    <2> DEFINE new == [run EXCEPT !.failed = @ \cup {ship}]
    <2>1. /\ new \in RunRecord /\ new.failed = run.failed \cup {ship} /\ new.due = run.due
          /\ new.at = run.at /\ new.only = run.only /\ new.sent = run.sent /\ new.off = run.off
        BY <1>2 DEF RunRecord
    <2> HIDE DEF new
    <2>2. Apart(new) /\ Answered(new) = Answered(run) \cup {ship}
        BY <1>2, <2>1 DEF Apart, Answered
    <2>3. stops = 0 \/ r # Task => \A v \in Vessels : Sailed(new, posted[r], v)
        BY <1>4, <2>1 DEF Sailed
    <2>4. SetRun(r, Onward(new, new.at))
        BY <1>7, <2>1 DEF new
    <2> QED
        BY <1>2, <1>3, <1>8, <2>1, <2>2, <2>3, <2>4, AnsweredGoesOn
<1> QED
    BY <1>5, <1>6, <1>7 DEF Compose

LEMMA SendKeeps ==
    ASSUME DeliveryInv, NEW r \in Run, Send(r)
    PROVE  DeliveryInv'
<1> DEFINE run == runs[r]
           ship == Vessel[run.at]
           more == Append(posted[r][ship], run.next)
           ships == [posted[r] EXCEPT ![ship] = more]
<1>1. run.step = "send" /\ run.step \in Working /\ stops' = stops
    BY DEF Send, Working
<1>2. /\ run \in RunRecord /\ Apart(run) /\ run.at \in DOMAIN Vessel /\ ship \in run.only
      /\ ship \in Vessels /\ ship \notin Answered(run) /\ (r = Task \/ r \in lock)
      /\ posted[r] \in PostsOfRun
    BY <1>1, WorkTrue
<1>3. /\ run.next \in 1..run.due[ship] /\ run.due[ship] \in Amount /\ RunTrue(run)
      /\ run.next \in Nat /\ run.next \in 1..MaxMessages /\ run.due[ship] \in Nat /\ MaxMessages \in Nat
    BY <1>1, <1>2, VesselFacts DEF DeliveryInv, RunsTrue, RunTrue, RunRecord, Amount
<1>4. posted[r][ship] \in Seq(1..MaxMessages)
    BY <1>2 DEF PostsOfRun
<1>5. /\ more \in Seq(1..MaxMessages) /\ Len(more) = Len(posted[r][ship]) + 1
      /\ \A i \in DOMAIN more : IF i \in DOMAIN posted[r][ship] THEN more[i] = posted[r][ship][i]
                                ELSE more[i] = run.next /\ i = Len(more)
      /\ Len(posted[r][ship]) \in Nat
    <2>1. /\ more \in Seq(1..MaxMessages) /\ Len(more) = Len(posted[r][ship]) + 1
          /\ Len(posted[r][ship]) \in Nat
        BY <1>3, <1>4
    <2>2. /\ DOMAIN posted[r][ship] = 1..Len(posted[r][ship]) /\ DOMAIN more = 1..Len(more)
          /\ \A i \in 1..Len(posted[r][ship]) : more[i] = posted[r][ship][i]
          /\ more[Len(posted[r][ship]) + 1] = run.next
        <3>1. PICK had, next : had = posted[r][ship] /\ next = run.next
            OBVIOUS
        <3>2. had \in Seq(1..MaxMessages) /\ next \in 1..MaxMessages /\ more = Append(had, next)
            BY <1>3, <1>4, <3>1
        <3> HIDE DEF more
        <3>3. /\ \A i \in 1..Len(had) : more[i] = had[i]
              /\ more[Len(had) + 1] = next
            BY <3>2, AppendProperties
        <3>4. DOMAIN had = 1..Len(had) /\ DOMAIN more = 1..Len(more)
            BY <1>3, <3>2, <2>1, LenProperties
        <3> QED
            BY <3>1, <3>3, <3>4, Zenon
    <2> HIDE DEF more
    <2>3. ASSUME NEW i \in DOMAIN more
          PROVE  IF i \in DOMAIN posted[r][ship] THEN more[i] = posted[r][ship][i]
                 ELSE more[i] = run.next /\ i = Len(more)
        <3> DEFINE n == Len(posted[r][ship])
        <3>1. n \in Nat /\ DOMAIN posted[r][ship] = 1..n /\ Len(more) = n + 1 /\ i \in 1..(n + 1)
            BY <2>1, <2>2
        <3>2. (\A j \in 1..n : more[j] = posted[r][ship][j]) /\ more[n + 1] = run.next
            BY <2>2
        <3> HIDE DEF n
        <3> QED
            BY <3>1, <3>2
    <2> QED
        BY <2>1, <2>3
<1> HIDE DEF more
<1>6. ships \in PostsOfRun /\ ships[ship] = more /\ \A v \in Vessels : v # ship => ships[v] = posted[r][v]
    BY <1>2, <1>5 DEF PostsOfRun
<1> HIDE DEF ships
<1>7. ASSUME stops = 0 \/ r # Task, NEW v \in Vessels
      PROVE  /\ Sailed(run, posted[r], v) /\ (v = ship => Len(posted[r][v]) = run.next - 1)
             /\ v \notin Answered(run) /\ v # ship => run.due[v] = 0
    <2>1. Posted(run, posted[r], v)
        BY <1>7 DEF DeliveryInv, RunsTrue
    <2> QED
        BY <1>1, <2>1 DEF Posted, At
<1>8. ASSUME stops = 0 \/ r # Task
      PROVE  Len(more) = run.next /\ \A i \in DOMAIN more : more[i] = i
    <2>1. Sailed(run, posted[r], ship) /\ Len(posted[r][ship]) = run.next - 1
        BY <1>2, <1>7, <1>8
    <2>2. Len(more) = run.next
        BY <1>3, <1>5, <2>1
    <2>3. \A i \in DOMAIN more : more[i] = i
        BY <1>5, <2>1, <2>2 DEF Sailed
    <2> QED
        BY <2>2, <2>3
<1>9. CASE /\ posted' = [posted EXCEPT ![r][ship] = Append(@, run.next)]
           /\ SetRun(r, IF run.next < run.due[ship] THEN [run EXCEPT !.next = @ + 1]
                     ELSE Onward([run EXCEPT !.sent = @ \cup {ship}], run.at))
    <2>1. posted' = [posted EXCEPT ![r] = ships]
        BY <1>9 DEF ships, more, DeliveryInv, DeliveryTyped
    <2>2. CASE run.next < run.due[ship]
        <3> DEFINE new == [run EXCEPT !.next = @ + 1]
                   onward == run.next + 1
        <3>1. onward \in Amount /\ onward \in 1..run.due[ship] /\ onward - 1 = run.next
            BY <1>3, <2>2, VesselFacts DEF Amount
        <3>2. new = [run EXCEPT !.next = onward]
            BY <1>2 DEF RunRecord
        <3> HIDE DEF onward, new
        <3>3. /\ new \in RunRecord /\ new.step = "send" /\ new.due = run.due /\ new.next = onward
              /\ new.at = run.at /\ new.only = run.only /\ new.sent = run.sent
              /\ new.failed = run.failed /\ new.off = run.off
            BY <1>1, <1>2, <3>1, <3>2 DEF RunRecord
        <3>4. RunTrue(new)
            BY <1>1, <1>3, <3>1, <3>3 DEF RunTrue, Apart, Answered, Working
        <3>5. ASSUME stops = 0 \/ r # Task, NEW v \in Vessels
              PROVE  Posted(new, ships, v)
            <4>1. Answered(new) = Answered(run)
                BY <3>3 DEF Answered
            <4>2. CASE v = ship
                <5>1. v \notin run.sent /\ v \notin run.off
                    BY <1>2, <4>2 DEF Answered
                <5> QED
                    BY <1>3, <1>6, <1>8, <2>2, <3>1, <3>3, <3>5, <4>2, <5>1 DEF Posted, Sailed, At
            <4>3. CASE v # ship
                BY <1>1, <1>6, <1>7, <3>3, <3>5, <4>1, <4>3 DEF Posted, Sailed, At
            <4> QED
                BY <4>2, <4>3
        <3>6. SetRun(r, new)
            BY <1>9, <2>2 DEF new
        <3> QED
            BY <1>1, <1>2, <1>6, <2>1, <3>4, <3>5, <3>6, SettingKeeps
    <2>3. CASE ~(run.next < run.due[ship])
        <3> DEFINE new == [run EXCEPT !.sent = @ \cup {ship}]
        <3>1. /\ new \in RunRecord /\ new.sent = run.sent \cup {ship} /\ new.due = run.due
              /\ new.at = run.at /\ new.only = run.only /\ new.failed = run.failed /\ new.off = run.off
            BY <1>2 DEF RunRecord
        <3>2. SetRun(r, Onward(new, run.at))
            BY <1>9, <2>3
        <3> HIDE DEF new
        <3>3. Apart(new) /\ Answered(new) = Answered(run) \cup {ship}
            BY <1>2, <3>1 DEF Apart, Answered
        <3>4. ASSUME stops = 0 \/ r # Task, NEW v \in Vessels
              PROVE  Sailed(new, ships, v)
            <4>1. CASE v = ship
                <5>1. v \notin run.off /\ Len(more) = run.due[ship] /\ run.due[ship] > 0
                    BY <1>2, <1>3, <1>8, <2>3, <3>4, <4>1 DEF Answered
                <5> QED
                    BY <1>3, <1>6, <1>8, <3>1, <3>4, <4>1, <5>1 DEF Sailed
            <4>2. CASE v # ship
                BY <1>6, <1>7, <3>1, <3>4, <4>2 DEF Sailed
            <4> QED
                BY <4>1, <4>2
        <3> QED
            BY <1>1, <1>2, <1>6, <2>1, <3>1, <3>2, <3>3, <3>4, AnsweredGoesOn
    <2> QED
        BY <2>2, <2>3
<1>10. CASE SetRun(r, Onward([run EXCEPT !.failed = @ \cup {ship}], run.at)) /\ posted' = posted
    <2> DEFINE new == [run EXCEPT !.failed = @ \cup {ship}]
    <2>1. /\ new \in RunRecord /\ new.failed = run.failed \cup {ship} /\ new.due = run.due
          /\ new.at = run.at /\ new.only = run.only /\ new.sent = run.sent /\ new.off = run.off
        BY <1>2 DEF RunRecord
    <2>2. SetRun(r, Onward(new, new.at))
        BY <1>10, <2>1
    <2> HIDE DEF new
    <2>3. Apart(new) /\ Answered(new) = Answered(run) \cup {ship}
        BY <1>2, <2>1 DEF Apart, Answered
    <2>4. stops = 0 \/ r # Task => \A v \in Vessels : Sailed(new, posted[r], v)
        BY <1>7, <2>1 DEF Sailed
    <2>5. posted' = [posted EXCEPT ![r] = posted[r]]
        BY <1>10 DEF DeliveryInv, DeliveryTyped
    <2> QED
        BY <1>1, <1>2, <2>1, <2>2, <2>3, <2>4, <2>5, AnsweredGoesOn
<1> QED
    BY <1>9, <1>10 DEF Send

LEMMA FinishKeeps ==
    ASSUME DeliveryInv, NEW r \in Run, Finish(r)
    PROVE  DeliveryInv'
<1> DEFINE new == [runs[r] EXCEPT !.step = "over"]
<1>1. /\ runs[r].step = "summary" /\ SetRun(r, new) /\ posted' = posted /\ stops' = stops
    BY DEF Finish
<1>2. RunTrue(runs[r]) /\ runs[r] \in RunRecord /\ posted[r] \in PostsOfRun
    BY DEF DeliveryInv, DeliveryTyped, RunsTrue
<1>3. /\ new \in RunRecord /\ new.step = "over" /\ new.due = runs[r].due
      /\ new.only = runs[r].only /\ new.sent = runs[r].sent
      /\ new.failed = runs[r].failed /\ new.off = runs[r].off
    BY <1>2 DEF RunRecord, RunStep
<1> HIDE DEF new
<1>4. RunTrue(new) /\ new.step \notin Working
    BY <1>1, <1>2, <1>3 DEF RunTrue, Apart, Answered, Working
<1>5. stops = 0 \/ r # Task => \A v \in Vessels : Posted(new, posted[r], v)
    BY <1>1, <1>3 DEF DeliveryInv, RunsTrue, Posted, Sailed, At, Answered
<1>6. posted' = [posted EXCEPT ![r] = posted[r]]
    BY <1>1 DEF DeliveryInv, DeliveryTyped
<1> QED
    BY <1>1, <1>2, <1>4, <1>5, <1>6, SettingKeeps

LEMMA StopKeeps ==
    ASSUME DeliveryInv, Stop
    PROVE  DeliveryInv'
<1>1. DeliveryTyped /\ RunsTrue
    BY DEF DeliveryInv
<1>2. PICK again \in BOOLEAN :
         runs' = [r \in Run |->
            IF r = Task /\ again THEN NotYet
            ELSE IF runs[r].step \in {"none", "over", "refused"} THEN runs[r]
            ELSE [runs[r] EXCEPT !.step = "cut"]]
    BY DEF Stop
<1>3. stops < MaxStops /\ stops' = stops + 1 /\ lock' = {} /\ posted' = posted
    BY DEF Stop
<1>4. stops' \in 0..MaxStops /\ stops' # 0
    BY <1>1, <1>3, VesselFacts DEF DeliveryTyped
<1>5. ASSUME NEW r \in Run
      PROVE  /\ runs'[r] \in RunRecord /\ RunTrue(runs'[r])
             /\ r # Task => /\ \A v \in Vessels : Posted(runs'[r], posted[r], v)
                            /\ runs'[r].step \notin Working
    <2>1. runs[r] \in RunRecord /\ RunTrue(runs[r])
        BY <1>1 DEF RunsTrue, RunTrue
    <2>2. CASE r = Task /\ again
        BY <1>2, <2>2, NotYetTrue
    <2>3. CASE ~(r = Task /\ again) /\ runs[r].step \in {"none", "over", "refused"}
        BY <1>1, <1>2, <2>1, <2>3 DEF RunsTrue, Working
    <2>4. CASE ~(r = Task /\ again) /\ runs[r].step \notin {"none", "over", "refused"}
        <3> DEFINE new == [runs[r] EXCEPT !.step = "cut"]
        <3>1. runs'[r] = new
            BY <1>2, <2>4
        <3>2. /\ new \in RunRecord /\ new.step = "cut" /\ new.due = runs[r].due
              /\ new.only = runs[r].only /\ new.sent = runs[r].sent
              /\ new.failed = runs[r].failed /\ new.off = runs[r].off
            BY <2>1 DEF RunRecord, RunStep
        <3> HIDE DEF new
        <3>3. RunTrue(new) /\ new.step \notin Working
            BY <2>1, <3>2 DEF RunTrue, Apart, Working
        <3>4. r # Task => \A v \in Vessels : Posted(new, posted[r], v)
            BY <1>1, <3>2 DEF RunsTrue, Posted, Sailed, At
        <3> QED
            BY <3>1, <3>2, <3>3, <3>4
    <2> QED
        BY <2>2, <2>3, <2>4
<1>6. runs' \in [Run -> RunRecord]
    <2>1. \A r \in Run : runs'[r] \in RunRecord
        BY <1>5
    <2> QED
        BY <1>2, <2>1
<1>7. DeliveryTyped'
    BY <1>1, <1>3, <1>4, <1>6 DEF DeliveryTyped
<1>8. RunsTrue'
    BY <1>3, <1>4, <1>5 DEF RunsTrue
<1>9. LockTrue'
    <2>1. \A s \in Calls : s \in Run /\ s # Task
        BY VesselFacts DEF Run
    <2>2. AtWork' = {s \in Calls : runs'[s].step \in Working}
        BY DEF AtWork
    <2> QED
        BY <1>3, <1>5, <2>1, <2>2 DEF LockTrue
<1> QED
    BY <1>7, <1>8, <1>9 DEF DeliveryInv

LEMMA DeliveryKept ==
    ASSUME DeliveryInv, [DeliveryNext]_deliveryVars
    PROVE  DeliveryInv'
<1>1. CASE DeliveryNext
    <2>1. \A only \in {Vessels} \cup {{v} : v \in Vessels} : only \in SUBSET Vessels
        OBVIOUS
    <2>2. CASE StartTask \/ \E r \in Calls, only \in {Vessels} \cup {{v} : v \in Vessels} : StartManual(r, only)
        BY <2>1, <2>2, StartsKeep
    <2>3. CASE Stop
        BY <2>3, StopKeeps
    <2>4. CASE \E r \in Run : DeliveryStep(r)
        BY <2>4, ComposeKeeps, SendKeeps, FinishKeeps DEF DeliveryStep
    <2> QED
        BY <1>1, <2>2, <2>3, <2>4 DEF DeliveryNext
<1>2. CASE UNCHANGED deliveryVars
    <2>1. runs' = runs /\ posted' = posted /\ lock' = lock /\ stops' = stops
        BY <1>2 DEF deliveryVars
    <2>2. DeliveryTyped' /\ RunsTrue'
        BY <2>1 DEF DeliveryInv, DeliveryTyped, RunsTrue
    <2>3. LockTrue'
        BY <2>1 DEF DeliveryInv, LockTrue, AtWork
    <2> QED
        BY <2>2, <2>3 DEF DeliveryInv
<1> QED
    BY <1>1, <1>2

LEMMA DeliveriesCount == DeliveryInv => DeliveryTypeOK /\ BriefingsCounted
<1> SUFFICES ASSUME DeliveryInv
             PROVE  DeliveryTypeOK /\ BriefingsCounted
    OBVIOUS
<1>1. DeliveryTyped /\ RunsTrue /\ LockTrue
    BY DEF DeliveryInv
<1>2. DeliveryTypeOK
    <2>1. ASSUME NEW r \in Run
          PROVE  /\ runs[r].step \in {"none", "refused", "compose", "send", "summary", "over", "cut"}
                 /\ runs[r].only \in SUBSET Vessels /\ runs[r].at \in 0..(Len(Vessel) + 1)
                 /\ Range(runs[r].due) \cup {runs[r].next} \subseteq 0..MaxMessages
        <3>1. runs[r] \in RunRecord
            BY <1>1 DEF DeliveryTyped
        <3> QED
            BY <3>1 DEF RunRecord, RunStep, Amount, Range
    <2>2. ASSUME NEW r \in Run, NEW v \in Vessels
          PROVE  Range(posted[r][v]) \subseteq 1..MaxMessages
        <3>1. posted[r][v] \in Seq(1..MaxMessages)
            BY <1>1 DEF DeliveryTyped, PostsOfRun
        <3> QED
            BY <3>1, ElementOfSeq, LenProperties DEF Range
    <2> QED
        BY <1>1, <2>1, <2>2 DEF DeliveryTypeOK, DeliveryTyped
<1>3. ASSUME NEW r \in Run
      PROVE  LET run == runs[r]
             IN  /\ run.step = "over" => run.sent \cup run.failed \cup run.off = run.only
                 /\ run.sent \cap (run.failed \cup run.off) = {} /\ run.failed \cap run.off = {}
    BY <1>1 DEF RunsTrue, RunTrue, Apart, Answered
<1>4. ASSUME NEW r \in Run, stops = 0 \/ r # Task, NEW ship \in Vessels
      PROVE  LET done == posted[r][ship]
             IN  /\ \A i \in DOMAIN done : done[i] = i
                 /\ ship \in runs[r].sent <=> runs[r].due[ship] > 0 /\ Len(done) = runs[r].due[ship]
                 /\ ship \in runs[r].off => done = <<>>
    <2> DEFINE done == posted[r][ship]
    <2>1. Sailed(runs[r], posted[r], ship)
        BY <1>1, <1>4 DEF RunsTrue, Posted
    <2>2. done \in Seq(1..MaxMessages) /\ runs[r].due[ship] \in Nat
        BY <1>1, VesselFacts DEF DeliveryTyped, PostsOfRun, RunRecord, Amount
    <2>3. Len(done) \in Nat /\ (Len(done) = 0 => done = <<>>)
        BY <2>2, EmptySeq
    <2>4. ship \in runs[r].off => done = <<>>
        BY <2>1, <2>3 DEF Sailed
    <2>5. ship \in runs[r].sent <=> runs[r].due[ship] > 0 /\ Len(done) = runs[r].due[ship]
        BY <2>1, <2>2, <2>3 DEF Sailed
    <2> QED
        BY <2>1, <2>4, <2>5 DEF Sailed
<1>5. Cardinality({r \in Calls : runs[r].step \in {"compose", "send"}}) <= 1
    <2> DEFINE busy == {r \in Calls : runs[r].step \in {"compose", "send"}}
    <2>1. \A r, s \in busy : r = s
        BY <1>1 DEF LockTrue, AtWork, Working
    <2> HIDE DEF busy
    <2>2. Cardinality(busy) <= 1
        <3>1. CASE busy = {}
            <4>1. Cardinality({}) = 0
                BY FS_EmptySet
            <4> QED
                BY <3>1, <4>1
        <3>2. CASE busy # {}
            <4>1. PICK r \in busy : TRUE
                BY <3>2
            <4>2. busy = {r}
                BY <2>1, <4>1
            <4>3. Cardinality({r}) = 1
                BY FS_Singleton
            <4> QED
                BY <4>2, <4>3
        <3> QED
            BY <3>1, <3>2
    <2> QED
        BY <2>2 DEF busy
<1> QED
    BY <1>2, <1>3, <1>4, <1>5 DEF BriefingsCounted
-----------------------------------------------------------------------------
(***************************************************************************)
(* The role log.  A row of the log is never later than the last change of  *)
(* its role, and the rows of that last change say which way it went; so    *)
(* the latest row tells how long a role is held if the last change is in   *)
(* the log, whatever of the earlier ones was missed.                       *)
(***************************************************************************)
Change == [role : Role, change : {"added", "removed"}, at : 0..MaxDay]
LastChange == [at : Unknown..MaxDay, logged : BOOLEAN]

HistoryTyped ==
    /\ held \in SUBSET Role /\ log \in SUBSET Change /\ truth \in [Role -> LastChange]
    /\ row \in [voyages : Nat, hosted : Nat, last : Unknown..MaxDay]
    /\ day \in 0..MaxDay /\ up \in BOOLEAN /\ moves \in 0..MaxMoves

Direction(r) == IF r \in held THEN "added" ELSE "removed"

LogTrue(r) ==
    /\ truth[r].at <= day
    /\ \A k \in log : k.role = r => truth[r].at # Unknown /\ k.at <= truth[r].at
    /\ truth[r].logged => \E k \in log : k.role = r /\ k.at = truth[r].at
    /\ \A k \in log : k.role = r /\ k.at = truth[r].at => k.change = Direction(r)

HistoryInv == HistoryTyped /\ \A r \in Role : LogTrue(r)

LEMMA HistoryInitially ==
    ASSUME NEW first, first \subseteq SUBSET Role, NEW graduate, HistoryInit(first, graduate)
    PROVE  HistoryInv
<1>1. truth = [r \in Role |-> [at |-> Unknown, logged |-> FALSE]] /\ log = {}
      /\ held \in SUBSET Role /\ day = 0 /\ moves = 0 /\ up = TRUE /\ row \in Tallies
    BY DEF HistoryInit
<1>2. /\ MaxDay \in Nat /\ MaxMoves \in Nat /\ Unknown \in Unknown..MaxDay
      /\ Tallies \subseteq [voyages : Nat, hosted : Nat, last : {Unknown}]
    BY HistoryAssumption DEF Unknown
<1>3. [at |-> Unknown, logged |-> FALSE] \in LastChange
    BY <1>2 DEF LastChange
<1>4. truth \in [Role -> LastChange]
    BY <1>1, <1>3
<1>5. row \in [voyages : Nat, hosted : Nat, last : Unknown..MaxDay]
    BY <1>1, <1>2
<1>6. day \in 0..MaxDay /\ moves \in 0..MaxMoves
    BY <1>1, <1>2
<1>7. HistoryTyped
    BY <1>1, <1>4, <1>5, <1>6 DEF HistoryTyped
<1>8. \A r \in Role : LogTrue(r)
    BY <1>1 DEF LogTrue, Unknown
<1> QED
    BY <1>7, <1>8 DEF HistoryInv

LEMMA RolesChange ==
    ASSUME HistoryInv, NEW then \in SUBSET Role, ChangeRoles(then)
    PROVE  HistoryInv'
<1> DEFINE added == then \ held
           removed == held \ then
           changed == SymDiff(then, held)
<1>1. HistoryTyped /\ \A r \in Role : LogTrue(r)
    BY DEF HistoryInv
<1>2. /\ moves < MaxMoves /\ moves' = moves + 1 /\ held' = then
      /\ row' = row /\ day' = day /\ up' = up
      /\ \A r \in changed : truth[r].at # day
    BY DEF ChangeRoles
<1>3. PICK kept \in SUBSET LogRows(added, removed) :
        /\ log' = log \cup kept
        /\ truth' = [r \in Role |-> IF r \in changed
                        THEN [at |-> day, logged |-> \E k \in kept : k.role = r] ELSE truth[r]]
    BY DEF ChangeRoles
<1>4. /\ changed = added \cup removed /\ changed \subseteq Role
      /\ \A r \in added : r \in then /\ r \notin held
      /\ \A r \in removed : r \notin then /\ r \in held
      /\ \A r \in Role : r \notin changed => (r \in then <=> r \in held)
    BY <1>1 DEF SymDiff, HistoryTyped
<1>5. \A k \in kept : \/ \E r \in added : k = [role |-> r, change |-> "added", at |-> day]
                      \/ \E r \in removed : k = [role |-> r, change |-> "removed", at |-> day]
    BY <1>3 DEF LogRows
<1> HIDE DEF added, removed, changed
<1>6. \A k \in kept : /\ k.role \in changed /\ k.at = day /\ k \in Change
                      /\ k.change = IF k.role \in then THEN "added" ELSE "removed"
    BY <1>1, <1>4, <1>5 DEF HistoryTyped, Change
<1>7. HistoryTyped'
    <2>1. moves' \in 0..MaxMoves
        BY <1>1, <1>2, HistoryAssumption DEF HistoryTyped
    <2>2. log' \in SUBSET Change
        BY <1>1, <1>3, <1>6 DEF HistoryTyped
    <2>3. ASSUME NEW r \in Role
          PROVE  truth'[r] \in LastChange
        <3>1. day \in Unknown..MaxDay
            BY <1>1 DEF HistoryTyped, Unknown
        <3>2. [at |-> day, logged |-> \E k \in kept : k.role = r] \in LastChange
            BY <3>1 DEF LastChange
        <3> QED
            BY <1>1, <1>3, <3>2 DEF HistoryTyped
    <2>4. truth' \in [Role -> LastChange]
        BY <1>3, <2>3
    <2> QED
        BY <1>1, <1>2, <2>1, <2>2, <2>4 DEF HistoryTyped
<1>8. ASSUME NEW r \in Role
      PROVE  LogTrue(r)'
    <2>1. LogTrue(r) /\ day \in 0..MaxDay /\ truth[r] \in LastChange
        BY <1>1 DEF HistoryTyped
    <2>2. CASE r \in changed
        <3>1. truth'[r].at = day /\ (truth'[r].logged <=> \E k \in kept : k.role = r)
            BY <1>3, <2>2
        <3>2. \A k \in log : k \in Change
            BY <1>1 DEF HistoryTyped
        <3>3. \A k \in log : k.role = r => k.at <= day /\ k.at # day
            BY <1>2, <2>1, <2>2, <3>2 DEF LogTrue, Change, LastChange
        <3>4. day # Unknown /\ day <= day
            BY <2>1 DEF Unknown
        <3> QED
            BY <1>2, <1>3, <1>6, <3>1, <3>3, <3>4 DEF LogTrue, Direction
    <2>3. CASE r \notin changed
        <3>1. truth'[r] = truth[r] /\ \A k \in log' : k.role = r => k \in log
            BY <1>3, <1>6, <2>3
        <3>2. Direction(r)' = Direction(r)
            BY <1>2, <1>4, <2>3 DEF Direction
        <3> QED
            BY <1>2, <1>3, <2>1, <3>1, <3>2 DEF LogTrue
    <2> QED
        BY <2>2, <2>3
<1> QED
    BY <1>7, <1>8 DEF HistoryInv

LEMMA LogWaits ==
    ASSUME HistoryInv, HistoryTyped', UNCHANGED <<held, log, truth>>, day' >= day
    PROVE  HistoryInv'
<1>1. ASSUME NEW r \in Role
      PROVE  LogTrue(r)'
    <2>1. LogTrue(r) /\ truth[r].at \in Int /\ day \in Int /\ day' \in Int
        BY HistoryAssumption DEF HistoryInv, HistoryTyped, LastChange, Unknown
    <2>2. truth[r].at <= day'
        BY <2>1 DEF LogTrue
    <2> QED
        BY <2>1, <2>2 DEF LogTrue, Direction
<1> QED
    BY <1>1 DEF HistoryInv

LEMMA ServeKeeps ==
    ASSUME HistoryInv, NEW then \in Tallies, Serve(then)
    PROVE  HistoryInv' /\ row'.voyages >= row.voyages /\ row'.hosted >= row.hosted
           /\ (row'.last = row.last \/ row'.last = day)
<1>1. HistoryTyped
    BY DEF HistoryInv
<1> DEFINE last == IF then.voyages > row.voyages THEN day ELSE row.last
<1>2. row' = [then EXCEPT !.last = last] /\ then.voyages >= row.voyages /\ then.hosted >= row.hosted
      /\ UNCHANGED <<held, netc, log, truth, day, up, moves>>
    BY DEF Serve
<1>3. last = row.last \/ last = day
    OBVIOUS
<1>4. last \in Unknown..MaxDay
    BY <1>1 DEF HistoryTyped, Unknown
<1> HIDE DEF last
<1>5. then \in [voyages : Nat, hosted : Nat, last : {Unknown}]
    BY HistoryAssumption
<1>6. row' \in [voyages : Nat, hosted : Nat, last : Unknown..MaxDay]
      /\ row'.voyages = then.voyages /\ row'.hosted = then.hosted /\ row'.last = last
    BY <1>2, <1>4, <1>5
<1>7. HistoryTyped' /\ day' = day /\ day \in Int
    BY <1>1, <1>2, <1>6 DEF HistoryTyped
<1>8. day' >= day
    BY <1>7
<1> QED
    BY <1>2, <1>3, <1>6, <1>7, <1>8, LogWaits

LEMMA TickGoesOn ==
    ASSUME HistoryInv, HistoryTick
    PROVE  HistoryInv'
<1>1. HistoryTyped
    BY DEF HistoryInv
<1>2. PICK d \in Days : day + d <= MaxDay /\ day' = day + d
    BY DEF HistoryTick
<1>3. d \in Nat /\ day \in 0..MaxDay /\ MaxDay \in Nat
    BY <1>1, HistoryAssumption DEF HistoryTyped
<1>4. day' \in 0..MaxDay /\ day' >= day
    BY <1>2, <1>3
<1>5. UNCHANGED <<held, netc, log, truth, row, up, moves>>
    BY DEF HistoryTick
<1>6. HistoryTyped'
    BY <1>1, <1>4, <1>5 DEF HistoryTyped
<1> QED
    BY <1>4, <1>5, <1>6, LogWaits

LEMMA OtherHistory ==
    ASSUME HistoryInv,
           \/ \E r : Graduate(r)
           \/ Power
           \/ UNCHANGED historyVars
    PROVE  HistoryInv'
<1>1. HistoryTyped
    BY DEF HistoryInv
<1>2. UNCHANGED <<held, log, truth, row, day, moves>> /\ (up' = up \/ up' = ~up)
    BY DEF Graduate, Power, historyVars
<1>3. up' \in BOOLEAN
    BY <1>1, <1>2, Zenon DEF HistoryTyped
<1>4. HistoryTyped'
    BY <1>1, <1>2, <1>3, Zenon DEF HistoryTyped
<1>5. day' >= day
    BY <1>1, <1>2 DEF HistoryTyped
<1> QED
    BY <1>2, <1>4, <1>5, LogWaits

\* The latest row of the log tells how long a role has been held.
LEMMA LogTells ==
    ASSUME HistoryInv, NEW r \in Role, truth[r].at # Unknown => truth[r].logged
    PROVE  DaysWith(r) = TrulyHeld(r)
<1> DEFINE mine == {k \in log : k.role = r}
           last == CHOOSE k \in mine : \A o \in mine : o.at <= k.at
<1>1. LogTrue(r) /\ \A k \in log : k.at \in Int
    BY DEF HistoryInv, HistoryTyped, Change
<1>2. DaysWith(r) = IF mine = {} \/ last.change # "added" THEN 0 ELSE day - last.at
    BY DEF DaysWith
<1>3. CASE truth[r].at = Unknown
    <2>1. mine = {}
        BY <1>1, <1>3 DEF LogTrue
    <2> QED
        BY <1>2, <1>3, <2>1 DEF TrulyHeld
<1>4. CASE truth[r].at # Unknown
    <2>1. PICK k \in mine : k.at = truth[r].at
        BY <1>1, <1>4 DEF LogTrue
    <2>2. \A o \in mine : o.at <= k.at
        BY <1>1, <2>1 DEF LogTrue
    <2>3. last \in mine /\ \A o \in mine : o.at <= last.at
        BY <2>1, <2>2
    <2> HIDE DEF last
    <2>4. last.at = truth[r].at
        BY <1>1, <2>1, <2>2, <2>3
    <2>5. last.change = Direction(r)
        BY <1>1, <2>3, <2>4 DEF LogTrue
    <2>6. CASE r \in held
        BY <1>2, <1>4, <2>1, <2>4, <2>5, <2>6 DEF TrulyHeld, Direction
    <2>7. CASE r \notin held
        BY <1>2, <1>4, <2>1, <2>5, <2>7 DEF TrulyHeld, Direction
    <2> QED
        BY <2>6, <2>7
<1> QED
    BY <1>3, <1>4
-----------------------------------------------------------------------------
(***************************************************************************)
(* The requirements, as PathsOf has them.                                  *)
(***************************************************************************)
Simple == {"manual", "award", "training", "presence", "count", "time", "time_max", "recent",
           "count_and_time"}
Leafy(q) ==
    /\ q.kind \in Simple /\ q.status \in {Pass, Fail, Info} /\ q.of \in {"voyages", "hosted"}
    /\ q.count \in Nat /\ q.days \in Nat
OneMade(q) ==
    \/ Leafy(q)
    \/ q.kind = "either" /\ \A i \in DOMAIN q.parts : Leafy(q.parts[i])
Made(q) ==
    \/ OneMade(q)
    \/ /\ q.kind = "conditional"
       /\ \A i \in DOMAIN q.parts : OneMade(q.parts[i])
       /\ \A i \in DOMAIN q.else : OneMade(q.else[i])

LEMMA LeafReqs ==
    /\ Leafy(Manual(Fail))
    /\ \A n \in Nat, of \in {"voyages", "hosted"} : Leafy(CountReq(of, n))
    /\ \A r : Leafy(Training(r)) /\ Leafy(Presence(r))
    /\ \A n \in Nat : Leafy(Recent(n)) /\ \A r : Leafy(TimeIn(r, n)) /\ Leafy(TimeInMax(r, n))
    /\ \A tiers, i : Leafy(AwardReq(tiers, i))
    /\ \A r : \A n \in Nat, d \in Nat, of \in {"voyages", "hosted"} : Leafy(CountAndTime(of, n, r, d))
<1>1. Leafy(Manual(Fail))
    BY DEF Leafy, Manual, Req, Simple, Fail, Info, Pass
<1>2. ASSUME NEW n \in Nat, NEW of \in {"voyages", "hosted"}
      PROVE  Leafy(CountReq(of, n))
    BY DEF Leafy, CountReq, Req, Simple, Fail, Info, Pass
<1>3. \A r : Leafy(Training(r)) /\ Leafy(Presence(r))
    BY DEF Leafy, Training, Presence, Req, Simple, Fail, Info, Pass
<1>4. ASSUME NEW n \in Nat
      PROVE  Leafy(Recent(n)) /\ \A r : Leafy(TimeIn(r, n)) /\ Leafy(TimeInMax(r, n))
    BY DEF Leafy, Recent, TimeIn, TimeInMax, Req, Simple, Fail, Info, Pass
<1>5. \A tiers, i : Leafy(AwardReq(tiers, i))
    BY DEF Leafy, AwardReq, Req, Simple, Fail, Info, Pass
<1>6. ASSUME NEW n \in Nat, NEW d \in Nat, NEW of \in {"voyages", "hosted"}, NEW r
      PROVE  Leafy(CountAndTime(of, n, r, d))
    BY DEF Leafy, CountAndTime, Req, Simple, Fail, Info, Pass
<1> QED
    BY <1>1, <1>2, <1>3, <1>4, <1>5, <1>6

LEMMA Compounds ==
    /\ \A parts : (\A i \in DOMAIN parts : Leafy(parts[i])) => OneMade(EitherOf(parts))
    /\ \A r, parts, others :
         (\A i \in DOMAIN parts : OneMade(parts[i])) /\ (\A i \in DOMAIN others : OneMade(others[i]))
             => Made(Conditional(r, parts, others))
<1>1. ASSUME NEW parts, \A i \in DOMAIN parts : Leafy(parts[i])
      PROVE  OneMade(EitherOf(parts))
    <2>1. EitherOf(parts).kind = "either" /\ EitherOf(parts).parts = parts
        BY DEF EitherOf, Req
    <2> QED
        BY <1>1, <2>1 DEF OneMade
<1>2. ASSUME NEW r, NEW parts, NEW others,
             \A i \in DOMAIN parts : OneMade(parts[i]), \A i \in DOMAIN others : OneMade(others[i])
      PROVE  Made(Conditional(r, parts, others))
    <2> DEFINE q == Conditional(r, parts, others)
    <2>1. q.kind = "conditional" /\ q.parts = parts /\ q.else = others
        BY DEF Conditional, Req
    <2> HIDE DEF q
    <2>2. Made(q)
        BY <1>2, <2>1 DEF Made
    <2> QED
        BY <2>2 DEF q
<1> QED
    BY <1>1, <1>2

WellMade(path) == \A k \in DOMAIN path : Made(path[k])

LEMMA ShortPaths ==
    /\ \A a : Made(a) => WellMade(<<a>>)
    /\ \A a, b : Made(a) /\ Made(b) => WellMade(<<a, b>>)
    /\ \A a, b, c : Made(a) /\ Made(b) /\ Made(c) => WellMade(<<a, b, c>>)
    /\ \A a, b, c, d : Made(a) /\ Made(b) /\ Made(c) /\ Made(d) => WellMade(<<a, b, c, d>>)
<1>1. ASSUME NEW a, Made(a) PROVE WellMade(<<a>>)
    BY <1>1 DEF WellMade
<1>2. ASSUME NEW a, NEW b, Made(a), Made(b) PROVE WellMade(<<a, b>>)
    BY <1>2 DEF WellMade
<1>3. ASSUME NEW a, NEW b, NEW c, Made(a), Made(b), Made(c) PROVE WellMade(<<a, b, c>>)
    BY <1>3 DEF WellMade
<1>4. ASSUME NEW a, NEW b, NEW c, NEW d, Made(a), Made(b), Made(c), Made(d)
      PROVE  WellMade(<<a, b, c, d>>)
    BY <1>4 DEF WellMade
<1> QED
    BY <1>1, <1>2, <1>3, <1>4

LEMMA OfficersMade == \A hosting \in BOOLEAN : WellMade(Officer(hosting))
<1> SUFFICES ASSUME NEW hosting \in BOOLEAN
             PROVE  WellMade(Officer(hosting))
    OBVIOUS
<1> DEFINE a == Training("COSA")
           b == AwardReq(Conduct, 3)
           c == AwardReq(Stripes, 1)
           d == CountReq("hosted", 35)
           e == Manual(Fail)
           S == {a, b, c, d, e}
           more == IF hosting THEN <<d, e>> ELSE <<>>
<1>1. \A q \in S : Made(q)
    BY LeafReqs DEF Made, OneMade
<1>2. Officer(hosting) = <<a, b, c>> \o more
    BY DEF Officer
<1> HIDE DEF a, b, c, d, e
<1>3. <<a, b, c>> \in Seq(S) /\ more \in Seq(S)
    <2>1. <<a, b, c>> \in Seq(S) /\ <<d, e>> \in Seq(S) /\ <<>> \in Seq(S)
        OBVIOUS
    <2> QED
        BY <2>1
<1>4. Officer(hosting) \in Seq(S)
    BY <1>2, <1>3
<1> HIDE DEF S
<1>5. \A k \in DOMAIN Officer(hosting) : Officer(hosting)[k] \in S
    BY <1>4
<1> QED
    BY <1>1, <1>5 DEF WellMade

AllMade(paths) == \A i \in DOMAIN paths : WellMade(paths[i])

LEMMA PathsMade == \A rank : AllMade(PathsOf(rank))
<1> SUFFICES ASSUME NEW rank
             PROVE  AllMade(PathsOf(rank))
    OBVIOUS
<1>1. \A path : WellMade(path) => AllMade(<<path>>)
    BY DEF AllMade
<1>2. \A q : Leafy(q) => OneMade(q) /\ Made(q)
    BY DEF OneMade, Made
<1>3. \A q : OneMade(q) => Made(q)
    BY DEF Made
<1>4. \A a, b : Leafy(a) /\ Leafy(b) => OneMade(EitherOf(<<a, b>>))
    <2> SUFFICES ASSUME NEW a, NEW b, Leafy(a), Leafy(b)
                 PROVE  OneMade(EitherOf(<<a, b>>))
        OBVIOUS
    <2>1. \A i \in DOMAIN <<a, b>> : Leafy(<<a, b>>[i])
        OBVIOUS
    <2> QED
        BY <2>1, Compounds
<1>5. \A r, a, b, c, d : OneMade(a) /\ OneMade(b) /\ OneMade(c) /\ OneMade(d) =>
          Made(Conditional(r, <<a, b>>, <<c, d>>))
    <2> SUFFICES ASSUME NEW r, NEW a, NEW b, NEW c, NEW d, OneMade(a), OneMade(b), OneMade(c), OneMade(d)
                 PROVE  Made(Conditional(r, <<a, b>>, <<c, d>>))
        OBVIOUS
    <2>1. \A i \in DOMAIN <<a, b>> : OneMade(<<a, b>>[i])
        OBVIOUS
    <2>2. \A i \in DOMAIN <<c, d>> : OneMade(<<c, d>>[i])
        OBVIOUS
    <2> QED
        BY <2>1, <2>2, Compounds
<1>6. ASSUME rank = 2
      PROVE  AllMade(PathsOf(rank))
    <2>1. PathsOf(rank) =
            <<<<Conditional("E2A", <<TimeInMax("E2A", 14), Recent(14)>>,
                    <<CountReq("voyages", 5), EitherOf(<<AwardReq(Conduct, 1), AwardReq(Combat, 1)>>)>>)>>>>
        BY <1>6 DEF PathsOf
    <2>2. OneMade(TimeInMax("E2A", 14)) /\ OneMade(Recent(14)) /\ OneMade(CountReq("voyages", 5))
        BY <1>2, LeafReqs
    <2>3. OneMade(EitherOf(<<AwardReq(Conduct, 1), AwardReq(Combat, 1)>>))
        BY <1>4, LeafReqs, Zenon
    <2>4. Made(Conditional("E2A", <<TimeInMax("E2A", 14), Recent(14)>>,
                    <<CountReq("voyages", 5), EitherOf(<<AwardReq(Conduct, 1), AwardReq(Combat, 1)>>)>>))
        BY <1>5, <2>2, <2>3, Zenon
    <2> QED
        BY <1>1, <2>1, <2>4, ShortPaths, Zenon
<1>7. ASSUME rank = 3
      PROVE  AllMade(PathsOf(rank))
    <2>1. PathsOf(rank) =
            <<<<EitherOf(<<CountAndTime("voyages", 20, "E3", 7), CountAndTime("voyages", 15, "E3", 14)>>),
                Training("JLA"), AwardReq(Conduct, 1)>>>>
        BY <1>7 DEF PathsOf
    <2>2. Made(Training("JLA")) /\ Made(AwardReq(Conduct, 1))
        BY <1>2, LeafReqs
    <2>3. Leafy(CountAndTime("voyages", 20, "E3", 7)) /\ Leafy(CountAndTime("voyages", 15, "E3", 14))
        BY LeafReqs
    <2>4. Made(EitherOf(<<CountAndTime("voyages", 20, "E3", 7), CountAndTime("voyages", 15, "E3", 14)>>))
        BY <1>3, <1>4, <2>3, Zenon
    <2> QED
        BY <1>1, <2>1, <2>2, <2>4, ShortPaths, Zenon
<1>8. ASSUME rank = 4
      PROVE  AllMade(PathsOf(rank))
    <2>1. PathsOf(rank) = <<<<AwardReq(Conduct, 2), Presence({"NCO_IMPROVEMENT"}), Training("SLA"),
                              CountReq("hosted", 10)>>>>
        BY <1>8 DEF PathsOf
    <2>2. /\ Made(AwardReq(Conduct, 2)) /\ Made(Presence({"NCO_IMPROVEMENT"}))
          /\ Made(Training("SLA")) /\ Made(CountReq("hosted", 10))
        BY <1>2, LeafReqs
    <2> QED
        BY <1>1, <2>1, <2>2, ShortPaths, Zenon
<1>9. ASSUME rank = 5
      PROVE  AllMade(PathsOf(rank))
    <2>1. PathsOf(rank) = <<<<TimeIn("E6", 30), CountReq("hosted", 20), Manual(Fail)>>>>
        BY <1>9 DEF PathsOf
    <2>2. Made(TimeIn("E6", 30)) /\ Made(CountReq("hosted", 20)) /\ Made(Manual(Fail))
        BY <1>2, LeafReqs
    <2> QED
        BY <1>1, <2>1, <2>2, ShortPaths, Zenon
<1>10. ASSUME rank = 6 \/ rank = 8
       PROVE  AllMade(PathsOf(rank))
    <2>1. \/ PathsOf(rank) = <<Officer(FALSE), Officer(TRUE)>>
          \/ PathsOf(rank) = <<Officer(TRUE)>>
        <3>1. CASE rank = 6
            BY <3>1 DEF PathsOf, Officer
        <3>2. CASE rank = 8
            BY <3>2 DEF PathsOf, Officer
        <3> QED
            BY <1>10, <3>1, <3>2
    <2>2. WellMade(Officer(FALSE)) /\ WellMade(Officer(TRUE))
        BY OfficersMade
    <2>3. \A a, b : WellMade(a) /\ WellMade(b) => AllMade(<<a, b>>)
        BY DEF AllMade
    <2> QED
        BY <1>1, <2>1, <2>2, <2>3, Zenon
<1>11. ASSUME rank = 9
       PROVE  AllMade(PathsOf(rank))
    <2>1. PathsOf(rank) = <<<<TimeIn("O1", 14), Training("OCS")>>>>
        BY <1>11 DEF PathsOf
    <2>2. Made(TimeIn("O1", 14)) /\ Made(Training("OCS"))
        BY <1>2, LeafReqs
    <2> QED
        BY <1>1, <2>1, <2>2, ShortPaths, Zenon
<1>12. ASSUME rank = 10 \/ rank = 11
       PROVE  AllMade(PathsOf(rank))
    <2>1. PathsOf(rank) = <<<<Training("SOCS")>>>> \/ PathsOf(rank) = <<<<TimeIn("O4", 28)>>>>
        BY <1>12 DEF PathsOf
    <2>2. Made(Training("SOCS")) /\ Made(TimeIn("O4", 28))
        BY <1>2, LeafReqs
    <2> QED
        BY <1>1, <2>1, <2>2, ShortPaths, Zenon
<1>13. ASSUME rank = 12
       PROVE  AllMade(PathsOf(rank))
    <2>1. PathsOf(rank) = <<<<TimeIn("O5", 90), AwardReq(Hosted, 2), Manual(Fail)>>>>
        BY <1>13 DEF PathsOf
    <2>2. Made(TimeIn("O5", 90)) /\ Made(AwardReq(Hosted, 2)) /\ Made(Manual(Fail))
        BY <1>2, LeafReqs
    <2> QED
        BY <1>1, <2>1, <2>2, ShortPaths, Zenon
<1>14. ASSUME rank \in {13, 14, 15, 16}
       PROVE  AllMade(PathsOf(rank))
    <2>1. PathsOf(rank) = <<<<Manual(Fail)>>>> \/ PathsOf(rank) = <<<<Manual(Fail), Manual(Fail)>>>>
        BY <1>14 DEF PathsOf
    <2>2. Made(Manual(Fail))
        BY <1>2, LeafReqs
    <2> QED
        BY <1>1, <2>1, <2>2, ShortPaths, Zenon
<1>15. ASSUME rank \notin {2, 3, 4, 5, 6, 8, 9, 10, 11, 12, 13, 14, 15, 16}
       PROVE  AllMade(PathsOf(rank))
    <2>1. PathsOf(rank) = <<>>
        BY <1>15 DEF PathsOf
    <2> QED
        BY <2>1 DEF AllMade
<1> QED
    BY <1>6, <1>7, <1>8, <1>9, <1>10, <1>11, <1>12, <1>13, <1>14, <1>15
-----------------------------------------------------------------------------
(***************************************************************************)
(* What a check makes of the requirements.                                 *)
(***************************************************************************)
Met(q, days) == Leaf(q, days) # Fail
AnyMet(q, days) ==
    IF q.kind = "either" THEN \E i \in DOMAIN q.parts : Met(q.parts[i], days) ELSE Met(q, days)
AllMet(q, days) ==
    IF q.kind # "conditional" THEN AnyMet(q, days)
    ELSE IF Has(q.roles) THEN \A i \in DOMAIN q.parts : AnyMet(q.parts[i], days)
    ELSE \A i \in DOMAIN q.else : AnyMet(q.else[i], days)

LEMMA LeafValue ==
    ASSUME NEW q, NEW days, Leafy(q)
    PROVE  Leaf(q, days) \in {Pass, Fail, Info}
<1>1. \A b : PassIf(b) \in {Pass, Fail, Info}
    BY DEF PassIf
<1>2. q.kind = "manual" => Leaf(q, days) = q.status
    BY DEF Leaf
<1>3. q.kind = "time_max" => Leaf(q, days) \in {Fail, Info}
    BY DEF Leaf
<1>4. q.kind \in {"award", "training", "presence", "count", "time", "recent", "count_and_time"} =>
          Leaf(q, days) \in {Pass, Fail}
    BY DEF Leaf, PassIf
<1> QED
    BY <1>2, <1>3, <1>4 DEF Leafy, Simple

LEMMA Values == Pass # Fail /\ Info # Fail /\ Pass # Info
BY DEF Pass, Fail, Info

LEMMA OneOfMeans ==
    ASSUME NEW q, NEW days, OneMade(q)
    PROVE  OneOf(q, days) # Fail <=> AnyMet(q, days)
<1>1. CASE q.kind = "either"
    <2>1. \A i \in DOMAIN q.parts : Leafy(q.parts[i])
        BY <1>1 DEF OneMade, Leafy, Simple
    <2>2. \A i \in DOMAIN q.parts : Leaf(q.parts[i], days) \in {Pass, Fail, Info}
        BY <2>1, LeafValue
    <2> DEFINE statuses == {Leaf(q.parts[i], days) : i \in DOMAIN q.parts}
    <2>3. Pass \in statuses \/ Info \in statuses <=> \E i \in DOMAIN q.parts : Met(q.parts[i], days)
        BY <2>2, Values DEF Met
    <2>4. OneOf(q, days) = IF Pass \in statuses THEN Pass ELSE IF Info \in statuses THEN Info ELSE Fail
        BY <1>1, Zenon DEF OneOf, Either
    <2> HIDE DEF statuses
    <2> QED
        BY <1>1, <2>3, <2>4, Values DEF AnyMet
<1>2. CASE q.kind # "either"
    BY <1>2 DEF OneOf, AnyMet, Met
<1> QED
    BY <1>1, <1>2

LEMMA StatusMeans ==
    ASSUME NEW q, NEW days, Made(q)
    PROVE  Status(q, days) # Fail <=> AllMet(q, days)
<1>1. CASE q.kind = "conditional"
    <2>1. /\ \A i \in DOMAIN q.parts : OneMade(q.parts[i])
          /\ \A i \in DOMAIN q.else : OneMade(q.else[i])
        BY <1>1 DEF Made, OneMade, Leafy, Simple
    <2> DEFINE parts == IF Has(q.roles) THEN q.parts ELSE q.else
               statuses == {OneOf(parts[i], days) : i \in DOMAIN parts}
    <2>2. \A i \in DOMAIN parts : OneMade(parts[i])
        BY <2>1
    <2>3. AllMet(q, days) <=> \A i \in DOMAIN parts : AnyMet(parts[i], days)
        BY <1>1 DEF AllMet
    <2>4. Status(q, days) = IF Fail \in statuses THEN Fail ELSE IF Info \in statuses THEN Info ELSE Pass
        BY <1>1, Zenon DEF Status
    <2> HIDE DEF parts
    <2>5. Fail \notin statuses <=> \A i \in DOMAIN parts : AnyMet(parts[i], days)
        BY <2>2, OneOfMeans
    <2> HIDE DEF statuses
    <2> QED
        BY <2>3, <2>4, <2>5, Values
<1>2. CASE q.kind # "conditional"
    <2>1. OneMade(q)
        BY <1>2 DEF Made
    <2> QED
        BY <1>2, <2>1, OneOfMeans DEF Status, AllMet
<1> QED
    BY <1>1, <1>2

DaysHeld == [r \in Role |-> DaysWith(r)]

LEMMA SectionMeans ==
    ASSUME NEW i \in DOMAIN PathsOf(CurrentRank)
    PROVE  /\ i \in DOMAIN Sections
           /\ Fail \notin Sections[i] <=>
                \A k \in DOMAIN PathsOf(CurrentRank)[i] : AllMet(PathsOf(CurrentRank)[i][k], DaysHeld)
<1> DEFINE paths == PathsOf(CurrentRank)
           path == paths[i]
<1>1. \A k \in DOMAIN path : Made(path[k])
    BY PathsMade DEF AllMade, WellMade
<1>2. Sections = [j \in DOMAIN paths |-> PathSection(paths[j])]
    BY Zenon DEF Sections
<1>3. PathSection(path) = {Status(path[k], DaysHeld) : k \in DOMAIN path}
    BY Zenon DEF PathSection, DaysHeld
<1> HIDE DEF paths
<1>4. Sections[i] = PathSection(path) /\ i \in DOMAIN Sections
    BY <1>2 DEF paths
<1> HIDE DEF path
<1>5. Fail \notin PathSection(path) <=> \A k \in DOMAIN path : Status(path[k], DaysHeld) # Fail
    BY <1>3
<1>6. \A k \in DOMAIN path : Status(path[k], DaysHeld) # Fail <=> AllMet(path[k], DaysHeld)
    BY <1>1, StatusMeans
<1>7. Fail \notin Sections[i] <=> \A k \in DOMAIN path : AllMet(path[k], DaysHeld)
    BY <1>4, <1>5, <1>6
<1> QED
    BY <1>4, <1>7 DEF path, paths

\* Of a member whose last changes are in the log, a check says what is true.
LEMMA ChecksAreTrue == HistoryInv => PromotionsAreTrue
<1> SUFFICES ASSUME HistoryInv, \A r \in Role : truth[r].at # Unknown => truth[r].logged
             PROVE  LET met(req) == Leaf(req, [r \in Role |-> TrulyHeld(r)]) # Fail
                        any(req) == IF req.kind = "either" THEN \E i \in DOMAIN req.parts : met(req.parts[i])
                                    ELSE met(req)
                        all(req) == IF req.kind # "conditional" THEN any(req)
                                    ELSE IF Has(req.roles) THEN \A i \in DOMAIN req.parts : any(req.parts[i])
                                    ELSE \A i \in DOMAIN req.else : any(req.else[i])
                        paths == PathsOf(CurrentRank)
                    IN  /\ \A r \in Role : DaysWith(r) = TrulyHeld(r)
                        /\ \A i \in DOMAIN paths :
                             (Fail \notin Sections[i]) <=> \A k \in DOMAIN paths[i] : all(paths[i][k])
                        /\ Colour = "green" =>
                             \A i \in DOMAIN paths, k \in 1..5 : k \in DOMAIN paths[i] => all(paths[i][k])
    BY Zenon DEF PromotionsAreTrue
<1> DEFINE paths == PathsOf(CurrentRank)
<1>1. \A r \in Role : DaysWith(r) = TrulyHeld(r)
    BY LogTells
<1>2. DaysHeld = [r \in Role |-> TrulyHeld(r)]
    BY <1>1 DEF DaysHeld
<1>3. \A i \in DOMAIN paths :
        /\ i \in DOMAIN Sections
        /\ Fail \notin Sections[i] <=> \A k \in DOMAIN paths[i] : AllMet(paths[i][k], DaysHeld)
    BY SectionMeans
<1>4. Colour = "green" => \A i \in DOMAIN Sections : Fail \notin Sections[i]
    BY DEF Colour
<1> DEFINE days == [r \in Role |-> TrulyHeld(r)]
<1>5. /\ \A i \in DOMAIN paths :
           Fail \notin Sections[i] <=> \A k \in DOMAIN paths[i] : AllMet(paths[i][k], days)
      /\ Colour = "green" => \A i \in DOMAIN paths : \A k \in DOMAIN paths[i] : AllMet(paths[i][k], days)
    <2>1. DaysHeld = days
        BY <1>2
    <2> HIDE DEF days, paths
    <2>2. \A i \in DOMAIN paths :
            Fail \notin Sections[i] <=> \A k \in DOMAIN paths[i] : AllMet(paths[i][k], days)
        BY <1>3, <2>1
    <2>3. ASSUME Colour = "green", NEW i \in DOMAIN paths, NEW k \in DOMAIN paths[i]
          PROVE  AllMet(paths[i][k], days)
        <3>1. Fail \notin Sections[i]
            BY <1>3, <1>4, <2>3
        <3> QED
            BY <2>2, <3>1
    <2> QED
        BY <2>2, <2>3
<1>6. Colour = "green" =>
        \A i \in DOMAIN paths, k \in 1..5 : k \in DOMAIN paths[i] => AllMet(paths[i][k], days)
    BY <1>5, Zenon
<1> QED
    BY <1>1, <1>5, <1>6, Zenon DEF AllMet, AnyMet, Met

-----------------------------------------------------------------------------
(***************************************************************************)
(* More of what counts never makes a section fail.                         *)
(***************************************************************************)
Improves ==
    /\ held' = held /\ log' = log /\ day' = day /\ netc \subseteq netc'
    /\ row'.voyages >= row.voyages /\ row'.hosted >= row.hosted
    /\ row'.last = row.last \/ row'.last = day

LEMMA LeafImproves ==
    ASSUME HistoryTyped, HistoryTyped', Improves, NEW q, NEW days, Leafy(q), Met(q, days)
    PROVE  Met(q, days)'
<1>1. /\ held' = held /\ day' = day /\ netc \subseteq netc'
      /\ row'.voyages >= row.voyages /\ row'.hosted >= row.hosted
      /\ row'.last = row.last \/ row'.last = day
    BY DEF Improves
<1>2. q.of \in {"voyages", "hosted"} /\ q.count \in Nat /\ q.days \in Nat /\ q.kind \in Simple
    BY DEF Leafy
<1>3. /\ {row.voyages, row.hosted, row'.voyages, row'.hosted} \subseteq Nat
      /\ day \in 0..MaxDay /\ day # Unknown /\ row.last \in Int
    BY HistoryAssumption DEF HistoryTyped, Unknown
<1>4. CountOf(q.of) >= q.count => CountOf(q.of)' >= q.count
    BY <1>1, <1>2, <1>3 DEF CountOf
<1>5. (row.last # Unknown /\ day - row.last <= q.days) => (row'.last # Unknown /\ day' - row'.last <= q.days)
    <2>1. CASE row'.last = row.last
        BY <1>1, <2>1
    <2>2. CASE row'.last = day
        <3>1. day' - row'.last = 0 /\ 0 <= q.days
            BY <1>1, <1>2, <1>3, <2>2
        <3> QED
            BY <1>3, <2>2, <3>1
    <2> QED
        BY <1>1, <2>1, <2>2
<1>6. \A roles : Has(roles)' <=> Has(roles)
    BY <1>1 DEF Has
<1>7. q.roles \cap netc # {} => q.roles \cap netc' # {}
    BY <1>1
<1>8. CASE q.kind = "manual"
    BY <1>8 DEF Met, Leaf
<1>9. CASE q.kind = "award"
    BY <1>6, <1>9 DEF Met, Leaf, PassIf
<1>10. CASE q.kind = "training"
    BY <1>7, <1>10, Values DEF Met, Leaf, PassIf
<1>11. CASE q.kind = "presence"
    BY <1>6, <1>11 DEF Met, Leaf, PassIf
<1>12. CASE q.kind = "count"
    BY <1>4, <1>12, Values DEF Met, Leaf, PassIf
<1>13. CASE q.kind = "time"
    BY <1>13 DEF Met, Leaf, PassIf
<1>14. CASE q.kind = "time_max"
    BY <1>14 DEF Met, Leaf
<1>15. CASE q.kind = "recent"
    BY <1>5, <1>15, Values DEF Met, Leaf, PassIf
<1>16. CASE q.kind = "count_and_time"
    BY <1>4, <1>16, Values DEF Met, Leaf, PassIf
<1> QED
    BY <1>2, <1>8, <1>9, <1>10, <1>11, <1>12, <1>13, <1>14, <1>15, <1>16 DEF Simple

LEMMA OneImproves ==
    ASSUME HistoryTyped, HistoryTyped', Improves, NEW q, NEW days, OneMade(q), AnyMet(q, days)
    PROVE  AnyMet(q, days)'
<1>1. CASE q.kind = "either"
    <2>1. \A i \in DOMAIN q.parts : Leafy(q.parts[i])
        BY <1>1 DEF OneMade, Leafy, Simple
    <2>2. PICK i \in DOMAIN q.parts : Met(q.parts[i], days)
        BY <1>1 DEF AnyMet
    <2>3. Met(q.parts[i], days)'
        BY <2>1, <2>2, LeafImproves
    <2> QED
        BY <1>1, <2>3 DEF AnyMet
<1>2. CASE q.kind # "either"
    <2>1. Leafy(q) /\ Met(q, days)
        BY <1>2 DEF OneMade, AnyMet
    <2>2. Met(q, days)'
        BY <2>1, LeafImproves
    <2> QED
        BY <1>2, <2>2 DEF AnyMet
<1> QED
    BY <1>1, <1>2

LEMMA AllImproves ==
    ASSUME HistoryTyped, HistoryTyped', Improves, NEW q, NEW days, Made(q), AllMet(q, days)
    PROVE  AllMet(q, days)'
<1>1. CASE q.kind = "conditional"
    <2>1. /\ \A i \in DOMAIN q.parts : OneMade(q.parts[i])
          /\ \A i \in DOMAIN q.else : OneMade(q.else[i])
        BY <1>1 DEF Made, OneMade, Leafy, Simple
    <2>2. Has(q.roles)' <=> Has(q.roles)
        BY DEF Has, Improves
    <2>3. CASE Has(q.roles)
        <3>1. \A i \in DOMAIN q.parts : AnyMet(q.parts[i], days)
            BY <1>1, <2>3 DEF AllMet
        <3>2. \A i \in DOMAIN q.parts : AnyMet(q.parts[i], days)'
            BY <2>1, <3>1, OneImproves
        <3> QED
            BY <1>1, <2>2, <2>3, <3>2 DEF AllMet
    <2>4. CASE ~Has(q.roles)
        <3>1. \A i \in DOMAIN q.else : AnyMet(q.else[i], days)
            BY <1>1, <2>4 DEF AllMet
        <3>2. \A i \in DOMAIN q.else : AnyMet(q.else[i], days)'
            BY <2>1, <3>1, OneImproves
        <3> QED
            BY <1>1, <2>2, <2>4, <3>2 DEF AllMet
    <2> QED
        BY <2>3, <2>4
<1>2. CASE q.kind # "conditional"
    <2>1. OneMade(q) /\ AnyMet(q, days)
        BY <1>2 DEF Made, AllMet
    <2>2. AnyMet(q, days)'
        BY <2>1, OneImproves
    <2> QED
        BY <1>2, <2>2 DEF AllMet
<1> QED
    BY <1>1, <1>2

\* The same after a step.
LEMMA StatusMeansThen == (\A q, days : Made(q) => (Status(q, days) # Fail <=> AllMet(q, days)))'
<1>1. \A q, days : Made(q) => (Status(q, days) # Fail <=> AllMet(q, days))
    BY StatusMeans
<1> QED
    BY <1>1, PTL

LEMMA SectionsImprove ==
    ASSUME HistoryTyped, HistoryTyped', Improves, NEW i \in DOMAIN Sections, Fail \notin Sections[i]
    PROVE  Fail \notin Sections'[i]
<1> DEFINE paths == PathsOf(CurrentRank)
<1>1. CurrentRank' = CurrentRank
    BY DEF Improves, CurrentRank, HeldRanks, Has
<1>2. PICK rank : rank = CurrentRank
    OBVIOUS
<1>3. DaysHeld' = DaysHeld
    BY DEF Improves, DaysHeld, DaysWith
<1>4. PICK days : days = DaysHeld
    OBVIOUS
<1>5. i \in DOMAIN PathsOf(rank)
    BY <1>2 DEF Sections
<1>6. \A k \in DOMAIN PathsOf(rank)[i] : AllMet(PathsOf(rank)[i][k], days)
    BY <1>2, <1>4, <1>5, SectionMeans
<1>7. \A k \in DOMAIN PathsOf(rank)[i] : Made(PathsOf(rank)[i][k])
    BY <1>5, PathsMade DEF AllMade, WellMade
<1>8. \A k \in DOMAIN PathsOf(rank)[i] : AllMet(PathsOf(rank)[i][k], days)'
    BY <1>6, <1>7, AllImproves
<1>9. \A k \in DOMAIN PathsOf(rank)[i] : (Status(PathsOf(rank)[i][k], days))' # Fail
    <2> TAKE k \in DOMAIN PathsOf(rank)[i]
    <2>1. AllMet(PathsOf(rank)[i][k], days)' /\ Made(PathsOf(rank)[i][k])
        BY <1>7, <1>8
    <2>2. (Status(PathsOf(rank)[i][k], days) # Fail <=> AllMet(PathsOf(rank)[i][k], days))'
        BY <2>1, StatusMeansThen
    <2> QED
        BY <2>1, <2>2
<1> QED
    BY <1>1, <1>2, <1>3, <1>4, <1>5, <1>9 DEF Sections, PathSection, DaysHeld
-----------------------------------------------------------------------------
(***************************************************************************)
(* Each of them on its own, with no bound on who does what and when: any   *)
(* change of roles, calls and tasks that run at once.                      *)
(***************************************************************************)
AnyStep ==
    \/ \E roles \in SUBSET Role : ChangeRoles(roles)
    \/ \E r : Graduate(r)
    \/ \E counts \in Tallies : Serve(counts)
    \/ HistoryTick \/ Power

Career == HistoryInit(SUBSET Role, SUBSET STRING) /\ [][AnyStep]_historyVars
Mail == DeliveryInit /\ [][DeliveryNext]_deliveryVars

LEMMA HistoryKept ==
    ASSUME HistoryInv, [AnyStep]_historyVars
    PROVE  HistoryInv'
<1>1. CASE \E roles \in SUBSET Role : ChangeRoles(roles)
    BY <1>1, RolesChange
<1>2. CASE \E counts \in Tallies : Serve(counts)
    BY <1>2, ServeKeeps
<1>3. CASE HistoryTick
    BY <1>3, TickGoesOn
<1>4. CASE (\E r : Graduate(r)) \/ Power \/ UNCHANGED historyVars
    BY <1>4, OtherHistory
<1> QED
    BY <1>1, <1>2, <1>3, <1>4 DEF AnyStep

\* Where nothing but the counts and the courses change, a step is for the
\* better.
LEMMA StepsImprove ==
    ASSUME HistoryInv, AnyStep, held' = held, log' = log, day' = day
    PROVE  Improves
<1>1. HistoryTyped
    BY DEF HistoryInv
<1>2. row.voyages \in Nat /\ row.hosted \in Nat
    BY <1>1 DEF HistoryTyped
<1>3. CASE \E roles \in SUBSET Role : ChangeRoles(roles)
    BY <1>3 DEF ChangeRoles
<1>4. CASE \E counts \in Tallies : Serve(counts)
    <2>1. netc' = netc
        BY <1>4 DEF Serve
    <2> QED
        BY <1>4, <2>1, ServeKeeps DEF Improves
<1>5. CASE (\E r : Graduate(r)) \/ HistoryTick \/ Power
    <2>1. netc \subseteq netc' /\ row' = row
        BY <1>5 DEF Graduate, HistoryTick, Power
    <2> QED
        BY <1>2, <2>1 DEF Improves
<1> QED
    BY <1>3, <1>4, <1>5 DEF AnyStep

LEMMA StepsOnlyImprove ==
    ASSUME HistoryInv, HistoryInv', [AnyStep]_historyVars
    PROVE  [held' = held /\ log' = log /\ day' = day =>
              \A i \in DOMAIN Sections : Fail \notin Sections[i] => Fail \notin Sections'[i]]_historyVars
<1>1. CASE UNCHANGED historyVars
    BY <1>1
<1>2. ASSUME AnyStep, held' = held, log' = log, day' = day,
             NEW i \in DOMAIN Sections, Fail \notin Sections[i]
      PROVE  Fail \notin Sections'[i]
    <2>1. HistoryTyped /\ HistoryTyped'
        BY DEF HistoryInv
    <2>2. Improves
        BY <1>2, StepsImprove
    <2> QED
        BY <1>2, <2>1, <2>2, SectionsImprove
<1> QED
    BY <1>1, <1>2

\* What a check says of a promotion is true of the member (checkpromotion.py,
\* role_change_log), for every member, table of roles and length of service.
THEOREM PromotionsTrue == Career => []PromotionsAreTrue
<1>1. HistoryInit(SUBSET Role, SUBSET STRING) => HistoryInv
    BY HistoryInitially
<1>2. HistoryInv /\ [AnyStep]_historyVars => HistoryInv'
    BY HistoryKept
<1>3. HistoryInv => PromotionsAreTrue
    BY ChecksAreTrue
<1> QED
    BY <1>1, <1>2, <1>3, PTL DEF Career

\* More voyages, more voyages hosted and more courses never make a section of
\* the check fail (evaluators.py).
THEOREM OnlyImprove == Career => PromotionsOnlyImprove
<1>1. HistoryInit(SUBSET Role, SUBSET STRING) => HistoryInv
    BY HistoryInitially
<1>2. HistoryInv /\ [AnyStep]_historyVars => HistoryInv'
    BY HistoryKept
<1>3. HistoryInv /\ HistoryInv' /\ [AnyStep]_historyVars =>
        [held' = held /\ log' = log /\ day' = day =>
           \A i \in DOMAIN Sections : Fail \notin Sections[i] => Fail \notin Sections'[i]]_historyVars
    BY StepsOnlyImprove
<1> QED
    BY <1>1, <1>2, <1>3, PTL DEF Career, PromotionsOnlyImprove

\* A run of briefings answers for each of its ships once, a ship counted as
\* sent has had all its messages in order, and two calls never work at once
\* (delivery.py), for every fleet and however many call.
THEOREM DeliveriesCounted == Mail => [](DeliveryTypeOK /\ BriefingsCounted)
<1>1. DeliveryInit => DeliveryInv
    BY DeliveryInitially
<1>2. DeliveryInv /\ [DeliveryNext]_deliveryVars => DeliveryInv'
    BY DeliveryKept
<1>3. DeliveryInv => DeliveryTypeOK /\ BriefingsCounted
    BY DeliveriesCount
<1> QED
    BY <1>1, <1>2, <1>3, PTL DEF Mail

-----------------------------------------------------------------------------
(***************************************************************************)
(* The chain of command.  Every link leads to an earlier one, so the       *)
(* officer of a sailor stands above them; the searches over the officers   *)
(* who act climb at each step and end before the chain does.               *)
(***************************************************************************)
LEMMA ChainLinks ==
    /\ Links = 1..14 /\ Len(Chain) = 14
    /\ \A i, j \in Links : Chain[i].role = Chain[j].role => i = j
    /\ \A i \in Links : Chain[i].over # Nobody =>
         \E j \in 1..(i - 1) : Chain[j].role = Chain[i].over
    /\ Chain[1].over = Nobody /\ Chain[1].role = "AOTN"
BY SMTT(60) DEF Links, Chain, Nobody

LEMMA LinksRise ==
    ASSUME NEW i \in Links, Chain[i].over # Nobody
    PROVE  /\ LinkOf(Chain[i].over) \in 1..(i - 1) /\ LinkOf(Chain[i].over) \in Links
           /\ Chain[LinkOf(Chain[i].over)].role = Chain[i].over
<1>1. PICK j \in 1..(i - 1) : Chain[j].role = Chain[i].over
    BY ChainLinks
<1>2. i \in 1..14 /\ j \in Links
    BY ChainLinks
<1>3. LinkOf(Chain[i].over) \in Links /\ Chain[LinkOf(Chain[i].over)].role = Chain[i].over
    BY <1>1, <1>2 DEF LinkOf
<1>4. LinkOf(Chain[i].over) = j
    BY <1>1, <1>2, <1>3, ChainLinks
<1> QED
    BY <1>1, <1>3, <1>4

\* A sailor stands where the first of their roles is.
LEMMA Stands ==
    ASSUME NEW s
    PROVE  /\ Standing(s) \in 0..14
           /\ Standing(s) # 0 => Standing(s) \in Links /\ Chain[Standing(s)].role \in PostsOf(s)
           /\ \A i \in Links : Chain[i].role \in PostsOf(s) => Standing(s) \in 1..i
<1> DEFINE has == {i \in Links : Chain[i].role \in PostsOf(s)}
<1>1. Standing(s) = IF has = {} THEN 0 ELSE Min(has)
    BY DEF Standing
<1>2. has \in SUBSET Nat /\ has \subseteq 1..14
    BY ChainLinks
<1>3. CASE has = {}
    BY <1>1, <1>3
<1>4. CASE has # {}
    <2>1. PICK k \in has : \A o \in has : k <= o
        BY <1>2, <1>4, Least
    <2>2. Min(has) \in has /\ \A o \in has : Min(has) <= o
        <3> HIDE DEF has
        <3> QED BY <2>1 DEF Min
    <2>3. Standing(s) = Min(has) /\ Standing(s) \in 1..14
        BY <1>1, <1>2, <1>4, <2>2
    <2>4. Standing(s) \in Links /\ Chain[Standing(s)].role \in PostsOf(s)
        BY <2>2, <2>3
    <2>5. \A i \in has : Standing(s) \in 1..i
        BY <1>2, <2>2, <2>3
    <2> QED
        BY <2>3, <2>4, <2>5
<1> QED
    BY <1>3, <1>4

\* Following the links from one that names an answer, or upwards.

Climbing(n, ends, answer, rise, f) ==
    f = [i \in 1..n |-> IF i \in ends THEN answer[i] ELSE f[rise[i]]]

LEMMA Climbs ==
    ASSUME NEW n \in Nat, NEW ends, NEW answer, NEW rise,
           \A i \in 1..n : i \notin ends => rise[i] \in 1..(i - 1)
    PROVE  \E f : Climbing(n, ends, answer, rise, f)
<1> DEFINE Upto(m, f) == f = [i \in 1..m |-> IF i \in ends THEN answer[i] ELSE f[rise[i]]]
           T == {m \in Nat : m <= n => \E f : Upto(m, f)}
<1>1. 0 \in T
    <2>1. Upto(0, [i \in 1..0 |-> 0])
        OBVIOUS
    <2> QED
        BY <2>1
<1>2. ASSUME NEW m \in T
      PROVE  m + 1 \in T
    <2> SUFFICES ASSUME m + 1 <= n
                 PROVE  \E f : Upto(m + 1, f)
        OBVIOUS
    <2>1. PICK f : Upto(m, f)
        OBVIOUS
    <2> DEFINE g == [i \in 1..(m + 1) |-> IF i = m + 1 THEN IF i \in ends THEN answer[i] ELSE f[rise[i]] ELSE f[i]]
    <2>2. ASSUME NEW i \in 1..(m + 1)
          PROVE  g[i] = IF i \in ends THEN answer[i] ELSE g[rise[i]]
        <3>1. i \notin ends => rise[i] \in 1..(i - 1)
            OBVIOUS
        <3>2. i \notin ends => g[rise[i]] = f[rise[i]]
            BY <3>1
        <3> QED
            BY <2>1, <3>1, <3>2
    <2>3. Upto(m + 1, g)
        BY <2>2
    <2> QED
        BY <2>3
<1>3. T = Nat
    BY <1>1, <1>2, AllNaturals
<1> QED
    BY <1>3 DEF Climbing

\* A function on the naturals up to n, each value made from the one before.
Built(n, X, x, G, f) ==
    f \in [0..n -> X] /\ f[0] = x /\ \A k \in 1..n : f[k] = G[k][f[k - 1]]

LEMMA Builds ==
    ASSUME NEW n \in Nat, NEW X, NEW x \in X, NEW G \in [1..n -> [X -> X]]
    PROVE  \E f : Built(n, X, x, G, f)
<1> DEFINE Upto(m) == \E f \in [0..m -> X] : f[0] = x /\ \A k \in 1..m : f[k] = G[k][f[k - 1]]
           T == {m \in Nat : m <= n => Upto(m)}
<1>1. 0 \in T
    <2> DEFINE f == [i \in 0..0 |-> x]
    <2>1. f \in [0..0 -> X] /\ f[0] = x /\ 1..0 = {}
        OBVIOUS
    <2> HIDE DEF f
    <2>2. Upto(0)
        BY <2>1
    <2> QED
        BY <2>2
<1>2. ASSUME NEW m \in T
      PROVE  m + 1 \in T
    <2>0. m + 1 \in Nat
        OBVIOUS
    <2> SUFFICES ASSUME m + 1 <= n
                 PROVE  Upto(m + 1)
        BY <2>0, Zenon
    <2>1. PICK f \in [0..m -> X] : f[0] = x /\ \A k \in 1..m : f[k] = G[k][f[k - 1]]
        OBVIOUS
    <2> DEFINE g == [i \in 0..(m + 1) |-> IF i = m + 1 THEN G[m + 1][f[m]] ELSE f[i]]
    <2>2. g \in [0..(m + 1) -> X] /\ g[0] = x
        <3>1. m + 1 \in 1..n /\ f[m] \in X
            OBVIOUS
        <3>2. G[m + 1][f[m]] \in X
            BY <3>1
        <3> QED
            BY <2>1, <3>2
    <2>3. ASSUME NEW k \in 1..(m + 1)
          PROVE  g[k] = G[k][g[k - 1]]
        <3>1. k = m + 1 \/ k \in 1..m
            OBVIOUS
        <3> QED
            BY <2>1, <3>1
    <2> HIDE DEF g
    <2> QED
        BY <2>2, <2>3
<1>3. T = Nat
    BY <1>1, <1>2, AllNaturals
<1> QED
    BY <1>3 DEF Built

\* An officer stands above those who answer to them.
LEMMA OfficersAbove ==
    ASSUME NEW s, Sailor \cap {Nobody, Unanswered} = {}
    PROVE  \A i \in Links :
             /\ OfficerAt(s)[i] \in Sailor \cup {Nobody, Unanswered}
             /\ OfficerAt(s)[i] \in Sailor => Standing(OfficerAt(s)[i]) \in 1..(i - 1)
             /\ Chain[i].over = Nobody => OfficerAt(s)[i] = Nobody
             /\ OfficerAt(s)[i] = Unanswered => roster.lost # {}
<1> DEFINE holders(i) == {m \in Sailor : Chain[i].over \in PostsOf(m) /\ Shares(s, m, Chain[i].within)}
           ends == {i \in Links : Chain[i].over = Nobody \/ Chain[i].over \in roster.lost \/ holders(i) # {}}
           answer == [i \in Links |-> IF Chain[i].over = Nobody THEN Nobody
                        ELSE IF Chain[i].over \in roster.lost THEN Unanswered ELSE CHOOSE m \in holders(i) : TRUE]
           rise == [i \in Links |-> LinkOf(Chain[i].over)]
           Above(f) == f = [i \in Links |-> IF Chain[i].over = Nobody THEN Nobody
                              ELSE IF Chain[i].over \in roster.lost THEN Unanswered
                              ELSE IF holders(i) # {} THEN CHOOSE m \in holders(i) : TRUE
                              ELSE f[LinkOf(Chain[i].over)]]
<1>1. \A i \in 1..14 : i \notin ends => rise[i] \in 1..(i - 1)
    <2> SUFFICES ASSUME NEW i \in 1..14, i \notin ends
                 PROVE  rise[i] \in 1..(i - 1)
        OBVIOUS
    <2>1. i \in Links /\ Chain[i].over # Nobody
        BY ChainLinks
    <2> QED
        BY <2>1, LinksRise
<1>2. PICK f : Climbing(14, ends, answer, rise, f)
    <2> HIDE DEF ends, answer, rise
    <2> QED
        BY <1>1, Climbs
<1>3. Above(f)
    <2>1. Links = 1..14
        BY ChainLinks
    <2>2. ASSUME NEW i \in Links
          PROVE  (IF i \in ends THEN answer[i] ELSE f[rise[i]])
                   = (IF Chain[i].over = Nobody THEN Nobody
                      ELSE IF Chain[i].over \in roster.lost THEN Unanswered
                      ELSE IF holders(i) # {} THEN CHOOSE m \in holders(i) : TRUE
                      ELSE f[LinkOf(Chain[i].over)])
        <3>1. CASE Chain[i].over = Nobody
            BY <3>1
        <3>4. CASE Chain[i].over # Nobody /\ Chain[i].over \in roster.lost
            <4>1. i \in ends /\ answer[i] = Unanswered
                BY <3>4
            <4> HIDE DEF ends, answer, rise, holders
            <4> QED
                BY <3>4, <4>1
        <3>2. CASE Chain[i].over # Nobody /\ Chain[i].over \notin roster.lost /\ holders(i) # {}
            <4>1. i \in ends
                BY <3>2
            <4>2. answer[i] = CHOOSE m \in holders(i) : TRUE
                BY <3>2
            <4> HIDE DEF ends, answer, rise, holders
            <4> QED
                BY <3>2, <4>1, <4>2
        <3>3. CASE Chain[i].over # Nobody /\ Chain[i].over \notin roster.lost /\ holders(i) = {}
            <4>1. i \notin ends /\ rise[i] = LinkOf(Chain[i].over)
                BY <3>3
            <4> HIDE DEF ends, answer, rise, holders
            <4> QED
                BY <3>3, <4>1
        <3> QED
            BY <3>1, <3>2, <3>3, <3>4
    <2> HIDE DEF ends, answer, rise, holders
    <2>3. f = [i \in Links |-> IF i \in ends THEN answer[i] ELSE f[rise[i]]]
        BY <1>2, <2>1 DEF Climbing
    <2> QED
        BY <2>2, <2>3
<1>4. Above(OfficerAt(s))
    <2>1. OfficerAt(s) = CHOOSE g : Above(g)
        BY Zenon DEF OfficerAt
    <2> HIDE DEF Above
    <2> QED
        BY <1>3, <2>1
<1> DEFINE Good(i) ==
             /\ OfficerAt(s)[i] \in Sailor \cup {Nobody, Unanswered}
             /\ OfficerAt(s)[i] \in Sailor => Standing(OfficerAt(s)[i]) \in 1..(i - 1)
             /\ Chain[i].over = Nobody => OfficerAt(s)[i] = Nobody
             /\ OfficerAt(s)[i] = Unanswered => roster.lost # {}
           T == {n \in Nat : \A i \in Links : i <= n => Good(i)}
<1>5. 0 \in T
    BY ChainLinks
<1>6. ASSUME NEW n \in T
      PROVE  n + 1 \in T
    <2> SUFFICES ASSUME NEW i \in Links, i = n + 1
                 PROVE  Good(i)
        BY ChainLinks
    <2>0. Nobody # Unanswered
        BY DEF Nobody, Unanswered
    <2>1. CASE Chain[i].over = Nobody
        BY <1>4, <2>0, <2>1
    <2>4. CASE Chain[i].over # Nobody /\ Chain[i].over \in roster.lost
        <3>1. OfficerAt(s)[i] = Unanswered
            BY <1>4, <2>4
        <3> QED
            BY <2>4, <3>1
    <2>2. CASE Chain[i].over # Nobody /\ Chain[i].over \notin roster.lost /\ holders(i) # {}
        <3>1. OfficerAt(s)[i] \in holders(i)
            BY <1>4, <2>2
        <3>2. LinkOf(Chain[i].over) \in 1..(i - 1) /\ LinkOf(Chain[i].over) \in Links
              /\ Chain[LinkOf(Chain[i].over)].role = Chain[i].over
            BY <2>2, LinksRise
        <3>3. Standing(OfficerAt(s)[i]) \in 1..LinkOf(Chain[i].over)
            BY <3>1, <3>2, Stands
        <3>4. i \in 1..14
            BY ChainLinks
        <3> QED
            BY <2>2, <3>1, <3>2, <3>3, <3>4
    <2>3. CASE Chain[i].over # Nobody /\ Chain[i].over \notin roster.lost /\ holders(i) = {}
        <3>1. LinkOf(Chain[i].over) \in 1..(i - 1) /\ LinkOf(Chain[i].over) \in Links
            BY <2>3, LinksRise
        <3>2. OfficerAt(s)[i] = OfficerAt(s)[LinkOf(Chain[i].over)]
            BY <1>4, <2>3
        <3>3. i \in 1..14
            BY ChainLinks
        <3> DEFINE j == LinkOf(Chain[i].over)
        <3> HIDE DEF j
        <3>4. j \in 1..(i - 1) /\ j \in Links /\ OfficerAt(s)[i] = OfficerAt(s)[j] /\ Good(j)
            BY <3>1, <3>2, <3>3 DEF j
        <3> QED
            BY <2>3, <3>3, <3>4
    <2> QED
        BY <2>1, <2>2, <2>3, <2>4
<1>7. T = Nat
    <2>1. T \in SUBSET Nat
        OBVIOUS
    <2> HIDE DEF T
    <2> QED
        BY <1>5, <1>6, <2>1, AllNaturals
<1> QED
    BY <1>7, ChainLinks

LEMMA ImmediateAbove ==
    ASSUME NEW s, Sailor \cap {Nobody, Unanswered} = {}
    PROVE  /\ Immediate(s) \in Sailor \cup {Nobody, Unanswered}
           /\ Immediate(s) \in Sailor => Standing(Immediate(s)) \in 1..(Standing(s) - 1)
           /\ Immediate(s) = Unanswered => roster.lost # {}
<1>1. Nobody # Unanswered
    BY DEF Nobody, Unanswered
<1> QED
    BY <1>1, Stands, OfficersAbove DEF Immediate

Answer == Sailor \cup {Nobody, Board, Unanswered, Endless}

\* Steps of a search over the sailors: s is answered in ends, or else by the
\* sailor next[s] with one step less; with none left the answer is first[s].
Searching(n, first, ends, answer, next, found) ==
    found = [k \in 0..n |-> [s \in Sailor |->
                IF k = 0 THEN first[s] ELSE IF s \in ends THEN answer[s] ELSE found[k - 1][next[s]]]]

LEMMA Searches ==
    ASSUME NEW n \in Nat, NEW first \in [Sailor -> Answer], NEW ends, NEW answer, NEW next,
           \A s \in Sailor : s \in ends => answer[s] \in Answer,
           \A s \in Sailor : s \notin ends => next[s] \in Sailor
    PROVE  \E found : Searching(n, first, ends, answer, next, found)
<1> DEFINE X == [Sailor -> Answer]
           Then == [f \in X |-> [s \in Sailor |-> IF s \in ends THEN answer[s] ELSE f[next[s]]]]
           G == [k \in 1..n |-> Then]
<1>1. first \in X
    OBVIOUS
<1>2. Then \in [X -> X] /\ G \in [1..n -> [X -> X]]
    <2> SUFFICES ASSUME NEW f \in X
                 PROVE  [s \in Sailor |-> IF s \in ends THEN answer[s] ELSE f[next[s]]] \in X
        OBVIOUS
    <2> QED
        OBVIOUS
<1>3. PICK f : Built(n, X, first, G, f)
    <2> HIDE DEF X, G
    <2> QED
        BY <1>1, <1>2, Builds
<1>6. f \in [0..n -> X] /\ f[0] = first /\ \A k \in 1..n : f[k] = Then[f[k - 1]]
    <2> HIDE DEF X, Then
    <2> QED
        BY <1>3 DEF Built
<1> DEFINE Line(k) == [s \in Sailor |->
                IF k = 0 THEN first[s] ELSE IF s \in ends THEN answer[s] ELSE f[k - 1][next[s]]]
<1>4. ASSUME NEW k \in 0..n
      PROVE  f[k] = Line(k)
    <2>1. CASE k = 0
        BY <1>6, <2>1
    <2>2. CASE k # 0
        <3>1. k \in 1..n /\ k - 1 \in 0..n
            BY <2>2
        <3>2. f[k - 1] \in X /\ f[k] = Then[f[k - 1]]
            <4> HIDE DEF X, Then
            <4> QED
                BY <1>6, <3>1
        <3>3. \A g \in X : Then[g] = [s \in Sailor |-> IF s \in ends THEN answer[s] ELSE g[next[s]]]
            OBVIOUS
        <3> HIDE DEF X, Then
        <3> QED
            BY <2>2, <3>1, <3>2, <3>3
    <2> QED
        BY <2>1, <2>2
<1>5. f = [k \in 0..n |-> Line(k)]
    <2> HIDE DEF X, Then, G, Line
    <2> QED
        BY <1>6, <1>4
<1> QED
    BY <1>5, Zenon DEF Searching

\* Induction over the steps of a search.
LEMMA ByStep ==
    ASSUME NEW n \in Nat, NEW Good \in SUBSET Nat, 0 \in Good,
           \A k \in 0..(n - 1) : k \in Good => k + 1 \in Good
    PROVE  n \in Good
<1> DEFINE T == {k \in Nat : k <= n => k \in Good}
<1>1. T \in SUBSET Nat /\ 0 \in T
    OBVIOUS
<1>2. \A k \in T : k + 1 \in T
    OBVIOUS
<1>3. T = Nat
    <2> HIDE DEF T
    <2> QED
        BY <1>1, <1>2, AllNaturals
<1> QED
    BY <1>3

Ranked(next) ==
    \A s \in Sailor : /\ next[s] \in Sailor \cup {Nobody, Unanswered}
                      /\ next[s] \in Sailor => Standing(next[s]) \in 1..(Standing(s) - 1)
                      /\ next[s] = Unanswered => roster.lost # {}

Off == [s \in Sailor |-> Immediate(s)]

LEMMA OffRanked == Ranked(Off)
<1>1. Sailor \cap {Nobody, Unanswered} = {}
    BY ChainAssumption
<1>2. ASSUME NEW s \in Sailor
      PROVE  /\ Off[s] \in Sailor \cup {Nobody, Unanswered}
             /\ Off[s] \in Sailor => Standing(Off[s]) \in 1..(Standing(s) - 1)
             /\ Off[s] = Unanswered => roster.lost # {}
    BY <1>1, ImmediateAbove DEF Off
<1> QED
    BY <1>2 DEF Ranked

\* Whoever acts for an officer is not on leave and stands above the sailor;
\* the search ends.
ActsFor(s, acting) ==
    /\ acting \in Sailor \cup {Nobody, Unanswered, Endless}
    /\ acting \in Sailor => /\ ~OnLoa2(acting) /\ Standing(acting) \in 1..(Standing(s) - 1)
                            /\ OnLoa2(Off[s]) \/ acting = Off[s]
    /\ acting = Nobody => Off[s] = Nobody \/ \E m \in Sailor : OnLoa2(m) /\ Off[m] = Nobody
    /\ acting = Unanswered => roster.lost # {}

LEMMA OfficerActs ==
    ASSUME NEW s \in Sailor, Off[s] \in {Nobody, Unanswered} \/ ~OnLoa2(Off[s])
    PROVE  ActsFor(s, Off[s]) /\ Off[s] # Endless
<1>0. /\ Sailor \cap {Nobody, Board, Unanswered, Endless} = {}
      /\ Nobody # Endless /\ Unanswered # Endless /\ Nobody # Unanswered
    BY ChainAssumption DEF Nobody, Unanswered, Endless
<1>1. /\ Off[s] \in Sailor \cup {Nobody, Unanswered}
      /\ Off[s] \in Sailor => Standing(Off[s]) \in 1..(Standing(s) - 1)
      /\ Off[s] = Unanswered => roster.lost # {}
    BY OffRanked DEF Ranked
<1>2. CASE Off[s] \in {Nobody, Unanswered}
    BY <1>0, <1>1, <1>2 DEF ActsFor
<1>3. CASE Off[s] \notin {Nobody, Unanswered}
    <2>1. Off[s] \in Sailor /\ ~OnLoa2(Off[s])
        BY <1>1, <1>3
    <2> QED
        BY <1>0, <1>1, <1>3, <2>1, Zenon DEF ActsFor
<1> QED
    BY <1>2, <1>3

LEMMA SomeoneActs ==
    /\ ActingIn \in [Sailor -> Sailor \cup {Nobody, Unanswered}]
    /\ \A s \in Sailor : ActsFor(s, ActingIn[s])
<1> DEFINE ends == {s \in Sailor : Off[s] \in {Nobody, Unanswered} \/ ~OnLoa2(Off[s])}
           Found(f) == f = [steps \in 0..Len(Chain) |-> [s \in Sailor |->
                              IF Off[s] \in {Nobody, Unanswered} \/ ~OnLoa2(Off[s]) THEN Off[s]
                              ELSE IF steps = 0 THEN Endless ELSE f[steps - 1][Off[s]]]]
           acting == CHOOSE f : Found(f)
<1>0. Sailor \cap {Nobody, Board, Unanswered, Endless} = {}
    BY ChainAssumption
<1>1. ActingIn = acting[14]
    <2>1. ActingIn = acting[Len(Chain)]
        BY Zenon DEF ActingIn, ActingFor, Off
    <2> QED
        BY <2>1, ChainLinks
<1>2. \A s \in Sailor : /\ Off[s] \in Sailor \cup {Nobody, Unanswered}
                        /\ Off[s] \in Sailor => Standing(Off[s]) \in 1..(Standing(s) - 1)
    BY OffRanked DEF Ranked
<1>3. Found(acting)
    <2>1. \A s \in Sailor : s \notin ends => Off[s] \in Sailor
        BY <1>2
    <2>2. \A s \in Sailor : s \in ends => Off[s] \in Answer
        BY <1>2 DEF Answer
    <2> DEFINE first == [s \in Sailor |-> IF s \in ends THEN Off[s] ELSE Endless]
    <2>3. PICK f : Searching(14, first, ends, Off, Off, f)
        <3>1. first \in [Sailor -> Answer]
            BY <2>2 DEF Answer
        <3> HIDE DEF ends, first
        <3> QED
            BY <2>1, <2>2, <3>1, Searches
    <2> DEFINE Row(k) == [s \in Sailor |->
                  IF k = 0 THEN first[s] ELSE IF s \in ends THEN Off[s] ELSE f[k - 1][Off[s]]]
               Line(k) == [s \in Sailor |->
                  IF Off[s] \in {Nobody, Unanswered} \/ ~OnLoa2(Off[s]) THEN Off[s]
                  ELSE IF k = 0 THEN Endless ELSE f[k - 1][Off[s]]]
    <2>7. \A k \in 0..14 : Row(k) = Line(k)
        OBVIOUS
    <2>8. f = [k \in 0..14 |-> Row(k)]
        BY <2>3, Zenon DEF Searching
    <2>9. f = [k \in 0..14 |-> Line(k)]
        <3> HIDE DEF Row, Line
        <3> QED
            BY <2>7, <2>8
    <2>6. Found(f)
        BY <2>9, ChainLinks, Zenon
    <2> HIDE DEF Found
    <2> QED
        BY <2>6
<1> HIDE DEF acting
<1>4. ASSUME NEW k \in 0..14
      PROVE  acting[k] = [s \in Sailor |->
                IF Off[s] \in {Nobody, Unanswered} \/ ~OnLoa2(Off[s]) THEN Off[s]
                ELSE IF k = 0 THEN Endless ELSE acting[k - 1][Off[s]]]
    <2>1. acting = [steps \in 0..14 |-> [s \in Sailor |->
              IF Off[s] \in {Nobody, Unanswered} \/ ~OnLoa2(Off[s]) THEN Off[s]
              ELSE IF steps = 0 THEN Endless ELSE acting[steps - 1][Off[s]]]]
        BY <1>3, ChainLinks, Zenon
    <2> HIDE DEF Found
    <2> QED
        BY <2>1
<1>10. ASSUME NEW k \in 0..14, NEW s \in Sailor
       PROVE  /\ Off[s] \in {Nobody, Unanswered} \/ ~OnLoa2(Off[s]) => acting[k][s] = Off[s]
              /\ Off[s] \notin {Nobody, Unanswered} /\ OnLoa2(Off[s]) =>
                   acting[k][s] = IF k = 0 THEN Endless ELSE acting[k - 1][Off[s]]
    BY <1>4
<1> HIDE DEF Found
<1> DEFINE Good == {k \in Nat : k \in 0..14 =>
                      \A s \in Sailor : /\ ActsFor(s, acting[k][s])
                                        /\ Standing(s) <= k + 1 => acting[k][s] # Endless}
<1>5. 0 \in Good
    <2> SUFFICES ASSUME NEW s \in Sailor
                 PROVE  /\ ActsFor(s, acting[0][s])
                        /\ Standing(s) <= 1 => acting[0][s] # Endless
        OBVIOUS
    <2>1. Standing(s) \in 0..14
        BY Stands
    <2>2. CASE Off[s] \in {Nobody, Unanswered} \/ ~OnLoa2(Off[s])
        <3>1. acting[0][s] = Off[s]
            BY <1>10, <2>2
        <3> QED
            BY <2>2, <3>1, OfficerActs
    <2>3. CASE Off[s] \notin {Nobody, Unanswered} /\ OnLoa2(Off[s])
        <3>1. acting[0][s] = Endless
            BY <1>10, <2>3
        <3>2. Endless \notin Sailor /\ Endless # Nobody /\ Endless # Unanswered
            BY <1>0 DEF Endless, Nobody, Unanswered
        <3> QED
            BY <1>2, <2>1, <2>3, <3>1, <3>2 DEF ActsFor
    <2> QED
        BY <2>2, <2>3
<1>6. ASSUME NEW k \in 0..(14 - 1), k \in Good
      PROVE  k + 1 \in Good
    <2> SUFFICES ASSUME NEW s \in Sailor
                 PROVE  /\ ActsFor(s, acting[k + 1][s])
                        /\ Standing(s) <= k + 2 => acting[k + 1][s] # Endless
        OBVIOUS
    <2>1. Standing(s) \in 0..14
        BY Stands
    <2>2. k + 1 \in 0..14 /\ k + 1 # 0 /\ (k + 1) - 1 = k
        OBVIOUS
    <2>3. CASE Off[s] \in {Nobody, Unanswered} \/ ~OnLoa2(Off[s])
        <3>1. acting[k + 1][s] = Off[s]
            BY <1>10, <2>2, <2>3
        <3> QED
            BY <2>3, <3>1, OfficerActs
    <2>4. CASE Off[s] \notin {Nobody, Unanswered} /\ OnLoa2(Off[s])
        <3>1. acting[k + 1][s] = acting[k][Off[s]]
            BY <1>10, <2>2, <2>4
        <3>2. Off[s] \in Sailor /\ Standing(Off[s]) \in 1..(Standing(s) - 1)
            BY <1>2, <2>4
        <3>3. /\ ActsFor(Off[s], acting[k][Off[s]])
              /\ Standing(Off[s]) <= k + 1 => acting[k][Off[s]] # Endless
            BY <1>6, <3>2
        <3>4. ActsFor(s, acting[k + 1][s])
            BY <2>1, <2>4, <3>1, <3>2, <3>3 DEF ActsFor
        <3>5. Standing(s) <= k + 2 => acting[k + 1][s] # Endless
            BY <2>1, <3>1, <3>2, <3>3
        <3> QED
            BY <3>4, <3>5
    <2> QED
        BY <2>3, <2>4
<1>7. 14 \in Good
    <2>1. Good \in SUBSET Nat
        OBVIOUS
    <2> HIDE DEF Good
    <2> QED
        BY <1>5, <1>6, <2>1, ByStep
<1>8. \A s \in Sailor : ActsFor(s, acting[14][s]) /\ acting[14][s] # Endless
    BY <1>7, Stands
<1>9. ActingIn = [s \in Sailor |-> acting[14][s]]
    <2>1. acting[14] = [s \in Sailor |->
                IF Off[s] \in {Nobody, Unanswered} \/ ~OnLoa2(Off[s]) THEN Off[s]
                ELSE IF 14 = 0 THEN Endless ELSE acting[14 - 1][Off[s]]]
        BY <1>4
    <2> QED
        BY <1>1, <2>1
<1> HIDE DEF Good
<1> QED
    BY <1>1, <1>8, <1>9 DEF ActsFor

\* Whoever is asked for an award may give it and is not on leave; the search
\* ends, at the Board or where nobody acts.
Asked(s, giver, able) ==
    /\ giver \in Sailor => able \cap PostsOf(giver) # {} /\ ~OnLoa2(giver)
    /\ giver = Board => \E m \in {s} \cup Sailor : "AOTN" \in PostsOf(m)
    /\ giver \in Sailor \cup {Board, Unanswered, Endless}

LEMMA SomeoneGives ==
    ASSUME NEW able
    PROVE  \A s \in Sailor : Asked(s, Giver(able)[s], able) /\ Giver(able)[s] # Endless
<1> DEFINE high == {s \in Sailor : "AOTN" \in PostsOf(s)}
           lone == {s \in Sailor : s \notin high /\ ActingIn[s] \in {Nobody, Unanswered}}
           near == {s \in Sailor : s \notin high \cup lone /\ able \cap PostsOf(ActingIn[s]) # {}}
           ends == high \cup lone \cup near
           answer == [s \in Sailor |-> IF s \in high THEN Board ELSE IF s \in lone THEN Unanswered ELSE ActingIn[s]]
           first == [s \in Sailor |-> IF s \in high THEN Board ELSE IF s \in lone THEN Unanswered ELSE Endless]
           AtStep(k, f) == [s \in Sailor |->
                IF "AOTN" \in PostsOf(s) THEN Board
                ELSE IF ActingIn[s] \in {Nobody, Unanswered} THEN Unanswered
                ELSE IF ActingIn[s] = Endless \/ k = 0 THEN Endless
                ELSE IF able \cap PostsOf(ActingIn[s]) # {} THEN ActingIn[s]
                ELSE f[k - 1][ActingIn[s]]]
           Found(f) == f = [steps \in 0..Len(Chain) |-> AtStep(steps, f)]
           giver == CHOOSE f : Found(f)
<1>0. /\ Sailor \cap {Nobody, Board, Unanswered, Endless} = {}
      /\ Nobody # Endless /\ Board # Endless /\ Unanswered # Endless /\ Board # Unanswered
    BY ChainAssumption DEF Nobody, Endless, Board, Unanswered
<1>1. Giver(able) = giver[14]
    <2>1. Giver(able) = giver[Len(Chain)]
        BY Zenon DEF Giver, GiverAmong
    <2> QED
        BY <2>1, ChainLinks
<1>2. ASSUME NEW s \in Sailor
      PROVE  /\ ActingIn[s] \in Sailor \cup {Nobody, Unanswered} /\ ActingIn[s] # Endless
             /\ ActingIn[s] \in Sailor => ~OnLoa2(ActingIn[s]) /\ Standing(ActingIn[s]) \in 1..(Standing(s) - 1)
    BY <1>0, SomeoneActs DEF ActsFor
<1>3. Found(giver)
    <2>1. \A s \in Sailor : s \notin ends => ActingIn[s] \in Sailor
        BY <1>2
    <2>2. \A s \in Sailor : s \in ends => answer[s] \in Answer
        BY <1>2 DEF Answer
    <2>3. first \in [Sailor -> Answer]
        BY DEF Answer
    <2>4. PICK f : Searching(14, first, ends, answer, ActingIn, f)
        <3> HIDE DEF ends, answer, first
        <3> QED
            BY <2>1, <2>2, <2>3, Searches
    <2> DEFINE Row(k) == [s \in Sailor |->
                  IF k = 0 THEN first[s] ELSE IF s \in ends THEN answer[s] ELSE f[k - 1][ActingIn[s]]]
    <2>5. ASSUME NEW k \in 0..14, NEW s \in Sailor
          PROVE  Row(k)[s] = AtStep(k, f)[s]
        <3>1. CASE s \in high
            BY <3>1
        <3>2. CASE s \in lone
            BY <3>2
        <3>3. CASE s \in near
            BY <1>2, <3>3
        <3>4. CASE s \notin ends
            BY <1>2, <3>4
        <3> QED
            BY <3>1, <3>2, <3>3, <3>4
    <2>6. \A k \in 0..14 : Row(k) = AtStep(k, f)
        BY <2>5
    <2>7. f = [k \in 0..14 |-> Row(k)]
        BY <2>4, Zenon DEF Searching
    <2>8. f = [k \in 0..14 |-> AtStep(k, f)]
        <3> HIDE DEF Row, AtStep
        <3> QED
            BY <2>6, <2>7
    <2>9. Found(f)
        BY <2>8, ChainLinks, Zenon
    <2> HIDE DEF Found
    <2> QED
        BY <2>9
<1> HIDE DEF giver
<1>4. ASSUME NEW k \in 0..14
      PROVE  giver[k] = AtStep(k, giver)
    <2>1. giver = [steps \in 0..14 |-> AtStep(steps, giver)]
        BY <1>3, ChainLinks, Zenon
    <2> HIDE DEF Found, AtStep
    <2> QED
        BY <2>1
<1> HIDE DEF Found
<1> DEFINE Good == {k \in Nat : k \in 0..14 =>
                      \A s \in Sailor : /\ Asked(s, giver[k][s], able)
                                        /\ Standing(s) <= k + 1 => giver[k][s] # Endless}
<1>5. ASSUME NEW k \in 0..14, NEW s \in Sailor, s \in high
      PROVE  Asked(s, giver[k][s], able) /\ giver[k][s] # Endless
    <2>1. giver[k][s] = Board
        BY <1>4, <1>5
    <2> QED
        BY <1>0, <1>5, <2>1 DEF Asked
<1>6. ASSUME NEW k \in 0..14, NEW s \in Sailor, s \in lone
      PROVE  Asked(s, giver[k][s], able) /\ giver[k][s] # Endless
    <2>1. giver[k][s] = Unanswered
        BY <1>4, <1>6
    <2> QED
        BY <1>0, <2>1 DEF Asked
<1>7. 0 \in Good
    <2> SUFFICES ASSUME NEW s \in Sailor, s \notin high, s \notin lone
                 PROVE  /\ Asked(s, giver[0][s], able)
                        /\ Standing(s) <= 1 => giver[0][s] # Endless
        BY <1>5, <1>6
    <2>1. giver[0][s] = Endless
        BY <1>4
    <2>2. ActingIn[s] \in Sailor /\ Standing(ActingIn[s]) \in 1..(Standing(s) - 1) /\ Standing(s) \in 0..14
        BY <1>2, Stands
    <2> QED
        BY <1>0, <2>1, <2>2 DEF Asked
<1>8. ASSUME NEW k \in 0..(14 - 1), k \in Good
      PROVE  k + 1 \in Good
    <2> SUFFICES ASSUME NEW s \in Sailor, s \notin high, s \notin lone
                 PROVE  /\ Asked(s, giver[k + 1][s], able)
                        /\ Standing(s) <= k + 2 => giver[k + 1][s] # Endless
        BY <1>5, <1>6
    <2>1. ActingIn[s] \in Sailor /\ Standing(ActingIn[s]) \in 1..(Standing(s) - 1) /\ Standing(s) \in 0..14
          /\ ~OnLoa2(ActingIn[s])
        BY <1>2, Stands
    <2>2. k + 1 \in 0..14 /\ k + 1 # 0 /\ (k + 1) - 1 = k
        OBVIOUS
    <2>3. CASE s \in near
        <3>1. giver[k + 1][s] = ActingIn[s]
            BY <1>2, <1>4, <2>2, <2>3
        <3>2. able \cap PostsOf(ActingIn[s]) # {}
            BY <2>3
        <3> QED
            BY <1>0, <2>1, <3>1, <3>2 DEF Asked
    <2>4. CASE s \notin near
        <3>1. giver[k + 1][s] = giver[k][ActingIn[s]]
            BY <1>2, <1>4, <2>2, <2>4
        <3>2. /\ Asked(ActingIn[s], giver[k][ActingIn[s]], able)
              /\ Standing(ActingIn[s]) <= k + 1 => giver[k][ActingIn[s]] # Endless
            BY <1>8, <2>1
        <3>3. Asked(s, giver[k + 1][s], able)
            BY <2>1, <3>1, <3>2 DEF Asked
        <3>4. Standing(s) <= k + 2 => giver[k + 1][s] # Endless
            BY <2>1, <3>1, <3>2
        <3> QED
            BY <3>3, <3>4
    <2> QED
        BY <2>3, <2>4
<1>9. 14 \in Good
    <2>1. Good \in SUBSET Nat
        OBVIOUS
    <2> HIDE DEF Good
    <2> QED
        BY <1>7, <1>8, <2>1, ByStep
<1>10. \A s \in Sailor : Standing(s) <= 14 + 1
    BY Stands
<1> QED
    BY <1>1, <1>9, <1>10

LEMMA ChainDoesHold == \A able : ChainHolds(able)
<1> SUFFICES ASSUME NEW able, NEW s \in Sailor
             PROVE  /\ Immediate(s) \in Sailor => Standing(Immediate(s)) \in 1..(Standing(s) - 1)
                    /\ ActingIn[s] \in Sailor =>
                         /\ ~OnLoa2(ActingIn[s]) /\ Standing(ActingIn[s]) \in 1..(Standing(s) - 1)
                         /\ OnLoa2(Immediate(s)) \/ ActingIn[s] = Immediate(s)
                    /\ ActingIn[s] = Nobody => \/ Immediate(s) = Nobody
                                               \/ \E m \in Sailor : OnLoa2(m) /\ Immediate(m) = Nobody
                    /\ Unanswered \in {Immediate(s), ActingIn[s]} => roster.lost # {}
                    /\ Giver(able)[s] \in Sailor =>
                         able \cap PostsOf(Giver(able)[s]) # {} /\ ~OnLoa2(Giver(able)[s])
                    /\ Giver(able)[s] = Board => \E m \in {s} \cup Sailor : "AOTN" \in PostsOf(m)
                    /\ ActingIn[s] # Endless /\ Giver(able)[s] # Endless
    BY DEF ChainHolds
<1>0. Endless \notin Sailor /\ Nobody # Endless /\ Unanswered # Endless
    BY ChainAssumption DEF Nobody, Endless, Unanswered
<1>1. \A m \in Sailor : Off[m] = Immediate(m)
    BY DEF Off
<1>2. /\ Immediate(s) \in Sailor => Standing(Immediate(s)) \in 1..(Standing(s) - 1)
      /\ Immediate(s) = Unanswered => roster.lost # {}
    BY <1>1, OffRanked DEF Ranked
<1>3. ActsFor(s, ActingIn[s]) /\ ActingIn[s] # Endless
    <2>1. ActsFor(s, ActingIn[s]) /\ ActingIn \in [Sailor -> Sailor \cup {Nobody, Unanswered}]
        BY SomeoneActs
    <2>2. ActingIn[s] \in Sailor \cup {Nobody, Unanswered}
        BY <2>1
    <2> QED
        BY <1>0, <2>1, <2>2
<1>4. Asked(s, Giver(able)[s], able) /\ Giver(able)[s] # Endless
    BY SomeoneGives
<1> QED
    BY <1>1, <1>2, <1>3, <1>4 DEF ActsFor, Asked

-----------------------------------------------------------------------------
(***************************************************************************)
(* Sequences: the elements of one that are in a set, and several joined.   *)
(***************************************************************************)
LEMMA PicksSome ==
    ASSUME NEW X, NEW s \in Seq(X), NEW set
    PROVE  \E f : /\ f \in [0..Len(s) -> Seq(X)] /\ f[0] = <<>> /\ Among(s, set) = f[Len(s)]
                  /\ \A i \in 1..Len(s) : f[i] = IF s[i] \in set THEN Append(f[i - 1], s[i]) ELSE f[i - 1]
<1> DEFINE n == Len(s)
           G == [i \in 1..n |-> [q \in Seq(X) |-> IF s[i] \in set THEN Append(q, s[i]) ELSE q]]
           Picked(f) == f = [i \in 0..Len(s) |->
                IF i = 0 THEN <<>> ELSE IF s[i] \in set THEN Append(f[i - 1], s[i]) ELSE f[i - 1]]
           picked == CHOOSE f : Picked(f)
<1>1. n \in Nat /\ \A i \in 1..n : s[i] \in X
    OBVIOUS
<1>2. <<>> \in Seq(X) /\ G \in [1..n -> [Seq(X) -> Seq(X)]]
    BY <1>1
<1>3. PICK f : Built(n, Seq(X), <<>>, G, f)
    <2> HIDE DEF G, n
    <2> QED
        BY <1>1, <1>2, Builds
<1>4. \A q \in Seq(X), i \in 1..n : G[i][q] = IF s[i] \in set THEN Append(q, s[i]) ELSE q
    OBVIOUS
<1>5. f \in [0..n -> Seq(X)] /\ f[0] = <<>> /\ \A i \in 1..n : f[i] = G[i][f[i - 1]]
    <2> HIDE DEF G, n
    <2> QED
        BY <1>3 DEF Built
<1>6. \A i \in 1..n : f[i] = IF s[i] \in set THEN Append(f[i - 1], s[i]) ELSE f[i - 1]
    <2> SUFFICES ASSUME NEW i \in 1..n
                 PROVE  f[i] = IF s[i] \in set THEN Append(f[i - 1], s[i]) ELSE f[i - 1]
        OBVIOUS
    <2>1. i - 1 \in 0..n
        BY <1>1
    <2>2. f[i - 1] \in Seq(X)
        BY <1>5, <2>1
    <2> HIDE DEF G, n
    <2> QED
        BY <1>4, <1>5, <2>2
<1>7. Picked(f)
    <2>1. ASSUME NEW i \in 0..n
          PROVE  f[i] = IF i = 0 THEN <<>> ELSE IF s[i] \in set THEN Append(f[i - 1], s[i]) ELSE f[i - 1]
        <3>1. i = 0 \/ i \in 1..n
            BY <1>1
        <3> QED
            BY <1>5, <1>6, <3>1
    <2>2. f = [i \in 0..n |-> f[i]]
        BY <1>5
    <2> HIDE DEF G
    <2> QED
        BY <2>1, <2>2
<1>8. Picked(picked)
    <2> HIDE DEF Picked
    <2> QED
        BY <1>7
<1>9. Among(s, set) = picked[Len(s)]
    BY Zenon DEF Among
<1>18. \A i \in 0..n : picked[i] =
         IF i = 0 THEN <<>> ELSE IF s[i] \in set THEN Append(picked[i - 1], s[i]) ELSE picked[i - 1]
    <2> HIDE DEF picked
    <2> QED
        BY <1>8
<1> HIDE DEF picked, Picked
<1>10. \A i \in 1..n : picked[i] = IF s[i] \in set THEN Append(picked[i - 1], s[i]) ELSE picked[i - 1]
    <2>1. \A i \in 1..n : i \in 0..n /\ i # 0
        BY <1>1
    <2> HIDE DEF n
    <2> QED
        BY <1>18, <2>1
<1>11. picked[0] = <<>>
    <2>1. 0 \in 0..n
        BY <1>1
    <2> QED
        BY <1>18, <2>1
<1> DEFINE T == {i \in Nat : i <= n => picked[i] \in Seq(X)}
<1>12. 0 \in T
    BY <1>2, <1>11
<1>13. ASSUME NEW i \in T
       PROVE  i + 1 \in T
    <2> SUFFICES ASSUME i + 1 <= n
                 PROVE  picked[i + 1] \in Seq(X)
        OBVIOUS
    <2>1. i + 1 \in 1..n /\ (i + 1) - 1 = i /\ picked[i] \in Seq(X) /\ s[i + 1] \in X
        BY <1>1
    <2>2. Append(picked[i], s[i + 1]) \in Seq(X)
        BY <2>1
    <2>3. picked[i + 1] = IF s[i + 1] \in set THEN Append(picked[i], s[i + 1]) ELSE picked[i]
        BY <1>10, <2>1
    <2> QED
        BY <2>1, <2>2, <2>3
<1>14. T = Nat
    <2> HIDE DEF picked, n
    <2> QED
        BY <1>12, <1>13, AllNaturals
<1>15. \A i \in 0..n : picked[i] \in Seq(X)
    <2> HIDE DEF picked
    <2> QED
        BY <1>1, <1>14
<1>16. picked = [i \in 0..n |-> picked[i]]
    BY <1>8 DEF Picked
<1>17. picked \in [0..Len(s) -> Seq(X)]
    <2> HIDE DEF picked
    <2> QED
        BY <1>15, <1>16
<1> HIDE DEF picked
<1> QED
    BY <1>9, <1>10, <1>11, <1>17

LEMMA AmongPicks ==
    ASSUME NEW X, NEW s \in Seq(X), NEW set
    PROVE  /\ Among(s, set) \in Seq(X)
           /\ \A k \in DOMAIN Among(s, set) :
                Among(s, set)[k] \in set /\ \E i \in DOMAIN s : Among(s, set)[k] = s[i]
           /\ \A i \in DOMAIN s : s[i] \in set => \E k \in DOMAIN Among(s, set) : Among(s, set)[k] = s[i]
           /\ IsInjective(s) => IsInjective(Among(s, set))
<1> DEFINE n == Len(s)
<1>1. n \in Nat /\ DOMAIN s = 1..n /\ \A i \in 1..n : s[i] \in X
    OBVIOUS
<1>2. PICK f : /\ f \in [0..n -> Seq(X)] /\ f[0] = <<>> /\ Among(s, set) = f[n]
               /\ \A i \in 1..n : f[i] = IF s[i] \in set THEN Append(f[i - 1], s[i]) ELSE f[i - 1]
    BY PicksSome
<1> HIDE DEF n
<1> DEFINE Good(m) ==
        /\ \A k \in 1..Len(f[m]) : f[m][k] \in set /\ \E i \in 1..m : f[m][k] = s[i]
        /\ \A i \in 1..m : s[i] \in set => \E k \in 1..Len(f[m]) : f[m][k] = s[i]
        /\ IsInjective(s) => \A k, l \in 1..Len(f[m]) : f[m][k] = f[m][l] => k = l
           T == {m \in Nat : m <= n => Good(m)}
<1>3. 0 \in T
    BY <1>2
<1>4. ASSUME NEW m \in T
      PROVE  m + 1 \in T
    <2>0. m + 1 \in Nat /\ m \in Nat
        OBVIOUS
    <2> SUFFICES ASSUME m + 1 <= n
                 PROVE  Good(m + 1)
        BY <2>0, Zenon
    <2>9. m <= n /\ m + 1 \in 1..n /\ (m + 1) - 1 = m /\ m \in 0..n
        BY <1>1, <2>0
    <2>10. Good(m)
        BY <2>9, Zenon
    <2>11. /\ \A k \in 1..Len(f[m]) : f[m][k] \in set /\ \E i \in 1..m : f[m][k] = s[i]
           /\ \A i \in 1..m : s[i] \in set => \E k \in 1..Len(f[m]) : f[m][k] = s[i]
           /\ IsInjective(s) => \A k, l \in 1..Len(f[m]) : f[m][k] = f[m][l] => k = l
        BY <2>10
    <2>1. m + 1 \in 1..n /\ (m + 1) - 1 = m /\ m \in 0..n /\ m \in Nat /\ \A i \in 1..m : i \in 1..(m + 1) /\ i \in 1..n /\ i # m + 1
        BY <1>1, <2>0, <2>9
    <2>2. f[m] \in Seq(X) /\ Len(f[m]) \in Nat /\ s[m + 1] \in X
        BY <1>1, <1>2, <2>1
    <2>3. CASE s[m + 1] \notin set
        <3>1. f[m + 1] = f[m]
            BY <1>2, <2>1, <2>3
        <3>2. \A i \in 1..(m + 1) : i = m + 1 \/ i \in 1..m
            OBVIOUS
        <3>3. \A k \in 1..Len(f[m]) : f[m + 1][k] \in set /\ \E i \in 1..(m + 1) : f[m + 1][k] = s[i]
            BY <2>1, <2>11, <3>1
        <3>4. \A i \in 1..(m + 1) : s[i] \in set => \E k \in 1..Len(f[m]) : f[m + 1][k] = s[i]
            BY <2>1, <2>3, <2>11, <3>1, <3>2
        <3> QED
            BY <2>11, <3>1, <3>3, <3>4
    <2>4. CASE s[m + 1] \in set
        <3> DEFINE l == Len(f[m])
        <3>1. f[m + 1] = Append(f[m], s[m + 1])
            BY <1>2, <2>1, <2>4
        <3>2. /\ Len(f[m + 1]) = l + 1 /\ f[m + 1][l + 1] = s[m + 1]
              /\ \A k \in 1..l : f[m + 1][k] = f[m][k]
            BY <2>2, <3>1
        <3> HIDE DEF l
        <3>3. l \in Nat /\ 1..Len(f[m]) = 1..l
            BY <2>2 DEF l
        <3>4. \A i \in 1..(m + 1) : i = m + 1 \/ i \in 1..m
            OBVIOUS
        <3>5. \A k \in 1..(l + 1) : k = l + 1 \/ k \in 1..l
            BY <3>3
        <3>6. \A k \in 1..Len(f[m + 1]) : f[m + 1][k] \in set /\ \E i \in 1..(m + 1) : f[m + 1][k] = s[i]
            <4> SUFFICES ASSUME NEW k \in 1..(l + 1)
                         PROVE  f[m + 1][k] \in set /\ \E i \in 1..(m + 1) : f[m + 1][k] = s[i]
                BY <3>2
            <4>1. CASE k = l + 1
                BY <2>1, <2>4, <3>2, <4>1
            <4>2. CASE k \in 1..l
                BY <2>1, <2>11, <3>2, <3>3, <4>2
            <4> QED
                BY <3>5, <4>1, <4>2
        <3>7. \A i \in 1..(m + 1) : s[i] \in set => \E k \in 1..Len(f[m + 1]) : f[m + 1][k] = s[i]
            <4> SUFFICES ASSUME NEW i \in 1..(m + 1), s[i] \in set
                         PROVE  \E k \in 1..(l + 1) : f[m + 1][k] = s[i]
                BY <3>2
            <4>1. CASE i = m + 1
                BY <3>2, <3>3, <4>1
            <4>2. CASE i \in 1..m
                <5>1. PICK k \in 1..l : f[m][k] = s[i]
                    BY <2>11, <3>3, <4>2
                <5> QED
                    BY <3>2, <3>3, <5>1
            <4> QED
                BY <3>4, <4>1, <4>2
        <3>8. ASSUME IsInjective(s), NEW k \in 1..(l + 1), NEW j \in 1..(l + 1), f[m + 1][k] = f[m + 1][j]
              PROVE  k = j
            <4>1. \A i \in 1..m : s[i] # s[m + 1]
                BY <1>1, <2>1, <3>8 DEF IsInjective
            <4>2. \A i \in 1..l : f[m][i] # s[m + 1]
                BY <2>11, <3>3, <4>1
            <4> QED
                BY <2>11, <3>2, <3>3, <3>5, <3>8, <4>2
        <3> QED
            BY <3>2, <3>6, <3>7, <3>8
    <2> QED
        BY <2>3, <2>4
<1>5. T = Nat
    <2>1. T \in SUBSET Nat
        OBVIOUS
    <2> HIDE DEF T
    <2> QED
        BY <1>3, <1>4, <2>1, AllNaturals
<1>6. Good(n)
    <2>1. n \in T
        <3> HIDE DEF T
        <3> QED
            BY <1>1, <1>5
    <2>2. n <= n
        BY <1>1
    <2> QED
        BY <2>1, <2>2, Zenon
<1>8. f[n] \in Seq(X) /\ DOMAIN f[n] = 1..Len(f[n])
    BY <1>1, <1>2
<1> HIDE DEF Good
<1>7. Good(n) => /\ \A k \in 1..Len(f[n]) : f[n][k] \in set /\ \E i \in 1..n : f[n][k] = s[i]
                 /\ \A i \in 1..n : s[i] \in set => \E k \in 1..Len(f[n]) : f[n][k] = s[i]
                 /\ IsInjective(s) => \A k, l \in 1..Len(f[n]) : f[n][k] = f[n][l] => k = l
    BY DEF Good
<1>9. IsInjective(s) => IsInjective(f[n])
    BY <1>6, <1>7, <1>8 DEF IsInjective
<1>10. Among(s, set) = f[n]
    BY <1>2
<1>11. \A k \in DOMAIN f[n] : f[n][k] \in set /\ \E i \in DOMAIN s : f[n][k] = s[i]
    BY <1>1, <1>6, <1>7, <1>8
<1>12. \A i \in DOMAIN s : s[i] \in set => \E k \in DOMAIN f[n] : f[n][k] = s[i]
    BY <1>1, <1>6, <1>7, <1>8
<1> QED
    BY <1>8, <1>9, <1>10, <1>11, <1>12

\* Sequences joined one after the other.
LEMMA JoinsAll ==
    ASSUME NEW X, NEW ss \in Seq(Seq(X))
    PROVE  \E f : /\ f \in [0..Len(ss) -> Seq(X)] /\ f[0] = <<>> /\ FlattenSeq(ss) = f[Len(ss)]
                  /\ \A i \in 1..Len(ss) : f[i] = f[i - 1] \o ss[i]
<1> DEFINE n == Len(ss)
           G == [i \in 1..n |-> [q \in Seq(X) |-> q \o ss[i]]]
           Joined1(f) == f = [i \in 1..Len(ss) |-> IF i = 1 THEN ss[i] ELSE f[i - 1] \o ss[i]]
           joined == CHOOSE f : Joined1(f)
<1>1. n \in Nat /\ \A i \in 1..n : ss[i] \in Seq(X)
    OBVIOUS
<1>2. <<>> \in Seq(X) /\ G \in [1..n -> [Seq(X) -> Seq(X)]]
    BY <1>1
<1>3. PICK f : Built(n, Seq(X), <<>>, G, f)
    <2> HIDE DEF G, n
    <2> QED
        BY <1>1, <1>2, Builds
<1>4. \A q \in Seq(X), i \in 1..n : G[i][q] = q \o ss[i]
    OBVIOUS
<1>5. f \in [0..n -> Seq(X)] /\ f[0] = <<>> /\ \A i \in 1..n : f[i] = G[i][f[i - 1]]
    <2> HIDE DEF G, n
    <2> QED
        BY <1>3 DEF Built
<1>6. ASSUME NEW i \in 1..n
      PROVE  f[i] = f[i - 1] \o ss[i]
    <2>1. i - 1 \in 0..n
        BY <1>1
    <2>2. f[i - 1] \in Seq(X)
        BY <1>5, <2>1
    <2> HIDE DEF G, n
    <2> QED
        BY <1>4, <1>5, <2>2
<1> DEFINE tailed == [i \in 1..n |-> f[i]]
<1>7. Joined1(tailed)
    <2>1. ASSUME NEW i \in 1..n
          PROVE  tailed[i] = IF i = 1 THEN ss[i] ELSE tailed[i - 1] \o ss[i]
        <3>1. CASE i = 1
            <4>1. i - 1 = 0
                BY <3>1
            <4>2. <<>> \o ss[i] = ss[i]
                BY <1>1
            <4>4. f[i] = f[i - 1] \o ss[i]
                BY <1>6, Zenon
            <4>3. f[i] = <<>> \o ss[i]
                BY <1>5, <4>1, <4>4, Zenon
            <4> QED
                BY <3>1, <4>2, <4>3
        <3>2. CASE i # 1
            <4>1. i - 1 \in 1..n
                BY <1>1, <3>2
            <4> QED
                BY <1>6, <3>2, <4>1
        <3> QED
            BY <3>1, <3>2
    <2>2. tailed = [i \in 1..n |-> tailed[i]]
        OBVIOUS
    <2> HIDE DEF tailed
    <2> QED
        BY <2>1, <2>2
<1>8. Joined1(joined)
    <2> HIDE DEF Joined1, tailed
    <2> QED
        BY <1>7
<1> HIDE DEF joined
<1> DEFINE g == [i \in 0..n |-> IF i = 0 THEN <<>> ELSE joined[i]]
<1>9. \A i \in 1..n : joined[i] = IF i = 1 THEN ss[i] ELSE joined[i - 1] \o ss[i]
    BY <1>8
<1> HIDE DEF Joined1
<1> DEFINE T == {i \in Nat : i <= n => g[i] \in Seq(X)}
<1>10. 0 \in T
    BY <1>1, <1>2
<1>11. ASSUME NEW i \in T
       PROVE  i + 1 \in T
    <2> SUFFICES ASSUME i + 1 <= n
                 PROVE  g[i + 1] \in Seq(X)
        OBVIOUS
    <2>1. i + 1 \in 1..n /\ i \in 0..n /\ (i + 1) - 1 = i /\ g[i] \in Seq(X) /\ ss[i + 1] \in Seq(X)
        BY <1>1
    <2>2. CASE i = 0
        BY <1>9, <2>1, <2>2
    <2>3. CASE i # 0
        <3>2. i + 1 # 1 /\ i + 1 \in 0..n /\ i + 1 # 0
            BY <2>1, <2>3
        <3>3. g[i + 1] = joined[i + 1] /\ g[i] = joined[i]
            BY <2>1, <2>3, <3>2
        <3>4. joined[i + 1] = joined[i] \o ss[i + 1]
            BY <1>9, <2>1, <3>2
        <3>1. g[i + 1] = g[i] \o ss[i + 1]
            BY <3>3, <3>4
        <3> HIDE DEF g
        <3> QED
            BY <2>1, <3>1
    <2> QED
        BY <2>2, <2>3
<1>12. T = Nat
    <2> HIDE DEF g, n
    <2> QED
        BY <1>10, <1>11, AllNaturals
<1>13. \A i \in 0..n : g[i] \in Seq(X)
    <2> HIDE DEF g
    <2> QED
        BY <1>1, <1>12
<1>14. g \in [0..n -> Seq(X)] /\ g[0] = <<>>
    <2>1. g = [i \in 0..n |-> g[i]] /\ g[0] = <<>>
        BY <1>1
    <2> HIDE DEF g
    <2> QED
        BY <1>13, <2>1
<1>15. ASSUME NEW i \in 1..n
       PROVE  g[i] = g[i - 1] \o ss[i]
    <2>1. CASE i = 1
        <3>1. joined[i] = ss[i] /\ ss[i] \in Seq(X)
            BY <1>1, <1>9, <2>1
        <3>2. g[i] = joined[i] /\ g[i - 1] = <<>>
            BY <1>1, <2>1
        <3>3. <<>> \o ss[i] = ss[i]
            BY <3>1
        <3> HIDE DEF g
        <3> QED
            BY <3>1, <3>2, <3>3
    <2>2. CASE i # 1
        <3>1. joined[i] = joined[i - 1] \o ss[i]
            BY <1>9, <2>2
        <3>2. i \in 0..n /\ i # 0 /\ i - 1 \in 0..n /\ i - 1 # 0
            BY <1>1, <2>2
        <3>3. g[i] = joined[i] /\ g[i - 1] = joined[i - 1]
            BY <3>2
        <3> HIDE DEF g
        <3> QED
            BY <3>1, <3>3
    <2> QED
        BY <2>1, <2>2
<1>16. FlattenSeq(ss) = g[n]
    <2>1. CASE n = 0
        <3>1. ss = <<>> /\ FlattenSeq(ss) = ss
            BY <2>1 DEF FlattenSeq
        <3> QED
            BY <1>14, <2>1, <3>1
    <2>2. CASE n # 0
        <3>1. FlattenSeq(ss) = joined[n]
            BY <2>2, Zenon DEF FlattenSeq, joined, Joined1
        <3>2. n \in 0..n
            BY <1>1
        <3> QED
            BY <2>2, <3>1, <3>2
    <2> QED
        BY <2>1, <2>2
<1> HIDE DEF g
<1> QED
    BY <1>14, <1>15, <1>16

\* at[i] elements come before those of the i-th sequence.
Places(ss, flat, at) ==
    /\ at \in [1..Len(ss) -> Nat]
    /\ \A i \in 1..Len(ss) : \A k \in 1..Len(ss[i]) :
         at[i] + k \in 1..Len(flat) /\ flat[at[i] + k] = ss[i][k]
    /\ \A p \in 1..Len(flat) : \E i \in 1..Len(ss) : \E k \in 1..Len(ss[i]) : p = at[i] + k
    /\ \A i, j \in 1..Len(ss) : i < j => at[i] + Len(ss[i]) <= at[j]

LEMMA FlatPlaces ==
    ASSUME NEW X, NEW ss \in Seq(Seq(X))
    PROVE  FlattenSeq(ss) \in Seq(X) /\ \E at : Places(ss, FlattenSeq(ss), at)
<1> DEFINE n == Len(ss)
<1>1. n \in Nat /\ \A i \in 1..n : ss[i] \in Seq(X) /\ Len(ss[i]) \in Nat
    OBVIOUS
<1>2. PICK f : /\ f \in [0..n -> Seq(X)] /\ f[0] = <<>> /\ FlattenSeq(ss) = f[n]
               /\ \A i \in 1..n : f[i] = f[i - 1] \o ss[i]
    BY JoinsAll
<1> HIDE DEF n
<1> DEFINE at == [i \in 1..n |-> Len(f[i - 1])]
<1>3. \A i \in 0..n : f[i] \in Seq(X) /\ Len(f[i]) \in Nat
    BY <1>2
<1>4. at \in [1..n -> Nat]
    <2>1. \A i \in 1..n : i - 1 \in 0..n
        BY <1>1
    <2> QED
        BY <1>3, <2>1
<1>5. \A i \in 1..n : at[i] = Len(f[i - 1])
    OBVIOUS
<1> HIDE DEF at
<1> DEFINE Good(m) ==
        /\ \A i \in 1..m : at[i] + Len(ss[i]) <= Len(f[m])
        /\ \A i \in 1..m : \A k \in 1..Len(ss[i]) : f[m][at[i] + k] = ss[i][k]
        /\ \A p \in 1..Len(f[m]) : \E i \in 1..m : \E k \in 1..Len(ss[i]) : p = at[i] + k
        /\ \A i, j \in 1..m : i < j => at[i] + Len(ss[i]) <= at[j]
           T == {m \in Nat : m <= n => Good(m)}
<1>6. 0 \in T
    BY <1>2
<1>7. ASSUME NEW m \in T
      PROVE  m + 1 \in T
    <2>0. m + 1 \in Nat /\ m \in Nat
        OBVIOUS
    <2> SUFFICES ASSUME m + 1 <= n
                 PROVE  Good(m + 1)
        BY <2>0, Zenon
    <2>1. m <= n /\ m + 1 \in 1..n /\ (m + 1) - 1 = m /\ m \in 0..n /\ m + 1 \in 0..n
        BY <1>1, <2>0
    <2>2. Good(m)
        BY <2>1, Zenon
    <2>3. /\ \A i \in 1..m : at[i] + Len(ss[i]) <= Len(f[m])
          /\ \A i \in 1..m : \A k \in 1..Len(ss[i]) : f[m][at[i] + k] = ss[i][k]
          /\ \A p \in 1..Len(f[m]) : \E i \in 1..m : \E k \in 1..Len(ss[i]) : p = at[i] + k
          /\ \A i, j \in 1..m : i < j => at[i] + Len(ss[i]) <= at[j]
        BY <2>2
    <2> DEFINE l == Len(f[m])  o == Len(ss[m + 1])
    <2>4. l \in Nat /\ o \in Nat /\ at[m + 1] = l
        BY <1>1, <1>3, <1>5, <2>1
    <2>5. /\ Len(f[m + 1]) = l + o
          /\ \A p \in 1..l : f[m + 1][p] = f[m][p]
          /\ \A k \in 1..o : f[m + 1][l + k] = ss[m + 1][k]
        <3>1. f[m + 1] = f[m] \o ss[m + 1]
            BY <1>2, <2>1
        <3>2. f[m] \in Seq(X) /\ ss[m + 1] \in Seq(X)
            BY <1>1, <1>3, <2>1
        <3> DEFINE a == f[m]  b == ss[m + 1]
        <3>3. a \in Seq(X) /\ b \in Seq(X) /\ f[m + 1] = a \o b /\ l = Len(a) /\ o = Len(b)
            BY <3>1, <3>2
        <3> HIDE DEF a, b, l, o
        <3>4. Len(f[m + 1]) = l + o
            BY <3>3
        <3>5. \A p \in 1..l : f[m + 1][p] = a[p]
            BY <3>3
        <3>6. \A k \in 1..o : f[m + 1][l + k] = b[k]
            <4> SUFFICES ASSUME NEW k \in 1..o
                         PROVE  (a \o b)[l + k] = b[k]
                BY <3>3
            <4>1. l + k \in 1..(Len(a) + Len(b)) /\ ~(l + k <= Len(a)) /\ (l + k) - Len(a) = k
                BY <2>4, <3>3
            <4> QED
                BY <3>3, <4>1
        <3> QED
            BY <3>4, <3>5, <3>6 DEF a, b
    <2>6. \A i \in 1..m : at[i] \in Nat /\ Len(ss[i]) \in Nat /\ at[i] + Len(ss[i]) <= l
        BY <1>1, <1>4, <2>1, <2>3
    <2>7. \A i \in 1..(m + 1) : i = m + 1 \/ i \in 1..m
        BY <2>0
    <2> HIDE DEF l, o, T, Good
    <2>8. \A i \in 1..(m + 1) : at[i] + Len(ss[i]) <= Len(f[m + 1])
        BY <2>4, <2>5, <2>6, <2>7 DEF o
    <2>9. ASSUME NEW i \in 1..(m + 1), NEW k \in 1..Len(ss[i])
          PROVE  f[m + 1][at[i] + k] = ss[i][k]
        <3>1. CASE i = m + 1
            BY <2>4, <2>5, <3>1 DEF o
        <3>2. CASE i \in 1..m
            <4>1. at[i] + k \in 1..l
                BY <2>4, <2>6, <3>2
            <4> QED
                BY <2>3, <2>5, <3>2, <4>1
        <3> QED
            BY <2>7, <3>1, <3>2
    <2>10. ASSUME NEW p \in 1..Len(f[m + 1])
           PROVE  \E i \in 1..(m + 1) : \E k \in 1..Len(ss[i]) : p = at[i] + k
        <3>1. CASE p \in 1..l
            <4>1. PICK i \in 1..m : \E k \in 1..Len(ss[i]) : p = at[i] + k
                BY <2>3, <3>1 DEF l
            <4>2. i \in 1..(m + 1)
                BY <2>0
            <4> QED
                BY <4>1, <4>2
        <3>2. CASE p \notin 1..l
            <4>1. p - l \in 1..o /\ p = at[m + 1] + (p - l)
                BY <2>4, <2>5, <3>2
            <4>2. m + 1 \in 1..(m + 1)
                BY <2>0
            <4> QED
                BY <4>1, <4>2 DEF o
        <3> QED
            BY <3>1, <3>2
    <2>11. ASSUME NEW i \in 1..(m + 1), NEW j \in 1..(m + 1), i < j
           PROVE  at[i] + Len(ss[i]) <= at[j]
        <3>1. i \in 1..m
            BY <2>0, <2>11
        <3>2. CASE j = m + 1
            BY <2>4, <2>6, <3>1, <3>2
        <3>3. CASE j \in 1..m
            BY <2>3, <2>11, <3>1, <3>3
        <3> QED
            BY <2>7, <3>2, <3>3
    <2> QED
        BY <2>8, <2>9, <2>10, <2>11 DEF Good
<1>8. T = Nat
    <2>1. T \in SUBSET Nat
        OBVIOUS
    <2> HIDE DEF T
    <2> QED
        BY <1>6, <1>7, <2>1, AllNaturals
<1>9. Good(n)
    <2>1. n \in T
        <3> HIDE DEF T
        <3> QED
            BY <1>1, <1>8
    <2>2. n <= n
        BY <1>1
    <2> QED
        BY <2>1, <2>2, Zenon
<1>10. /\ \A i \in 1..n : at[i] + Len(ss[i]) <= Len(f[n])
       /\ \A i \in 1..n : \A k \in 1..Len(ss[i]) : f[n][at[i] + k] = ss[i][k]
       /\ \A p \in 1..Len(f[n]) : \E i \in 1..n : \E k \in 1..Len(ss[i]) : p = at[i] + k
       /\ \A i, j \in 1..n : i < j => at[i] + Len(ss[i]) <= at[j]
    BY <1>9
<1> HIDE DEF Good, T
<1>11. f[n] \in Seq(X) /\ Len(f[n]) \in Nat
    BY <1>1, <1>3
<1>12. ASSUME NEW i \in 1..n, NEW k \in 1..Len(ss[i])
       PROVE  at[i] + k \in 1..Len(f[n])
    <2> DEFINE a == at[i]  b == Len(ss[i])  c == Len(f[n])
    <2>1. a \in Nat /\ b \in Nat /\ c \in Nat /\ a + b <= c /\ k \in 1..b
        BY <1>1, <1>4, <1>10, <1>11
    <2> HIDE DEF a, b, c
    <2>2. a + k \in 1..c
        BY <2>1
    <2> QED
        BY <2>2 DEF a, c
<1>13. Places(ss, f[n], at)
    BY <1>4, <1>10, <1>12 DEF Places, n
<1> QED
    BY <1>2, <1>11, <1>13

\* What is in the sequences joined is in one of them; when nothing comes twice
\* in them, nothing comes twice in all.
LEMMA FlatOfEach ==
    ASSUME NEW X, NEW ss \in Seq(Seq(X))
    PROVE  /\ FlattenSeq(ss) \in Seq(X)
           /\ Range(FlattenSeq(ss)) = UNION {Range(ss[i]) : i \in DOMAIN ss}
           /\ (\A i, j \in 1..Len(ss) : \A k \in 1..Len(ss[i]), l \in 1..Len(ss[j]) :
                  ss[i][k] = ss[j][l] => i = j /\ k = l) => IsInjective(FlattenSeq(ss))
<1> DEFINE flat == FlattenSeq(ss)
<1>1. flat \in Seq(X) /\ \E at : Places(ss, flat, at)
    BY FlatPlaces
<1> HIDE DEF flat
<1>2. PICK at : Places(ss, flat, at)
    BY <1>1
<1>3. DOMAIN ss = 1..Len(ss) /\ \A i \in 1..Len(ss) : ss[i] \in Seq(X) /\ DOMAIN ss[i] = 1..Len(ss[i])
    OBVIOUS
<1>4. DOMAIN flat = 1..Len(flat)
    BY <1>1
<1>5. ASSUME NEW x \in Range(flat)
      PROVE  \E i \in DOMAIN ss : x \in Range(ss[i])
    <2>1. PICK p \in 1..Len(flat) : x = flat[p]
        BY <1>4 DEF Range
    <2>2. PICK i \in 1..Len(ss) : \E k \in 1..Len(ss[i]) : p = at[i] + k
        BY <1>2 DEF Places
    <2>3. PICK k \in 1..Len(ss[i]) : p = at[i] + k
        BY <2>2
    <2>4. x = ss[i][k]
        BY <1>2, <2>1, <2>3 DEF Places
    <2> QED
        BY <1>3, <2>4 DEF Range
<1>6. ASSUME NEW i \in DOMAIN ss, NEW x \in Range(ss[i])
      PROVE  x \in Range(flat)
    <2>1. PICK k \in 1..Len(ss[i]) : x = ss[i][k]
        BY <1>3 DEF Range
    <2>2. at[i] + k \in 1..Len(flat) /\ flat[at[i] + k] = ss[i][k]
        BY <1>2, <1>3 DEF Places
    <2> QED
        BY <1>4, <2>1, <2>2 DEF Range
<1>7. ASSUME \A i, j \in 1..Len(ss) : \A k \in 1..Len(ss[i]), l \in 1..Len(ss[j]) :
               ss[i][k] = ss[j][l] => i = j /\ k = l,
             NEW p \in 1..Len(flat), NEW q \in 1..Len(flat), flat[p] = flat[q]
      PROVE  p = q
    <2>4. PICK i \in 1..Len(ss) : \E k \in 1..Len(ss[i]) : p = at[i] + k
        BY <1>2 DEF Places
    <2>1. PICK k \in 1..Len(ss[i]) : p = at[i] + k
        BY <2>4
    <2>5. PICK j \in 1..Len(ss) : \E l \in 1..Len(ss[j]) : q = at[j] + l
        BY <1>2 DEF Places
    <2>2. PICK l \in 1..Len(ss[j]) : q = at[j] + l
        BY <2>5
    <2>3. flat[p] = ss[i][k] /\ flat[q] = ss[j][l]
        BY <1>2, <2>1, <2>2 DEF Places
    <2> QED
        BY <1>7, <2>1, <2>2, <2>3
<1>8. Range(flat) = UNION {Range(ss[i]) : i \in DOMAIN ss}
    BY <1>5, <1>6
<1> QED
    BY <1>1, <1>4, <1>7, <1>8 DEF IsInjective, flat

-----------------------------------------------------------------------------
(***************************************************************************)
(* Rounds of award messages.  Everything a round has to tell is written    *)
(* into messages that are not empty and tell nothing twice.                *)
(***************************************************************************)
AwardItem == [who : Sailor, of : DOMAIN Medals]
Destination == {"board", "first", "second", Engineer}
Message == [to : Destination, items : Seq(AwardItem)]

\* Nothing comes twice in the sequences.
Once(ss) ==
    \A i, j \in 1..Len(ss) : \A k \in 1..Len(ss[i]), l \in 1..Len(ss[j]) :
        ss[i][k] = ss[j][l] => i = j /\ k = l

ItemsIn(plan) == [i \in 1..Len(plan) |-> plan[i].items]

Written(plan) ==
    /\ plan \in Seq(Message)
    /\ \A i \in 1..Len(plan) : Len(plan[i].items) >= 1
    /\ Once(ItemsIn(plan))

\* What a plan tells, where it tells it, and how much at once.
Carries(plan) == UNION {Range(plan[i].items) : i \in 1..Len(plan)}

Aims(plan, owed) ==
    \A i \in 1..Len(plan) : \A x \in Range(plan[i].items) : x \in DOMAIN owed /\ plan[i].to \in owed[x]

Fits(kind, plan) ==
    \A i \in 1..Len(plan) : Len(plan[i].items) > MaxInMessage => kind = "training" \/ plan[i].to = Engineer

Tells(kind, plan, owed, what) ==
    Written(plan) /\ Carries(plan) = what /\ Aims(plan, owed) /\ Fits(kind, plan)

Planned(kind, plan, owed) == Tells(kind, plan, owed, DOMAIN owed)

RoundTrue ==
    /\ round = [of |-> round.of, plan |-> round.plan, owed |-> round.owed, sent |-> round.sent, step |-> round.step]
    /\ round.of \in {"none", "board", "training", "representation"}
    /\ round.step \in {"idle", "sending", "done", "failed"}
    /\ Written(round.plan) /\ round.sent \in 0..Len(round.plan)
    /\ Aims(round.plan, round.owed) /\ Fits(round.of, round.plan)
    /\ round.step \in {"sending", "done"} => Carries(round.plan) = DOMAIN round.owed
    /\ round.step = "sending" => round.sent < Len(round.plan)
    /\ round.step = "done" => round.sent = Len(round.plan)

\* A round of what is written well starts well.
LEMMA BeginsTrue ==
    ASSUME NEW kind \in {"board", "training", "representation"}, NEW plan, NEW owed, Planned(kind, plan, owed),
           NEW spoilt \in BOOLEAN, Begin(kind, plan, owed, spoilt)
    PROVE  RoundTrue'
<1> DEFINE first == [of |-> kind, sent |-> 0, owed |-> owed, plan |-> IF spoilt THEN <<>> ELSE plan,
                     step |-> IF spoilt THEN "failed" ELSE IF plan = <<>> THEN "done" ELSE "sending"]
<1>1. round' = first
    BY DEF Begin
<1>2. plan \in Seq(Message) /\ Len(plan) \in Nat /\ (plan # <<>> => Len(plan) > 0) /\ Len(<<>>) = 0 /\ (plan = <<>> => Len(plan) = 0)
    BY DEF Planned, Tells, Written
<1>3. Written(<<>>) /\ Aims(<<>>, owed) /\ Fits(kind, <<>>)
    BY DEF Written, Once, ItemsIn, Aims, Fits
<1>4. Written(plan) /\ Aims(plan, owed) /\ Fits(kind, plan) /\ Carries(plan) = DOMAIN owed
    BY DEF Planned, Tells
<1>5. /\ first = [of |-> first.of, plan |-> first.plan, owed |-> first.owed, sent |-> first.sent, step |-> first.step]
      /\ first.of \in {"none", "board", "training", "representation"}
      /\ first.step \in {"idle", "sending", "done", "failed"}
      /\ Written(first.plan) /\ first.sent \in 0..Len(first.plan)
      /\ Aims(first.plan, first.owed) /\ Fits(first.of, first.plan)
      /\ first.step \in {"sending", "done"} => Carries(first.plan) = DOMAIN first.owed
      /\ first.step = "sending" => first.sent < Len(first.plan)
      /\ first.step = "done" => first.sent = Len(first.plan)
    <2>1. CASE spoilt
        BY <1>2, <1>3, <2>1
    <2>2. CASE ~spoilt
        BY <1>2, <1>4, <2>2
    <2> QED
        BY <2>1, <2>2
<1> HIDE DEF first
<1> QED
    BY <1>1, <1>5 DEF RoundTrue

LEMMA SendKeepsRound ==
    ASSUME RoundTrue, SendAward
    PROVE  RoundTrue'
<1>0. round.plan \in Seq(Message) /\ round.sent \in Nat /\ Len(round.plan) \in Nat /\ round.sent < Len(round.plan)
    BY DEF RoundTrue, Written, SendAward
<1> DEFINE Whole1(a) == a = [of |-> a.of, plan |-> a.plan, owed |-> a.owed, sent |-> a.sent, step |-> a.step]
<1>9. ASSUME NEW o, NEW p, NEW m, NEW q, NEW t, NEW v, NEW w
      PROVE  /\ [[of |-> o, plan |-> p, owed |-> m, sent |-> q, step |-> t] EXCEPT !.sent = v, !.step = w]
                    = [of |-> o, plan |-> p, owed |-> m, sent |-> v, step |-> w]
             /\ [[of |-> o, plan |-> p, owed |-> m, sent |-> q, step |-> t] EXCEPT !.step = w]
                    = [of |-> o, plan |-> p, owed |-> m, sent |-> q, step |-> w]
    <2> DEFINE a == [of |-> o, plan |-> p, owed |-> m, sent |-> q, step |-> t]
               R == [of : {o}, plan : {p}, owed : {m}, sent : {q, v}, step : {t, w}]
               b == [a EXCEPT !.sent = v, !.step = w]
               c == [a EXCEPT !.step = w]
    <2>1. a \in R
        OBVIOUS
    <2>2. b \in R /\ b.sent = v /\ b.step = w /\ b.of = o /\ b.plan = p /\ b.owed = m
        BY <2>1
    <2>3. c \in R /\ c.sent = q /\ c.step = w /\ c.of = o /\ c.plan = p /\ c.owed = m
        BY <2>1
    <2> HIDE DEF b, c
    <2>4. b = [of |-> o, plan |-> p, owed |-> m, sent |-> v, step |-> w]
        BY <2>2
    <2>5. c = [of |-> o, plan |-> p, owed |-> m, sent |-> q, step |-> w]
        BY <2>3
    <2> QED
        BY <2>4, <2>5 DEF b, c
<1>8. Whole1(round)
    BY DEF RoundTrue
<1>7. \/ round' = [round EXCEPT !.sent = round.sent + 1, !.step = IF round.sent + 1 = Len(round.plan) THEN "done" ELSE "sending"]
      \/ round' = [round EXCEPT !.step = "failed"]
    BY DEF SendAward
<1>1. /\ Whole1(round')
      /\ round'.of = round.of /\ round'.plan = round.plan /\ round'.owed = round.owed
      /\ \/ /\ round'.sent = round.sent + 1
            /\ round'.step = IF round.sent + 1 = Len(round.plan) THEN "done" ELSE "sending"
         \/ round'.sent = round.sent /\ round'.step = "failed"
    <2> DEFINE o == round.of  p == round.plan  m == round.owed  q == round.sent  t == round.step
    <2>1. round = [of |-> o, plan |-> p, owed |-> m, sent |-> q, step |-> t]
        BY <1>8
    <2> HIDE DEF Whole1, o, p, m, q, t
    <2>2. CASE round' = [round EXCEPT !.sent = round.sent + 1, !.step = IF round.sent + 1 = Len(round.plan) THEN "done" ELSE "sending"]
        <3> DEFINE v == round.sent + 1  w == IF round.sent + 1 = Len(round.plan) THEN "done" ELSE "sending"
        <3>1. round' = [round EXCEPT !.sent = v, !.step = w]
            BY <2>2
        <3> HIDE DEF v, w
        <3>2. round' = [of |-> o, plan |-> p, owed |-> m, sent |-> v, step |-> w]
            BY <1>9, <2>1, <3>1
        <3>3. Whole1(round') /\ round'.of = o /\ round'.plan = p /\ round'.owed = m /\ round'.sent = v /\ round'.step = w
            BY <3>2 DEF Whole1
        <3> QED
            BY <2>2, <3>3 DEF v, w, o, p, m
    <2>3. CASE round' = [round EXCEPT !.step = "failed"]
        <3>2. round' = [of |-> o, plan |-> p, owed |-> m, sent |-> q, step |-> "failed"]
            BY <1>9, <2>1, <2>3
        <3>3. Whole1(round') /\ round'.of = o /\ round'.plan = p /\ round'.owed = m /\ round'.sent = q /\ round'.step = "failed"
            BY <3>2 DEF Whole1
        <3> QED
            BY <3>3 DEF o, p, m, q
    <2> QED
        BY <1>7, <2>2, <2>3
<1>2. round.step = "sending"
    BY DEF SendAward
<1>3. CASE round'.sent = round.sent + 1 /\ round'.step = IF round.sent + 1 = Len(round.plan) THEN "done" ELSE "sending"
    <2>1. round.sent + 1 \in 0..Len(round.plan) /\ (round.sent + 1 # Len(round.plan) => round.sent + 1 < Len(round.plan))
        BY <1>0
    <2> QED
        BY <1>1, <1>2, <1>3, <2>1 DEF RoundTrue
<1>4. CASE round'.sent = round.sent /\ round'.step = "failed"
    BY <1>1, <1>4 DEF RoundTrue
<1> QED
    BY <1>1, <1>3, <1>4

\* What the messages sent have told, every award of it once.
LEMMA RoundTells == RoundTrue => AwardsToldOnce
<1> SUFFICES ASSUME RoundTrue
             PROVE  AwardsToldOnce
    OBVIOUS
<1> DEFINE told == [i \in 1..round.sent |-> round.plan[i]]
           ss == [i \in DOMAIN told |-> told[i].items]
           flat == FlattenSeq(ss)
           n == round.sent
<1>1. /\ round.plan \in Seq(Message) /\ n \in Nat /\ n <= Len(round.plan) /\ Len(round.plan) \in Nat
      /\ Once(ItemsIn(round.plan)) /\ \A i \in 1..Len(round.plan) : Len(round.plan[i].items) >= 1
    BY DEF RoundTrue, Written
<1>2. \A i \in 1..n : /\ i \in 1..Len(round.plan) /\ round.plan[i] \in Message /\ told[i] = round.plan[i]
                      /\ round.plan[i].items \in Seq(AwardItem) /\ ItemsIn(round.plan)[i] = round.plan[i].items
    <2> SUFFICES ASSUME NEW i \in 1..n
                 PROVE  /\ i \in 1..Len(round.plan) /\ round.plan[i] \in Message /\ told[i] = round.plan[i]
                        /\ round.plan[i].items \in Seq(AwardItem) /\ ItemsIn(round.plan)[i] = round.plan[i].items
        OBVIOUS
    <2>1. i \in 1..Len(round.plan)
        BY <1>1
    <2>2. round.plan[i] \in Message
        BY <1>1, <2>1
    <2>3. round.plan[i].items \in Seq(AwardItem)
        BY <2>2 DEF Message
    <2>4. ItemsIn(round.plan)[i] = round.plan[i].items
        BY <2>1 DEF ItemsIn
    <2> QED
        BY <2>1, <2>2, <2>3, <2>4
<1>3. ss \in Seq(Seq(AwardItem)) /\ Len(ss) = n /\ \A i \in 1..n : ss[i] = round.plan[i].items
    <2>1. DOMAIN told = 1..n /\ \A i \in 1..n : told[i].items = round.plan[i].items
        BY <1>2
    <2>2. ss = [i \in 1..n |-> told[i].items]
        BY <2>1
    <2>3. \A i \in 1..n : told[i].items \in Seq(AwardItem)
        BY <1>2, <2>1
    <2> HIDE DEF told, ss
    <2> QED
        BY <1>1, <2>1, <2>2, <2>3
<1>11. DOMAIN told = 1..n
    OBVIOUS
<1>12. Len(ItemsIn(round.plan)) = Len(round.plan)
    BY <1>1 DEF ItemsIn
<1> HIDE DEF ss, flat
<1>4. \A i, j \in 1..Len(ss) : \A k \in 1..Len(ss[i]), l \in 1..Len(ss[j]) :
         ss[i][k] = ss[j][l] => i = j /\ k = l
    <2>1. \A i, j \in 1..Len(round.plan) : \A k \in 1..Len(ItemsIn(round.plan)[i]), l \in 1..Len(ItemsIn(round.plan)[j]) :
             ItemsIn(round.plan)[i][k] = ItemsIn(round.plan)[j][l] => i = j /\ k = l
        BY <1>1, <1>12 DEF Once
    <2>2. \A i \in 1..n : i \in 1..Len(round.plan) /\ ItemsIn(round.plan)[i] = ss[i]
        BY <1>2, <1>3
    <2> SUFFICES ASSUME NEW i \in 1..n, NEW j \in 1..n, NEW k \in 1..Len(ss[i]), NEW l \in 1..Len(ss[j]),
                        ss[i][k] = ss[j][l]
                 PROVE  i = j /\ k = l
        BY <1>3
    <2>3. ItemsIn(round.plan)[i] = ss[i] /\ ItemsIn(round.plan)[j] = ss[j] /\ i \in 1..Len(round.plan) /\ j \in 1..Len(round.plan)
        BY <2>2
    <2> QED
        BY <2>1, <2>3
<1>5. flat \in Seq(AwardItem) /\ IsInjective(flat) /\ Range(flat) = UNION {Range(ss[i]) : i \in DOMAIN ss}
    BY <1>3, <1>4, FlatOfEach DEF flat
<1>6. DOMAIN ss = 1..n /\ DOMAIN round.plan = 1..Len(round.plan)
    BY <1>1, <1>3
<1>7. ASSUME NEW i \in 1..n, NEW x \in Range(told[i].items)
      PROVE  x \in DOMAIN round.owed /\ told[i].to \in round.owed[x]
    BY <1>2 DEF RoundTrue, Aims
<1>8. ASSUME NEW i \in 1..n, NEW x \in Range(ss[i])
      PROVE  x \in Range(told[i].items)
    BY <1>2, <1>3
<1>9. Range(flat) \subseteq DOMAIN round.owed
    BY <1>5, <1>6, <1>7, <1>8
<1>10. ASSUME round.step = "done"
       PROVE  Range(flat) = DOMAIN round.owed
    <2>1. n = Len(round.plan) /\ Carries(round.plan) = DOMAIN round.owed
        BY <1>10 DEF RoundTrue
    <2>2. \A i \in 1..n : Range(ss[i]) = Range(round.plan[i].items)
        BY <1>3
    <2>3. Range(flat) = UNION {Range(round.plan[i].items) : i \in 1..n}
        BY <1>5, <1>6, <2>2
    <2> QED
        BY <2>1, <2>3 DEF Carries
<1>13. \A i \in DOMAIN round.plan : Len(round.plan[i].items) > MaxInMessage =>
          round.of = "training" \/ round.plan[i].to = Engineer
    BY <1>6 DEF RoundTrue, Fits
<1> QED
    BY <1>5, <1>7, <1>9, <1>10, <1>11, <1>13 DEF AwardsToldOnce, flat, ss

\* Multiples of a number, and what a division leaves.
LEMMA Multiples ==
    ASSUME NEW m \in Nat \ {0}
    PROVE  /\ \A a \in Int : a * m \in Int /\ (a + 1) * m = a * m + m /\ (a - 1) * m = a * m - m
           /\ \A a, b \in Nat : a <= b => a * m <= b * m
           /\ \A x \in Nat : x \div m \in Nat /\ (x \div m) * m <= x /\ x < (x \div m) * m + m
<1>1. \A a \in Int : a * m \in Int /\ (a + 1) * m = a * m + m /\ (a - 1) * m = a * m - m
    OBVIOUS
<1>2. \A a, b \in Nat : a <= b => a * m <= b * m
    <2> SUFFICES ASSUME NEW a \in Nat, NEW b \in Nat, a <= b
                 PROVE  a * m <= b * m
        OBVIOUS
    <2>1. b - a \in Nat /\ b = a + (b - a)
        OBVIOUS
    <2>2. \A c \in Nat : c * m \in Nat /\ (a + c) * m = a * m + c * m
        OBVIOUS
    <2>3. b * m = a * m + (b - a) * m /\ (b - a) * m \in Nat /\ a * m \in Nat
        BY <2>1, <2>2
    <2> QED
        BY <2>3
<1>3. \A x \in Nat : x \div m \in Nat /\ (x \div m) * m <= x /\ x < (x \div m) * m + m
    OBVIOUS
<1> QED
    BY <1>1, <1>2, <1>3

\* What is in the sequences is in s.
From(ss, s) == \A i \in 1..Len(ss) : \A k \in 1..Len(ss[i]) : \E p \in 1..Len(s) : ss[i][k] = s[p]

\* Pages of a size hold what there is to show, in its order: none is empty or
\* too long, and what is there once is shown once.
LEMMA PagesTell ==
    ASSUME NEW X, NEW s \in Seq(X), NEW m \in Nat \ {0}
    PROVE  /\ Pages(s, m) \in Seq(Seq(X)) /\ From(Pages(s, m), s)
           /\ \A i \in 1..Len(Pages(s, m)) : Len(Pages(s, m)[i]) \in 1..m
           /\ FlattenSeq(Pages(s, m)) = s
           /\ IsInjective(s) => Once(Pages(s, m))
<1> DEFINE n == Len(s)
           last == (n + m - 1) \div m
           lo(i) == (i - 1) * m
           hi(i) == Min({i * m, n})
<1>1. m \in Nat /\ m > 0 /\ n \in Nat
    OBVIOUS
<1>2. last \in Nat /\ last * m <= n + m - 1 /\ n - 1 < last * m
    <2> DEFINE x == n + m - 1
    <2>1. x \in Nat
        BY <1>1
    <2>2. x \div m \in Nat /\ (x \div m) * m <= x /\ x < (x \div m) * m + m
        <3> HIDE DEF x
        <3> QED
            BY <2>1, Multiples
    <2> DEFINE y == (x \div m) * m
    <2>3. y \in Int /\ y <= x /\ x < y + m
        BY <2>2
    <2> HIDE DEF y
    <2>4. y <= n + m - 1 /\ n - 1 < y
        BY <1>1, <2>3
    <2> QED
        BY <2>2, <2>4 DEF y
<1>3. Pages(s, m) = [i \in 1..last |-> SubSeq(s, lo(i) + 1, hi(i))]
    BY DEF Pages
<1>4. ASSUME NEW i \in 1..last
      PROVE  /\ lo(i) \in Nat /\ lo(i) < n /\ hi(i) \in Nat /\ lo(i) < hi(i) /\ hi(i) <= n
             /\ hi(i) <= lo(i) + m
    <2>1. i \in Nat /\ i - 1 \in Nat /\ i <= last /\ i * m <= last * m /\ i * m \in Int /\ last * m \in Int /\ lo(i) = i * m - m
        <3>1. last \in Nat /\ m \in Nat \ {0}
            BY <1>1, <1>2
        <3> HIDE DEF last
        <3>2. i \in Nat /\ i \in Int /\ i - 1 \in Nat /\ i <= last /\ last \in Int
            BY <3>1
        <3>3. i * m <= last * m /\ i * m \in Int /\ last * m \in Int /\ (i - 1) * m = i * m - m
            BY <3>1, <3>2, Multiples
        <3> QED
            BY <3>2, <3>3
    <2>2. lo(i) \in Nat
        <3>1. 0 * m <= (i - 1) * m /\ (i - 1) * m \in Int /\ 0 * m = 0
            BY <1>1, <2>1, Multiples
        <3> QED
            BY <3>1
    <2>3. hi(i) \in {i * m, n} /\ hi(i) <= i * m /\ hi(i) <= n
        <3>1. \E x \in {i * m, n} : \A y \in {i * m, n} : x <= y
            BY <1>1, <2>1
        <3>2. hi(i) \in {i * m, n} /\ \A y \in {i * m, n} : hi(i) <= y
            BY <3>1 DEF Min
        <3> QED
            BY <3>2
    <2> DEFINE x == i * m  y == last * m  h == hi(i)  o == lo(i)
    <2>4. x \in Int /\ y \in Int /\ o = x - m /\ x <= y /\ y <= n + m - 1 /\ o \in Nat /\ h \in {x, n} /\ h <= x /\ h <= n
        BY <1>2, <2>1, <2>2, <2>3
    <2> HIDE DEF x, y, h, o, n
    <2>5. o \in Nat /\ o < n /\ h \in Nat /\ o < h /\ h <= n /\ h <= o + m
        BY <1>1, <2>4
    <2> QED
        BY <2>5 DEF h, o
<1>5. ASSUME NEW i \in 1..last, NEW j \in 1..last, i < j
      PROVE  lo(i) + m <= lo(j)
    <2>1. i \in Nat /\ j - 1 \in Nat /\ i <= j - 1
        <3>1. last \in Nat
            BY <1>2
        <3> HIDE DEF last
        <3> QED
            BY <1>5, <3>1
    <2>2. i * m <= (j - 1) * m /\ i * m = lo(i) + m /\ i * m \in Int
        BY <1>1, <2>1, Multiples
    <2> QED
        BY <2>2
<1> HIDE DEF lo, hi, last
<1>6. ASSUME NEW i \in 1..last
      PROVE  /\ Pages(s, m)[i] \in Seq(X) /\ Len(Pages(s, m)[i]) = hi(i) - lo(i)
             /\ \A k \in 1..Len(Pages(s, m)[i]) : lo(i) + k \in 1..n /\ Pages(s, m)[i][k] = s[lo(i) + k]
    <2>1. Pages(s, m)[i] = SubSeq(s, lo(i) + 1, hi(i))
        BY <1>3
    <2>2. lo(i) + 1 \in 1..(Len(s) + 1) /\ hi(i) \in ((lo(i) + 1) - 1)..Len(s)
        BY <1>4
    <2>3. /\ SubSeq(s, lo(i) + 1, hi(i)) \in Seq(X)
          /\ Len(SubSeq(s, lo(i) + 1, hi(i))) = hi(i) - (lo(i) + 1) + 1
          /\ \A k \in 1..(hi(i) - (lo(i) + 1) + 1) : SubSeq(s, lo(i) + 1, hi(i))[k] = s[(lo(i) + 1) + k - 1]
        BY <2>2, SubSeqProperties
    <2> DEFINE a == lo(i)  b == hi(i)
    <2>4. a \in Nat /\ b \in Nat /\ a < b /\ b <= n
        BY <1>4
    <2> HIDE DEF a, b, n
    <2>5. b - (a + 1) + 1 = b - a /\ \A k \in 1..(b - a) : (a + 1) + k - 1 = a + k /\ a + k \in 1..n
        BY <1>1, <2>4
    <2> QED
        BY <2>1, <2>3, <2>5 DEF a, b
<1>7. DOMAIN Pages(s, m) = 1..last
    BY <1>3
<1>8. Pages(s, m) \in Seq(Seq(X)) /\ Len(Pages(s, m)) = last
    BY <1>2, <1>3, <1>6
<1>9. ASSUME NEW i \in 1..last
      PROVE  /\ Len(Pages(s, m)[i]) \in 1..m
             /\ \A k \in 1..Len(Pages(s, m)[i]) : k \in 1..m /\ \E p \in 1..n : Pages(s, m)[i][k] = s[p]
    <2>1. Len(Pages(s, m)[i]) \in 1..m
        <3> HIDE DEF n
        <3> QED
            BY <1>1, <1>4, <1>6
    <2>2. \A k \in 1..Len(Pages(s, m)[i]) : k \in 1..m
        <3> HIDE DEF n
        <3> QED
            BY <1>1, <2>1
    <2> QED
        BY <1>6, <2>1, <2>2
<1>10. ASSUME NEW i \in 1..last, NEW j \in 1..last,
              NEW k \in 1..Len(Pages(s, m)[i]), NEW l \in 1..Len(Pages(s, m)[j]),
              Pages(s, m)[i][k] = Pages(s, m)[j][l], IsInjective(s)
       PROVE  i = j /\ k = l
    <2>1. lo(i) + k \in DOMAIN s /\ lo(j) + l \in DOMAIN s /\ s[lo(i) + k] = s[lo(j) + l]
        BY <1>6, <1>10
    <2>2. lo(i) + k = lo(j) + l
        BY <1>10, <2>1 DEF IsInjective
    <2>3. k \in 1..m /\ l \in 1..m /\ lo(i) \in Nat /\ lo(j) \in Nat
        BY <1>4, <1>9
    <2>4. i \in Nat /\ j \in Nat
        BY <1>2
    <2> HIDE DEF n
    <2>5. CASE i < j
        <3>1. lo(i) + m <= lo(j)
            BY <1>5, <2>5
        <3> QED
            BY <1>1, <2>2, <2>3, <3>1
    <2>6. CASE j < i
        <3>1. lo(j) + m <= lo(i)
            BY <1>5, <2>6
        <3> QED
            BY <1>1, <2>2, <2>3, <3>1
    <2>7. CASE i = j
        BY <2>2, <2>3, <2>7
    <2> QED
        BY <2>4, <2>5, <2>6, <2>7
<1>11. IsInjective(s) => Once(Pages(s, m))
    BY <1>8, <1>10 DEF Once
<1>12. From(Pages(s, m), s)
    BY <1>8, <1>9 DEF From
<1>13. FlattenSeq(Pages(s, m)) = s
    <2> DEFINE P == Pages(s, m)
    <2>0. P \in Seq(Seq(X)) /\ Len(P) = last
        BY <1>8
    <2> HIDE DEF P
    <2>1. PICK f : /\ f \in [0..last -> Seq(X)] /\ f[0] = <<>> /\ FlattenSeq(P) = f[last]
                   /\ \A i \in 1..last : f[i] = f[i - 1] \o P[i]
        <3>1. \E f : /\ f \in [0..Len(P) -> Seq(X)] /\ f[0] = <<>> /\ FlattenSeq(P) = f[Len(P)]
                     /\ \A i \in 1..Len(P) : f[i] = f[i - 1] \o P[i]
            BY <2>0, JoinsAll
        <3> QED
            BY <2>0, <3>1
    <2> DEFINE end(i) == IF i = 0 THEN 0 ELSE hi(i)
               T == {i \in Nat : i <= last => f[i] = SubSeq(s, 1, end(i))}
    <2>2. ASSUME NEW i \in 1..last
          PROVE  /\ lo(i) = end(i - 1) /\ end(i) = hi(i) /\ P[i] = SubSeq(s, lo(i) + 1, hi(i))
                 /\ lo(i) \in 0..n /\ hi(i) \in lo(i)..n
        <3>1. end(i) = hi(i) /\ P[i] = SubSeq(s, lo(i) + 1, hi(i))
            <4>1. i # 0
                BY <1>2
            <4>2. P[i] = SubSeq(s, lo(i) + 1, hi(i))
                BY <1>3 DEF P
            <4> QED
                BY <4>1, <4>2
        <3>2. lo(i) \in 0..n /\ hi(i) \in lo(i)..n
            <4> DEFINE a == lo(i)  b == hi(i)
            <4>1. a \in Nat /\ a < n /\ b \in Nat /\ a < b /\ b <= n
                BY <1>4
            <4> HIDE DEF a, b, n
            <4>2. a \in 0..n /\ b \in a..n
                BY <1>1, <4>1
            <4> QED
                BY <4>2 DEF a, b
        <3>3. CASE i = 1
            <4>1. (1 - 1) * m = 0
                BY <1>1
            <4>2. lo(1) = 0
                BY <4>1 DEF lo
            <4>3. i - 1 = 0
                BY <3>3
            <4> QED
                BY <3>1, <3>2, <3>3, <4>2, <4>3
        <3>4. CASE i # 1
            <4>1. i - 1 \in 1..last /\ i - 1 # 0
                BY <1>2, <3>4
            <4>2. end(i - 1) = hi(i - 1)
                BY <4>1
            <4> DEFINE x == (i - 1) * m
            <4>3. x \in Int /\ x < n /\ lo(i) = x
                <5>1. x \in Int
                    BY <1>1, <4>1
                <5> QED
                    BY <1>4, <5>1 DEF lo
            <4>4. hi(i - 1) = Min({x, n})
                BY DEF hi
            <4>5. Min({x, n}) = x
                <5> HIDE DEF x, n
                <5>1. \E y \in {x, n} : \A z \in {x, n} : y <= z
                    BY <1>1, <4>3
                <5>2. Min({x, n}) \in {x, n} /\ \A z \in {x, n} : Min({x, n}) <= z
                    BY <5>1 DEF Min
                <5> QED
                    BY <1>1, <4>3, <5>2
            <4> QED
                BY <3>1, <3>2, <4>2, <4>3, <4>4, <4>5
        <3> QED
            BY <3>3, <3>4
    <2>3. 0 \in T
        <3>1. SubSeq(s, 1, 0) = <<>>
            BY SubSeqEmpty
        <3> QED
            BY <2>1, <3>1
    <2>4. ASSUME NEW i \in T
          PROVE  i + 1 \in T
        <3>1. i \in Nat /\ i + 1 \in Nat
            OBVIOUS
        <3> SUFFICES ASSUME i + 1 <= last
                     PROVE  f[i + 1] = SubSeq(s, 1, end(i + 1))
            BY <3>1
        <3>2. i + 1 \in 1..last /\ (i + 1) - 1 = i /\ i <= last
            BY <1>2, <3>1
        <3>3. f[i] = SubSeq(s, 1, end(i))
            BY <3>2
        <3>4. f[i + 1] = f[i] \o P[i + 1]
            BY <2>1, <3>2
        <3> DEFINE a == lo(i + 1)  b == hi(i + 1)
        <3>5. /\ end(i) = a /\ end(i + 1) = b /\ P[i + 1] = SubSeq(s, a + 1, b)
              /\ a \in 0..n /\ b \in a..n
            BY <2>2, <3>2
        <3> HIDE DEF a, b, T, end
        <3>6. f[i + 1] = SubSeq(s, 1, a) \o SubSeq(s, a + 1, b)
            BY <3>3, <3>4, <3>5
        <3>7. 1 \in 1..(Len(s) + 1) /\ a \in (1 - 1)..Len(s) /\ b \in a..Len(s)
            BY <1>1, <3>5
        <3>8. SubSeq(s, 1, a) \o SubSeq(s, a + 1, b) = SubSeq(s, 1, b)
            BY <3>7, ConcatAdjacentSubSeq
        <3> QED
            BY <3>5, <3>6, <3>8
    <2>5. T = Nat
        <3>1. T \in SUBSET Nat
            OBVIOUS
        <3> HIDE DEF T
        <3> QED
            BY <2>3, <2>4, <3>1, AllNaturals
    <2>6. f[last] = SubSeq(s, 1, end(last))
        <3>1. last \in T
            BY <1>2, <2>5
        <3> QED
            BY <1>2, <3>1
    <2>7. end(last) = n
        <3>1. CASE last = 0
            <4>1. 0 * m = 0
                BY <1>1
            <4>2. n - 1 < 0 * m
                BY <1>2, <3>1
            <4>3. n = 0
                BY <1>1, <4>1, <4>2
            <4> QED
                BY <3>1, <4>3
        <3>2. CASE last # 0
            <4> DEFINE x == last * m
            <4>1. end(last) = Min({x, n})
                BY <3>2 DEF hi
            <4>2. x \in Int /\ n - 1 < x
                BY <1>1, <1>2
            <4> HIDE DEF x, n
            <4>3. n <= x
                BY <1>1, <4>2
            <4>4. \E y \in {x, n} : \A z \in {x, n} : y <= z
                BY <1>1, <4>2, <4>3
            <4>5. Min({x, n}) \in {x, n} /\ \A z \in {x, n} : Min({x, n}) <= z
                BY <4>4 DEF Min
            <4> QED
                BY <1>1, <4>1, <4>2, <4>3, <4>5
        <3> QED
            BY <3>1, <3>2
    <2>8. SubSeq(s, 1, n) = s
        BY SubSeqFull
    <2> QED
        BY <2>1, <2>6, <2>7, <2>8 DEF P
<1> QED
    BY <1>8, <1>9, <1>11, <1>12, <1>13

\* Sequences that hold what s holds, each of it once, and of which none is empty.
Cuts(ss, s) ==
    /\ ss \in Seq(Seq(AwardItem)) /\ Once(ss)
    /\ \A i \in 1..Len(ss) : Len(ss[i]) >= 1
    /\ UNION {Range(ss[i]) : i \in 1..Len(ss)} = Range(s)

\* A message holds no more than fits.
LEMMA ChunksCut ==
    ASSUME NEW s \in Seq(AwardItem), IsInjective(s)
    PROVE  Cuts(Chunks(s), s) /\ \A i \in 1..Len(Chunks(s)) : Len(Chunks(s)[i]) <= MaxInMessage
<1>1. MaxInMessage \in Nat \ {0}
    BY AwardsAssumption
<1> DEFINE ss == Chunks(s)
<1>2. /\ ss \in Seq(Seq(AwardItem)) /\ Once(ss) /\ FlattenSeq(ss) = s
      /\ \A i \in 1..Len(ss) : Len(ss[i]) \in 1..MaxInMessage
    BY <1>1, PagesTell DEF Chunks
<1> HIDE DEF ss
<1>3. Range(FlattenSeq(ss)) = UNION {Range(ss[i]) : i \in DOMAIN ss}
    BY <1>2, FlatOfEach
<1>4. DOMAIN ss = 1..Len(ss)
    BY <1>2
<1>5. \A i \in 1..Len(ss) : Len(ss[i]) >= 1 /\ Len(ss[i]) <= MaxInMessage
    BY <1>1, <1>2
<1> QED
    BY <1>2, <1>3, <1>4, <1>5 DEF Cuts, ss

\* What goes out in one message is one.
LEMMA WholeCut ==
    ASSUME NEW items \in Seq(AwardItem), IsInjective(items)
    PROVE  Cuts(Whole(items), items)
<1>1. CASE items = <<>>
    <2>1. Whole(items) = <<>> /\ Len(<<>>) = 0
        BY <1>1 DEF Whole
    <2>2. Range(items) = {} /\ UNION {Range(Whole(items)[i]) : i \in 1..Len(Whole(items))} = {}
        BY <1>1, <2>1 DEF Range
    <2>3. Whole(items) \in Seq(Seq(AwardItem)) /\ Once(Whole(items)) /\ \A i \in 1..Len(Whole(items)) : Len(Whole(items)[i]) >= 1
        BY <2>1 DEF Once
    <2> QED
        BY <2>2, <2>3 DEF Cuts
<1>2. CASE items # <<>>
    <2>1. Whole(items) = <<items>>
        BY <1>2 DEF Whole
    <2>2. Len(items) >= 1 /\ Len(<<items>>) = 1 /\ <<items>>[1] = items /\ <<items>> \in Seq(Seq(AwardItem))
        BY <1>2
    <2>3. \A k, l \in 1..Len(items) : items[k] = items[l] => k = l
        BY DEF IsInjective
    <2>4. \A i \in 1..1 : i = 1
        OBVIOUS
    <2>5. Once(<<items>>)
        BY <2>2, <2>3, <2>4 DEF Once
    <2>6. {Range(<<items>>[i]) : i \in 1..1} = {Range(items)}
        BY <2>2, <2>4
    <2>7. UNION {Range(<<items>>[i]) : i \in 1..Len(<<items>>)} = Range(items)
        BY <2>2, <2>6
    <2> QED
        BY <2>1, <2>2, <2>4, <2>5, <2>7 DEF Cuts
<1> QED
    BY <1>1, <1>2

(* The plans of the three rounds. *)

\* The messages to one place tell what was cut for it, where it is owed there.
LEMMA PartTells ==
    ASSUME NEW kind, NEW channel \in Destination, NEW ss, NEW s, NEW owed, Cuts(ss, s),
           \A x \in Range(s) : x \in DOMAIN owed /\ channel \in owed[x],
           \/ channel = Engineer \/ kind = "training"
           \/ \A i \in 1..Len(ss) : Len(ss[i]) <= MaxInMessage
    PROVE  Tells(kind, To(channel, ss), owed, Range(s))
<1> DEFINE plan == To(channel, ss)
<1>0. ss \in Seq(Seq(AwardItem)) /\ Once(ss) /\ \A i \in 1..Len(ss) : Len(ss[i]) >= 1
    BY DEF Cuts
<1>1. DOMAIN ss = 1..Len(ss) /\ Len(ss) \in Nat /\ \A i \in 1..Len(ss) : ss[i] \in Seq(AwardItem)
    BY <1>0
<1>2. plan = [i \in 1..Len(ss) |-> [to |-> channel, items |-> ss[i]]]
    BY <1>1 DEF To
<1>3. Len(plan) = Len(ss) /\ \A i \in 1..Len(ss) : plan[i].items = ss[i] /\ plan[i].to = channel
    BY <1>1, <1>2
<1>4. plan \in Seq(Message)
    <2>1. \A i \in 1..Len(ss) : [to |-> channel, items |-> ss[i]] \in Message
        BY <1>1 DEF Message
    <2> QED
        BY <1>1, <1>2, <2>1
<1> HIDE DEF plan
<1>5. ItemsIn(plan) = [i \in 1..Len(ss) |-> ss[i]]
    BY <1>3 DEF ItemsIn
<1>6. ItemsIn(plan) = ss
    BY <1>0, <1>1, <1>5
<1>7. Written(plan)
    BY <1>0, <1>3, <1>4, <1>6 DEF Written
<1>8. Carries(plan) = Range(s)
    <2>1. {Range(plan[i].items) : i \in 1..Len(plan)} = {Range(ss[i]) : i \in 1..Len(ss)}
        BY <1>3
    <2> QED
        BY <2>1 DEF Carries, Cuts
<1>9. Aims(plan, owed)
    <2> SUFFICES ASSUME NEW i \in 1..Len(ss), NEW x \in Range(ss[i])
                 PROVE  x \in DOMAIN owed /\ channel \in owed[x]
        BY <1>3 DEF Aims
    <2>1. x \in Range(s)
        BY DEF Cuts
    <2> QED
        BY <2>1
<1>10. Fits(kind, plan)
    <2> SUFFICES ASSUME NEW i \in 1..Len(ss), Len(ss[i]) > MaxInMessage
                 PROVE  kind = "training" \/ channel = Engineer
        BY <1>3 DEF Fits
    <2>1. Len(ss[i]) \in Nat /\ MaxInMessage \in Nat
        BY <1>1, AwardsAssumption
    <2>2. ~(Len(ss[i]) <= MaxInMessage)
        BY <2>1
    <2> QED
        BY <2>2
<1> QED
    BY <1>7, <1>8, <1>9, <1>10 DEF Tells, plan

\* Two plans one after the other, that tell nothing both.
LEMMA BothWritten ==
    ASSUME NEW p, NEW q, Written(p), Written(q),
           \A i \in 1..Len(p), j \in 1..Len(q) : \A k \in 1..Len(p[i].items), l \in 1..Len(q[j].items) :
              p[i].items[k] # q[j].items[l]
    PROVE  Written(p \o q)
<1> DEFINE r == p \o q  m == Len(p)  n == Len(q)
<1>1. p \in Seq(Message) /\ q \in Seq(Message) /\ m \in Nat /\ n \in Nat
    BY DEF Written
<1>2. r \in Seq(Message) /\ Len(r) = m + n /\ (\A i \in 1..m : r[i] = p[i]) /\ \A i \in (m + 1)..(m + n) : r[i] = q[i - m]
    BY <1>1
<1>3. \A i \in 1..(m + n) : i \in 1..m \/ (i \in (m + 1)..(m + n) /\ i - m \in 1..n)
    <2> HIDE DEF m, n
    <2> QED
        BY <1>1
<1>4. /\ \A i, j \in 1..m : \A k \in 1..Len(p[i].items), l \in 1..Len(p[j].items) :
           p[i].items[k] = p[j].items[l] => i = j /\ k = l
      /\ \A i, j \in 1..n : \A k \in 1..Len(q[i].items), l \in 1..Len(q[j].items) :
           q[i].items[k] = q[j].items[l] => i = j /\ k = l
    <2>1. /\ Once(ItemsIn(p)) /\ Len(ItemsIn(p)) = m /\ \A i \in 1..m : ItemsIn(p)[i] = p[i].items
          /\ Once(ItemsIn(q)) /\ Len(ItemsIn(q)) = n /\ \A i \in 1..n : ItemsIn(q)[i] = q[i].items
        BY <1>1 DEF ItemsIn, Written
    <2> HIDE DEF m, n
    <2>2. ASSUME NEW i \in 1..m, NEW j \in 1..m, NEW k \in 1..Len(p[i].items), NEW l \in 1..Len(p[j].items),
                 p[i].items[k] = p[j].items[l]
          PROVE  i = j /\ k = l
        <3>1. ItemsIn(p)[i] = p[i].items /\ ItemsIn(p)[j] = p[j].items
            BY <2>1
        <3> QED
            BY <2>1, <2>2, <3>1 DEF Once
    <2>3. ASSUME NEW i \in 1..n, NEW j \in 1..n, NEW k \in 1..Len(q[i].items), NEW l \in 1..Len(q[j].items),
                 q[i].items[k] = q[j].items[l]
          PROVE  i = j /\ k = l
        <3>1. ItemsIn(q)[i] = q[i].items /\ ItemsIn(q)[j] = q[j].items
            BY <2>1
        <3> QED
            BY <2>1, <2>3, <3>1 DEF Once
    <2> QED
        BY <2>2, <2>3
<1> HIDE DEF r
<1>5. ASSUME NEW i \in 1..(m + n), NEW j \in 1..(m + n), NEW k \in 1..Len(r[i].items), NEW l \in 1..Len(r[j].items),
             r[i].items[k] = r[j].items[l]
      PROVE  i = j /\ k = l
    <2>1. CASE i \in 1..m /\ j \in 1..m
        <3>1. r[i] = p[i] /\ r[j] = p[j]
            BY <1>2, <2>1
        <3> QED
            BY <1>4, <1>5, <2>1, <3>1
    <2>2. CASE i \in 1..m /\ j \notin 1..m
        <3>1. r[i] = p[i] /\ r[j] = q[j - m] /\ j - m \in 1..n
            BY <1>2, <1>3, <2>2
        <3> QED
            BY <1>5, <2>2, <3>1
    <2>3. CASE i \notin 1..m /\ j \in 1..m
        <3>1. r[j] = p[j] /\ r[i] = q[i - m] /\ i - m \in 1..n
            BY <1>2, <1>3, <2>3
        <3> QED
            BY <1>5, <2>3, <3>1
    <2>4. CASE i \notin 1..m /\ j \notin 1..m
        <3>1. r[i] = q[i - m] /\ r[j] = q[j - m] /\ i - m \in 1..n /\ j - m \in 1..n
            BY <1>2, <1>3, <2>4
        <3>2. i - m = j - m /\ k = l
            BY <1>4, <1>5, <3>1
        <3> HIDE DEF m, n
        <3>3. i = j
            BY <1>1, <3>2
        <3> QED
            BY <3>2, <3>3
    <2> QED
        BY <2>1, <2>2, <2>3, <2>4
<1>6. \A i \in 1..(m + n) : Len(r[i].items) >= 1
    BY <1>2, <1>3 DEF Written
<1>7. Once(ItemsIn(r))
    <2>1. Len(ItemsIn(r)) = m + n /\ \A i \in 1..(m + n) : ItemsIn(r)[i] = r[i].items
        BY <1>1, <1>2 DEF ItemsIn
    <2> HIDE DEF m, n
    <2> QED
        BY <1>5, <2>1 DEF Once
<1> QED
    BY <1>2, <1>6, <1>7 DEF Written, r

LEMMA TwoJoined ==
    ASSUME NEW X, NEW a \in Seq(X), NEW b \in Seq(X)
    PROVE  FlattenSeq(<<a, b>>) = a \o b
<1> DEFINE ss == <<a, b>>
<1>1. ss \in Seq(Seq(X)) /\ Len(ss) = 2 /\ ss[1] = a /\ ss[2] = b
    OBVIOUS
<1> HIDE DEF ss
<1>2. PICK f : /\ f \in [0..Len(ss) -> Seq(X)] /\ f[0] = <<>> /\ FlattenSeq(ss) = f[Len(ss)]
               /\ \A i \in 1..Len(ss) : f[i] = f[i - 1] \o ss[i]
    BY <1>1, JoinsAll
<1>3. 1 \in 1..Len(ss) /\ 2 \in 1..Len(ss) /\ 1 - 1 = 0 /\ 2 - 1 = 1
    BY <1>1
<1>4. f[1] = f[0] \o ss[1] /\ f[2] = f[1] \o ss[2]
    BY <1>2, <1>3
<1>5. <<>> \o a = a
    OBVIOUS
<1>6. f[1] = a
    BY <1>1, <1>2, <1>4, <1>5
<1> QED
    BY <1>1, <1>2, <1>4, <1>6 DEF ss

\* One plan after another tells what both tell.
LEMMA JoinedTells ==
    ASSUME NEW kind, NEW p, NEW q, NEW owed, NEW A, NEW B,
           Tells(kind, p, owed, A), Tells(kind, q, owed, B), A \cap B = {}
    PROVE  Tells(kind, p \o q, owed, A \cup B)
<1> DEFINE r == p \o q  m == Len(p)  n == Len(q)
<1>1. p \in Seq(Message) /\ q \in Seq(Message) /\ m \in Nat /\ n \in Nat
    BY DEF Tells, Written
<1>2. Len(r) = m + n /\ (\A i \in 1..m : r[i] = p[i]) /\ \A i \in (m + 1)..(m + n) : r[i] = q[i - m]
    BY <1>1
<1>3. \A i \in 1..(m + n) : i \in 1..m \/ (i \in (m + 1)..(m + n) /\ i - m \in 1..n)
    <2> HIDE DEF m, n
    <2> QED
        BY <1>1
<1>4. (\A i \in 1..m : i \in 1..(m + n)) /\ \A i \in 1..n : m + i \in (m + 1)..(m + n) /\ m + i \in 1..(m + n) /\ (m + i) - m = i
    <2> HIDE DEF m, n
    <2> QED
        BY <1>1
<1>5. (\A i \in 1..m : r[i] = p[i] /\ i \in 1..(m + n)) /\ \A i \in 1..n : r[m + i] = q[i] /\ m + i \in 1..(m + n)
    BY <1>2, <1>4
<1>6. \A i \in 1..m : p[i].items \in Seq(AwardItem) /\ \A k \in 1..Len(p[i].items) : p[i].items[k] \in A
    <2> SUFFICES ASSUME NEW i \in 1..m
                 PROVE  p[i].items \in Seq(AwardItem) /\ \A k \in 1..Len(p[i].items) : p[i].items[k] \in A
        OBVIOUS
    <2>1. p[i] \in Message
        BY <1>1
    <2>2. p[i].items \in Seq(AwardItem)
        BY <2>1 DEF Message
    <2>3. DOMAIN p[i].items = 1..Len(p[i].items)
        BY <2>2
    <2>4. Range(p[i].items) \subseteq A
        BY DEF Tells, Carries
    <2> QED
        BY <2>2, <2>3, <2>4 DEF Range
<1>7. \A i \in 1..n : q[i].items \in Seq(AwardItem) /\ \A k \in 1..Len(q[i].items) : q[i].items[k] \in B
    <2> SUFFICES ASSUME NEW i \in 1..n
                 PROVE  q[i].items \in Seq(AwardItem) /\ \A k \in 1..Len(q[i].items) : q[i].items[k] \in B
        OBVIOUS
    <2>1. q[i] \in Message
        BY <1>1
    <2>2. q[i].items \in Seq(AwardItem)
        BY <2>1 DEF Message
    <2>3. DOMAIN q[i].items = 1..Len(q[i].items)
        BY <2>2
    <2>4. Range(q[i].items) \subseteq B
        BY DEF Tells, Carries
    <2> QED
        BY <2>2, <2>3, <2>4 DEF Range
<1>8. \A i \in 1..m, j \in 1..n : \A k \in 1..Len(p[i].items), l \in 1..Len(q[j].items) : p[i].items[k] # q[j].items[l]
    <2> SUFFICES ASSUME NEW i \in 1..m, NEW j \in 1..n, NEW k \in 1..Len(p[i].items), NEW l \in 1..Len(q[j].items)
                 PROVE  p[i].items[k] # q[j].items[l]
        OBVIOUS
    <2>1. p[i].items[k] \in A /\ q[j].items[l] \in B
        BY <1>6, <1>7
    <2> QED
        BY <2>1
<1>9. Written(r)
    BY <1>8, BothWritten DEF Tells
<1> HIDE DEF r, m, n
<1>10. Carries(r) = A \cup B
    <2>1. A = UNION {Range(p[i].items) : i \in 1..m} /\ B = UNION {Range(q[i].items) : i \in 1..n}
        BY DEF Tells, Carries, m, n
    <2>2. Carries(r) = UNION {Range(r[i].items) : i \in 1..(m + n)}
        BY <1>2 DEF Carries
    <2>3. ASSUME NEW x \in A
          PROVE  x \in Carries(r)
        <3>1. PICK i \in 1..m : x \in Range(p[i].items)
            BY <2>1
        <3> QED
            BY <1>5, <2>2, <3>1
    <2>4. ASSUME NEW x \in B
          PROVE  x \in Carries(r)
        <3>1. PICK i \in 1..n : x \in Range(q[i].items)
            BY <2>1
        <3> QED
            BY <1>5, <2>2, <3>1
    <2>5. ASSUME NEW x \in Carries(r)
          PROVE  x \in A \cup B
        <3>1. PICK i \in 1..(m + n) : x \in Range(r[i].items)
            BY <2>2
        <3> QED
            BY <1>2, <1>3, <2>1, <3>1
    <2> QED
        BY <2>3, <2>4, <2>5
<1>11. Aims(r, owed)
    <2> SUFFICES ASSUME NEW i \in 1..(m + n), NEW x \in Range(r[i].items)
                 PROVE  x \in DOMAIN owed /\ r[i].to \in owed[x]
        BY <1>2 DEF Aims
    <2>1. CASE i \in 1..m
        BY <1>2, <2>1 DEF Tells, Aims, m
    <2>2. CASE i \notin 1..m
        BY <1>2, <1>3, <2>2 DEF Tells, Aims, n
    <2> QED
        BY <2>1, <2>2
<1>12. Fits(kind, r)
    <2> SUFFICES ASSUME NEW i \in 1..(m + n), Len(r[i].items) > MaxInMessage
                 PROVE  kind = "training" \/ r[i].to = Engineer
        BY <1>2 DEF Fits
    <2>1. CASE i \in 1..m
        BY <1>2, <2>1 DEF Tells, Fits, m
    <2>2. CASE i \notin 1..m
        BY <1>2, <1>3, <2>2 DEF Tells, Fits, n
    <2> QED
        BY <2>1, <2>2
<1> QED
    BY <1>9, <1>10, <1>11, <1>12 DEF Tells, r

(* What the tasks find for themselves, and what is owed. *)
Tallied ==
    /\ DOMAIN tally \subseteq Sailor /\ Range(tally) \subseteq Counts
    /\ marks \in [Sailor -> Marks] /\ badges \in [Sailor -> SUBSET Badge] /\ gone \subseteq Badge

\* Where the first medal not earned ends the walk through them, the last one
\* before it is the highest of those reached, and the only one a round owes.
LEMMA HighestEarned ==
    ASSUME NEW c \in DOMAIN Medals, NEW n \in Nat, NEW s
    PROVE  Owing(s, n, c) = IF Lacks(s, Highest(n, Medals[c])) THEN {Highest(n, Medals[c])} ELSE {}
<1> DEFINE m == Medals[c]
           l == Len(m)
           won == {i \in DOMAIN m : \A j \in 1..i : n >= m[j].threshold}
           met == {k \in DOMAIN m : m[k].threshold <= n}
<1>1. DOMAIN m = 1..l /\ l \in Nat /\ \A i \in 1..l : m[i].threshold \in Nat \ {0}
    <2>1. m \in Seq(Range(m)) /\ \A i \in DOMAIN m : m[i].threshold \in Nat \ {0}
        BY AwardsAssumption
    <2> HIDE DEF m
    <2> QED
        BY <2>1
<1>2. \A i, j \in 1..l : i < j => m[i].threshold < m[j].threshold
    BY <1>1, AwardsAssumption
<1>0. Reached(n, c) = {m[k] : k \in met}
    BY DEF Reached, Range
<1>9. /\ Highest(n, m) = IF won = {} THEN NoAward ELSE m[Max(won)]
      /\ Owing(s, n, c) = {x \in Reached(n, c) : /\ \A k \in Reached(n, c) : k.threshold <= x.threshold
                                                 /\ x.badge \notin badges[s]}
    BY DEF Highest, Owing
<1> HIDE DEF m, l
<1>3. won = met
    <2>1. ASSUME NEW i \in met, NEW j \in 1..i
          PROVE  n >= m[j].threshold
        <3>1. i \in 1..l /\ j \in 1..l /\ m[i].threshold <= n /\ (j = i \/ j < i)
            BY <1>1
        <3>2. m[j].threshold <= m[i].threshold /\ m[j].threshold \in Nat /\ m[i].threshold \in Nat
            BY <1>1, <1>2, <3>1
        <3> QED
            BY <3>1, <3>2
    <2>2. ASSUME NEW i \in won
          PROVE  i \in met
        <3>1. i \in 1..l /\ i \in 1..i /\ i \in DOMAIN m
            BY <1>1
        <3>2. n >= m[i].threshold /\ m[i].threshold \in Nat
            BY <1>1, <3>1
        <3> QED
            BY <3>1, <3>2
    <2> QED
        BY <2>1, <2>2
<1>5. CASE met = {}
    <2>1. Reached(n, c) = {} /\ Highest(n, m) = NoAward
        BY <1>0, <1>3, <1>5, <1>9
    <2>2. ~Lacks(s, NoAward)
        BY DEF Lacks
    <2> QED
        BY <1>9, <2>1, <2>2 DEF m
<1>6. CASE met # {}
    <2> DEFINE Top == {l - i : i \in met}
    <2>1. Top \in SUBSET Nat /\ Top # {}
        BY <1>1, <1>6
    <2>2. PICK d \in Top : \A o \in Top : d <= o
        <3> HIDE DEF Top
        <3> QED
            BY <2>1, Least
    <2>3. PICK t \in met : d = l - t
        OBVIOUS
    <2>4. \A i \in met : i <= t
        <3> SUFFICES ASSUME NEW i \in met
                     PROVE  i <= t
            OBVIOUS
        <3>1. l - t <= l - i
            BY <2>2, <2>3
        <3>2. i \in Nat /\ t \in Nat
            BY <1>1
        <3> QED
            BY <1>1, <3>1, <3>2
    <2>5. Max(met) \in met /\ \A i \in met : Max(met) >= i
        <3>1. \A i \in met : i \in Nat
            BY <1>1
        <3> HIDE DEF met
        <3>2. \E x \in met : \A y \in met : x >= y
            BY <2>4, <3>1
        <3> QED
            BY <3>2 DEF Max
    <2> DEFINE u == Max(met)
    <2> HIDE DEF u
    <2>6. u \in met /\ \A i \in met : u >= i
        BY <2>5 DEF u
    <2>7. u \in 1..l /\ \A i \in met : i \in 1..l
        BY <1>1, <2>6
    <2>8. \A i \in met : i # u => m[i].threshold < m[u].threshold
        <3> SUFFICES ASSUME NEW i \in met, i # u
                     PROVE  m[i].threshold < m[u].threshold
            OBVIOUS
        <3>1. i < u
            BY <1>1, <2>6, <2>7
        <3> QED
            BY <1>2, <2>7, <3>1
    <2>9. \A i \in met : m[i].threshold \in Nat \ {0}
        BY <1>1, <2>7
    <2>10. m[u] # NoAward
        <3>1. m[u].threshold # 0
            BY <2>6, <2>9
        <3> QED
            BY <3>1 DEF NoAward
    <2>11. Highest(n, m) = m[u]
        BY <1>3, <1>6, <1>9 DEF u
    <2> HIDE DEF met
    <2>12. ASSUME NEW i \in met
           PROVE  (\A k \in met : m[k].threshold <= m[i].threshold) <=> i = u
        <3>1. m[i].threshold \in Nat /\ m[u].threshold \in Nat /\ \A k \in met : m[k].threshold \in Nat
            BY <2>6, <2>9
        <3>2. CASE i = u
            <4>1. \A k \in met : k = u \/ m[k].threshold < m[u].threshold
                BY <2>8
            <4> QED
                BY <3>1, <3>2, <4>1
        <3>3. CASE i # u
            <4>1. m[i].threshold < m[u].threshold
                BY <2>8, <3>3
            <4> QED
                BY <2>6, <3>1, <3>3, <4>1
        <3> QED
            BY <3>2, <3>3
    <2>13. \A i \in met : (\A k \in Reached(n, c) : k.threshold <= m[i].threshold) <=> i = u
        BY <1>0, <2>12
    <2>14. Owing(s, n, c) = {x \in {m[u]} : x.badge \notin badges[s]}
        BY <1>0, <1>9, <2>6, <2>13
    <2>15. Lacks(s, m[u]) <=> m[u].badge \notin badges[s]
        BY <2>10 DEF Lacks
    <2> QED
        BY <2>11, <2>14, <2>15 DEF m
<1> QED
    BY <1>5, <1>6

\* An award without points is none, and nobody lacks it.
LEMMA EarnedOwed ==
    ASSUME Tallied, NEW s \in Sailor, NEW c \in Categories
    PROVE  /\ s \notin DOMAIN tally => ~Lacks(s, Earned(s, c))
           /\ s \in DOMAIN tally =>
                Owing(s, tally[s][c], c) = IF Lacks(s, Earned(s, c)) THEN {Earned(s, c)} ELSE {}
<1>1. c \in DOMAIN Medals /\ c \in Range(Category)
    <2>1. PICK i \in DOMAIN Category : c = Category[i]
        BY DEF Categories, Range
    <2>2. Category \in Seq(DOMAIN Medals)
        BY AwardsAssumption
    <2>3. Category[i] \in DOMAIN Medals
        BY <2>2
    <2> QED
        BY <2>1, <2>3 DEF Categories
<1>2. s \notin DOMAIN tally => ~Lacks(s, Earned(s, c))
    BY DEF Earned, Lacks
<1>3. ASSUME s \in DOMAIN tally
      PROVE  Owing(s, tally[s][c], c) = IF Lacks(s, Earned(s, c)) THEN {Earned(s, c)} ELSE {}
    <2>1. tally[s] \in Counts
        BY <1>3 DEF Tallied, Range
    <2>2. tally[s][c] \in Nat
        BY <1>1, <2>1, AwardsAssumption
    <2>3. Earned(s, c) = Highest(tally[s][c], Medals[c])
        BY <1>3 DEF Earned
    <2> QED
        BY <1>1, <2>2, <2>3, HighestEarned
<1> QED
    BY <1>2, <1>3

\* What the Board's task finds of members: each award they lack, once.
LEMMA ItemsAre ==
    ASSUME NEW members \in Seq(Sailor), IsInjective(members)
    PROVE  /\ Items(members) \in Seq(AwardItem) /\ IsInjective(Items(members))
           /\ Range(Items(members)) = {x \in [who : Range(members), of : Categories] : Lacks(x.who, Earned(x.who, x.of))}
<1> DEFINE wants(s) == {c \in Categories : Lacks(s, Earned(s, c))}
           told(s) == Among(Category, wants(s))
           ss == [i \in 1..Len(members) |-> [k \in DOMAIN told(members[i]) |-> [who |-> members[i], of |-> told(members[i])[k]]]]
           n == Len(members)
<1>1. n \in Nat /\ DOMAIN members = 1..n /\ \A i \in 1..n : members[i] \in Sailor
    OBVIOUS
<1>2. Items(members) = FlattenSeq(ss)
    BY <1>1 DEF Items
<1>3. ASSUME NEW s
      PROVE  /\ told(s) \in Seq(DOMAIN Medals) /\ IsInjective(told(s)) /\ Len(told(s)) \in Nat
             /\ DOMAIN told(s) = 1..Len(told(s)) /\ Range(told(s)) = wants(s)
    <2>1. Category \in Seq(DOMAIN Medals) /\ IsInjective(Category)
        BY AwardsAssumption
    <2> DEFINE W == wants(s)
    <2>2. W \subseteq Range(Category)
        BY DEF Categories
    <2> HIDE DEF W
    <2>3. /\ Among(Category, W) \in Seq(DOMAIN Medals) /\ IsInjective(Among(Category, W))
          /\ \A k \in DOMAIN Among(Category, W) : Among(Category, W)[k] \in W
          /\ \A i \in DOMAIN Category : Category[i] \in W => \E k \in DOMAIN Among(Category, W) : Among(Category, W)[k] = Category[i]
        BY <2>1, AmongPicks
    <2>4. Range(Among(Category, W)) = W
        BY <2>2, <2>3 DEF Range
    <2>5. told(s) = Among(Category, W) /\ wants(s) = W
        BY DEF W
    <2> HIDE DEF told, wants
    <2> QED
        BY <2>3, <2>4, <2>5
<1> HIDE DEF told, wants
<1>4. ASSUME NEW i \in 1..n
      PROVE  /\ ss[i] \in Seq(AwardItem) /\ Len(ss[i]) = Len(told(members[i]))
             /\ \A k \in 1..Len(ss[i]) : ss[i][k] = [who |-> members[i], of |-> told(members[i])[k]]
             /\ Range(ss[i]) = {[who |-> members[i], of |-> c] : c \in wants(members[i])}
    <2> DEFINE t == told(members[i])  l == Len(told(members[i]))
    <2>1. ss[i] = [k \in 1..l |-> [who |-> members[i], of |-> t[k]]]
        BY <1>3
    <2>2. l \in Nat /\ \A k \in 1..l : t[k] \in DOMAIN Medals
        BY <1>3
    <2>3. \A k \in 1..l : [who |-> members[i], of |-> t[k]] \in AwardItem
        BY <1>1, <2>2 DEF AwardItem
    <2>5. DOMAIN t = 1..l /\ Range(t) = wants(members[i])
        BY <1>3
    <2> HIDE DEF ss, t, l
    <2>4. Len(ss[i]) = l /\ ss[i] \in Seq(AwardItem)
        BY <2>1, <2>2, <2>3
    <2>6. Range(ss[i]) = {[who |-> members[i], of |-> t[k]] : k \in 1..l}
        BY <2>1 DEF Range
    <2>7. Range(ss[i]) = {[who |-> members[i], of |-> c] : c \in wants(members[i])}
        BY <2>5, <2>6 DEF Range
    <2> QED
        BY <2>1, <2>4, <2>7 DEF l, t
<1>5. ss \in Seq(Seq(AwardItem)) /\ Len(ss) = n /\ DOMAIN ss = 1..n
    BY <1>1, <1>4
<1> HIDE DEF ss
<1>6. ASSUME NEW i \in 1..Len(ss), NEW j \in 1..Len(ss), NEW k \in 1..Len(ss[i]), NEW l \in 1..Len(ss[j]),
             ss[i][k] = ss[j][l]
      PROVE  i = j /\ k = l
    <2> DEFINE t == told(members[i])  u == told(members[j])
    <2>1. [who |-> members[i], of |-> t[k]] = [who |-> members[j], of |-> u[l]]
        BY <1>4, <1>5, <1>6
    <2>2. members[i] = members[j] /\ t[k] = u[l]
        BY <2>1
    <2>3. i = j
        BY <1>1, <1>5, <2>2 DEF IsInjective
    <2>4. k \in DOMAIN t /\ l \in DOMAIN t /\ t[k] = t[l] /\ IsInjective(t)
        BY <1>3, <1>4, <1>5, <2>2, <2>3
    <2>5. k = l
        BY <2>4 DEF IsInjective
    <2> QED
        BY <2>3, <2>5
<1>7. \A i, j \in 1..Len(ss) : \A k \in 1..Len(ss[i]), l \in 1..Len(ss[j]) :
         ss[i][k] = ss[j][l] => i = j /\ k = l
    BY <1>6
<1>8. /\ FlattenSeq(ss) \in Seq(AwardItem) /\ IsInjective(FlattenSeq(ss))
      /\ Range(FlattenSeq(ss)) = UNION {Range(ss[i]) : i \in 1..n}
    BY <1>5, <1>7, FlatOfEach
<1>9. Range(members) = {members[i] : i \in 1..n}
    BY <1>1 DEF Range
<1>10. UNION {Range(ss[i]) : i \in 1..n} =
         {x \in [who : Range(members), of : Categories] : Lacks(x.who, Earned(x.who, x.of))}
    <2>1. ASSUME NEW i \in 1..n, NEW x \in Range(ss[i])
          PROVE  x \in [who : Range(members), of : Categories] /\ Lacks(x.who, Earned(x.who, x.of))
        <3>1. PICK c \in wants(members[i]) : x = [who |-> members[i], of |-> c]
            BY <1>4
        <3>2. c \in Categories /\ Lacks(members[i], Earned(members[i], c))
            BY <3>1 DEF wants
        <3> QED
            BY <1>9, <3>1, <3>2
    <2>2. ASSUME NEW x \in [who : Range(members), of : Categories], Lacks(x.who, Earned(x.who, x.of))
          PROVE  \E i \in 1..n : x \in Range(ss[i])
        <3>1. PICK i \in 1..n : x.who = members[i]
            BY <1>9
        <3>2. x = [who |-> members[i], of |-> x.of] /\ x.of \in wants(members[i])
            BY <2>2, <3>1 DEF wants
        <3> QED
            BY <1>4, <3>2
    <2> QED
        BY <2>1, <2>2
<1> QED
    BY <1>2, <1>8, <1>10

\* What a department's task finds: the award of each deserving member it is for.
Findings(members, c, d) ==
    {x \in [who : Range(members), of : {c}] :
        ~Excluded(x.who) /\ Lacks(x.who, MarksAward(x.who, c)) /\ DeskFor(x.who, c) = d}

LEMMA DeskItemsAre ==
    ASSUME NEW members \in Seq(Sailor), IsInjective(members), NEW c \in DOMAIN Medals, NEW d
    PROVE  /\ DeskItems(members, c, d) \in Seq(AwardItem) /\ IsInjective(DeskItems(members, c, d))
           /\ Range(DeskItems(members, c, d)) = Findings(members, c, d)
<1> DEFINE S == {s \in Sailor : ~Excluded(s) /\ Lacks(s, MarksAward(s, c))}
           D == {s \in Sailor : DeskFor(s, c) = d}
           ready == Deserving(members, c)
           mine == Among(ready, D)
           items == DeskItems(members, c, d)
<1>1. ready = Among(members, S)
    BY DEF Deserving
<1>2. items = [i \in DOMAIN mine |-> [who |-> mine[i], of |-> c]]
    BY DEF DeskItems
<1>3. Range(members) \subseteq Sailor
    BY DEF Range
<1>4. Findings(members, c, d) = {x \in [who : Range(members), of : {c}] : x.who \in S \cap D}
    BY <1>3 DEF Findings
<1> HIDE DEF S, D, ready, items
<1>5. /\ ready \in Seq(Sailor) /\ IsInjective(ready)
      /\ \A k \in DOMAIN ready : ready[k] \in S /\ \E i \in DOMAIN members : ready[k] = members[i]
      /\ \A i \in DOMAIN members : members[i] \in S => \E k \in DOMAIN ready : ready[k] = members[i]
    BY <1>1, AmongPicks
<1>6. Range(ready) = Range(members) \cap S
    BY <1>5 DEF Range
<1>7. /\ mine \in Seq(Sailor) /\ IsInjective(mine)
      /\ \A k \in DOMAIN mine : mine[k] \in D /\ \E i \in DOMAIN ready : mine[k] = ready[i]
      /\ \A i \in DOMAIN ready : ready[i] \in D => \E k \in DOMAIN mine : mine[k] = ready[i]
    <2>1. ready \in Seq(Sailor) /\ IsInjective(ready)
        BY <1>5
    <2> HIDE DEF mine
    <2>2. /\ Among(ready, D) \in Seq(Sailor) /\ IsInjective(Among(ready, D))
          /\ \A k \in DOMAIN Among(ready, D) :
               Among(ready, D)[k] \in D /\ \E i \in DOMAIN ready : Among(ready, D)[k] = ready[i]
          /\ \A i \in DOMAIN ready : ready[i] \in D => \E k \in DOMAIN Among(ready, D) : Among(ready, D)[k] = ready[i]
        <3> HIDE DEF D
        <3> QED
            BY <2>1, AmongPicks
    <2> QED
        BY <2>2 DEF mine
<1> HIDE DEF mine
<1>8. Range(mine) = Range(ready) \cap D
    BY <1>7 DEF Range
<1>9. DOMAIN mine = 1..Len(mine) /\ Len(mine) \in Nat /\ \A k \in 1..Len(mine) : [who |-> mine[k], of |-> c] \in AwardItem
    BY <1>7 DEF AwardItem
<1>10. items \in Seq(AwardItem) /\ DOMAIN items = DOMAIN mine
    BY <1>2, <1>9
<1>11. \A k \in DOMAIN mine : items[k].who = mine[k]
    BY <1>2
<1>12. IsInjective(items)
    BY <1>7, <1>10, <1>11 DEF IsInjective
<1>13. Range(items) = {[who |-> s, of |-> c] : s \in Range(mine)}
    BY <1>2 DEF Range
<1>14. {[who |-> s, of |-> c] : s \in Range(mine)} = Findings(members, c, d)
    <2>1. Range(mine) = Range(members) \cap (S \cap D)
        BY <1>6, <1>8
    <2>2. ASSUME NEW s \in Range(mine)
          PROVE  [who |-> s, of |-> c] \in Findings(members, c, d)
        BY <1>4, <2>1
    <2>3. ASSUME NEW x \in Findings(members, c, d)
          PROVE  \E s \in Range(mine) : x = [who |-> s, of |-> c]
        <3>1. x \in [who : Range(members), of : {c}] /\ x.who \in S \cap D
            BY <1>4
        <3>2. x = [who |-> x.who, of |-> c] /\ x.who \in Range(mine)
            BY <2>1, <3>1
        <3> QED
            BY <3>2
    <2> QED
        BY <2>2, <2>3
<1> QED
    BY <1>10, <1>12, <1>13, <1>14 DEF items

\* A department finds what is owed to it, or to either; no award is found by both.
LEMMA DesksFindOwed ==
    ASSUME Tallied, NEW members \in Seq(Sailor), NEW c \in {"training", "representation"}, NEW channels
    PROVE  /\ Findings(members, c, "first") \cup Findings(members, c, "second") = DOMAIN OwedByDesks(members, c, channels)
           /\ Findings(members, c, "first") \cap Findings(members, c, "second") = {}
           /\ \A d \in Departments : \A x \in Findings(members, c, d) :
                /\ x \in DOMAIN OwedByDesks(members, c, channels)
                /\ d \in channels => d \in OwedByDesks(members, c, channels)[x]
                /\ d \notin channels => Engineer \in OwedByDesks(members, c, channels)[x]
<1> DEFINE other(d) == IF d = "first" THEN "second" ELSE "first"
           owed == OwedByDesks(members, c, channels)
           own(s) == {d \in Departments : Belongs(s, c, d, other(d))}
           Owes == {y \in [who : Range(members), of : {c}] :
                      ~Excluded(y.who) /\ Owing(y.who, marks[y.who].first + marks[y.who].second, c) # {}}
<1>1. c \in DOMAIN Medals
    BY AwardsAssumption
<1>2. owed = [x \in Owes |-> (own(x.who) \cap channels) \cup {Engineer : d \in own(x.who) \ channels}]
    BY DEF OwedByDesks
<1>3. \A s \in Sailor : marks[s].first \in Nat /\ marks[s].second \in Nat
    BY AwardsAssumption DEF Tallied
<1>4. ASSUME NEW s \in Sailor
      PROVE  /\ DeskFor(s, c) \in Departments
             /\ Owing(s, marks[s].first + marks[s].second, c) # {} <=> Lacks(s, MarksAward(s, c))
             /\ Belongs(s, c, DeskFor(s, c), other(DeskFor(s, c)))
    <2>1. marks[s].first \in Nat /\ marks[s].second \in Nat /\ marks[s].first + marks[s].second \in Nat
        BY <1>3
    <2>2. Owing(s, marks[s].first + marks[s].second, c) # {} <=> Lacks(s, MarksAward(s, c))
        BY <1>1, <2>1, HighestEarned DEF MarksAward
    <2>3. CASE c = "representation"
        <3>1. DeskFor(s, c) = IF marks[s].first > marks[s].second THEN "first" ELSE "second"
            BY <2>3 DEF DeskFor, RepresentationDesk
        <3>2. \A d \in Departments : Belongs(s, c, d, other(d)) <=> marks[s][d] >= marks[s][other(d)]
            BY <2>3 DEF Belongs
        <3>3. CASE marks[s].first > marks[s].second
            BY <2>1, <2>2, <3>1, <3>2, <3>3 DEF Departments
        <3>4. CASE ~(marks[s].first > marks[s].second)
            BY <2>1, <2>2, <3>1, <3>2, <3>4 DEF Departments
        <3> QED
            BY <3>3, <3>4
    <2>4. CASE c = "training"
        <3> DEFINE nrcOf == "NRC" \in PostsOf(s)  netcOf == "NETC" \in PostsOf(s)
        <3>1. DeskFor(s, c) =
                IF nrcOf /\ ~netcOf THEN "first" ELSE IF netcOf /\ ~nrcOf THEN "second"
                ELSE IF marks[s].first > marks[s].second THEN "first"
                ELSE IF marks[s].second > marks[s].first THEN "second"
                ELSE IF s \in Odd THEN "second" ELSE "first"
            BY <2>4 DEF DeskFor, TrainingDesk
        <3>2. /\ Belongs(s, c, "first", "second") <=>
                   IF nrcOf <=> ~netcOf THEN nrcOf ELSE marks[s].first >= marks[s].second
              /\ Belongs(s, c, "second", "first") <=>
                   IF netcOf <=> ~nrcOf THEN netcOf ELSE marks[s].second >= marks[s].first
            BY <2>4 DEF Belongs
        <3> HIDE DEF nrcOf, netcOf
        <3>3. other("first") = "second" /\ other("second") = "first"
            OBVIOUS
        <3> HIDE DEF other
        <3>4. \/ DeskFor(s, c) = "first" /\ Belongs(s, c, "first", "second")
              \/ DeskFor(s, c) = "second" /\ Belongs(s, c, "second", "first")
            BY <2>1, <3>1, <3>2
        <3> QED
            BY <2>2, <3>3, <3>4 DEF Departments
    <2> QED
        BY <2>3, <2>4
<1>5. Range(members) \subseteq Sailor
    BY DEF Range
<1>6. \A d : Findings(members, c, d) = {x \in Owes : DeskFor(x.who, c) = d}
    BY <1>4, <1>5 DEF Findings
<1> HIDE DEF owed, own
<1>7. DOMAIN owed = Owes
    BY <1>2
<1>8. \A x \in Owes : DeskFor(x.who, c) \in Departments /\ DeskFor(x.who, c) \in own(x.who)
    BY <1>4, <1>5 DEF own
<1> HIDE DEF Owes
<1>9. /\ Findings(members, c, "first") \cup Findings(members, c, "second") = Owes
      /\ Findings(members, c, "first") \cap Findings(members, c, "second") = {}
    BY <1>6, <1>8 DEF Departments
<1>10. ASSUME NEW d \in Departments, NEW x \in Findings(members, c, d)
       PROVE  x \in Owes /\ (d \in channels => d \in owed[x]) /\ (d \notin channels => Engineer \in owed[x])
    <2>1. x \in Owes /\ DeskFor(x.who, c) = d
        BY <1>6
    <2>2. d \in own(x.who)
        BY <1>8, <2>1
    <2>3. owed[x] = (own(x.who) \cap channels) \cup {Engineer : e \in own(x.who) \ channels}
        BY <1>2, <2>1
    <2> QED
        BY <2>1, <2>2, <2>3
<1> QED
    BY <1>7, <1>9, <1>10 DEF owed

\* Each of the three rounds plans to tell just what it owes, where it owes it.
LEMMA PlansTell ==
    ASSUME Tallied, NEW members \in Seq(Sailor), IsInjective(members), NEW channels
    PROVE  /\ Planned("board", To("board", Chunks(Items(members))), OwedByBoard(members))
           /\ Planned("training", TrainingPlan(members), OwedByDesks(members, "training", Departments))
           /\ Planned("representation", RepresentationPlan(members, channels),
                      OwedByDesks(members, "representation", channels))
<1>1. Planned("board", To("board", Chunks(Items(members))), OwedByBoard(members))
    <2> DEFINE items == Items(members)  owed == OwedByBoard(members)
               Owes == {y \in [who : Range(members) \cap DOMAIN tally, of : Categories] :
                          Owing(y.who, tally[y.who][y.of], y.of) # {}}
    <2>1. items \in Seq(AwardItem) /\ IsInjective(items)
          /\ Range(items) = {x \in [who : Range(members), of : Categories] : Lacks(x.who, Earned(x.who, x.of))}
        BY ItemsAre
    <2>2. owed = [x \in Owes |-> {"board"}]
        BY DEF OwedByBoard
    <2>3. Range(members) \subseteq Sailor
        BY DEF Range
    <2>4. \A x \in [who : Range(members), of : Categories] :
             x \in Owes <=> Lacks(x.who, Earned(x.who, x.of))
        <3> SUFFICES ASSUME NEW x \in [who : Range(members), of : Categories]
                     PROVE  x \in Owes <=> Lacks(x.who, Earned(x.who, x.of))
            OBVIOUS
        <3>1. x.who \in Sailor /\ x.of \in Categories
            BY <2>3
        <3>2. /\ x.who \notin DOMAIN tally => ~Lacks(x.who, Earned(x.who, x.of))
              /\ x.who \in DOMAIN tally =>
                   Owing(x.who, tally[x.who][x.of], x.of) = IF Lacks(x.who, Earned(x.who, x.of)) THEN {Earned(x.who, x.of)} ELSE {}
            BY <3>1, EarnedOwed
        <3>3. x.who \in DOMAIN tally => x \in [who : Range(members) \cap DOMAIN tally, of : Categories]
            OBVIOUS
        <3>4. CASE x.who \in DOMAIN tally
            BY <3>2, <3>3, <3>4
        <3>5. CASE x.who \notin DOMAIN tally
            BY <3>2, <3>5
        <3> QED
            BY <3>4, <3>5
    <2>5. Owes \subseteq [who : Range(members), of : Categories]
        OBVIOUS
    <2> HIDE DEF Owes, items, owed
    <2>6. Range(items) = Owes /\ DOMAIN owed = Owes
        BY <2>1, <2>2, <2>4, <2>5
    <2>7. Cuts(Chunks(items), items) /\ \A i \in 1..Len(Chunks(items)) : Len(Chunks(items)[i]) <= MaxInMessage
        BY <2>1, ChunksCut
    <2>8. \A x \in Range(items) : x \in DOMAIN owed /\ "board" \in owed[x]
        BY <2>2, <2>6
    <2>9. Tells("board", To("board", Chunks(items)), owed, Range(items))
        BY <2>7, <2>8, PartTells DEF Destination
    <2> QED
        BY <2>6, <2>9 DEF Planned, items, owed
<1>2. Planned("training", TrainingPlan(members), OwedByDesks(members, "training", Departments))
    <2> DEFINE items(d) == DeskItems(members, "training", d)
               owed == OwedByDesks(members, "training", Departments)
               part(d) == To(d, Whole(items(d)))
    <2>1. ASSUME NEW d \in Departments
          PROVE  Tells("training", part(d), owed, Findings(members, "training", d))
        <3> DEFINE s == items(d)
        <3>1. s \in Seq(AwardItem) /\ IsInjective(s) /\ Range(s) = Findings(members, "training", d)
            BY AwardsAssumption, DeskItemsAre
        <3>2. \A x \in Range(s) : x \in DOMAIN owed /\ d \in owed[x]
            BY <3>1, DesksFindOwed
        <3>3. d \in Destination
            BY DEF Departments, Destination
        <3> HIDE DEF s, items, owed
        <3>4. Cuts(Whole(s), s)
            BY <3>1, WholeCut
        <3>5. Tells("training", To(d, Whole(s)), owed, Range(s))
            BY <3>2, <3>3, <3>4, PartTells
        <3> QED
            BY <3>1, <3>5 DEF s
    <2>2. /\ Findings(members, "training", "first") \cup Findings(members, "training", "second") = DOMAIN owed
          /\ Findings(members, "training", "first") \cap Findings(members, "training", "second") = {}
        BY DesksFindOwed
    <2>3. TrainingPlan(members) = part("first") \o part("second")
        BY DEF TrainingPlan
    <2> HIDE DEF part, owed
    <2>4. Tells("training", part("first"), owed, Findings(members, "training", "first"))
          /\ Tells("training", part("second"), owed, Findings(members, "training", "second"))
        BY <2>1 DEF Departments
    <2>5. Tells("training", part("first") \o part("second"), owed,
                Findings(members, "training", "first") \cup Findings(members, "training", "second"))
        BY <2>2, <2>4, JoinedTells
    <2> QED
        BY <2>2, <2>3, <2>5 DEF Planned, owed
<1>3. Planned("representation", RepresentationPlan(members, channels), OwedByDesks(members, "representation", channels))
    <2> DEFINE items(d) == DeskItems(members, "representation", d)
               owed == OwedByDesks(members, "representation", channels)
               part(d) == IF d \in channels THEN To(d, Chunks(items(d))) ELSE To(Engineer, Whole(items(d)))
               found(d) == Findings(members, "representation", d)
    <2>1. ASSUME NEW d \in Departments
          PROVE  Tells("representation", part(d), owed, found(d))
        <3> DEFINE s == items(d)
        <3>1. s \in Seq(AwardItem) /\ IsInjective(s) /\ Range(s) = found(d)
            BY AwardsAssumption, DeskItemsAre
        <3>2. \A x \in Range(s) : /\ x \in DOMAIN owed /\ (d \in channels => d \in owed[x])
                                  /\ d \notin channels => Engineer \in owed[x]
            BY <3>1, DesksFindOwed
        <3>3. d \in Destination /\ Engineer \in Destination
            BY DEF Departments, Destination
        <3> HIDE DEF s, items, owed, found
        <3>4. CASE d \in channels
            <4>1. Cuts(Chunks(s), s) /\ \A i \in 1..Len(Chunks(s)) : Len(Chunks(s)[i]) <= MaxInMessage
                BY <3>1, ChunksCut
            <4>2. Tells("representation", To(d, Chunks(s)), owed, Range(s))
                BY <3>2, <3>3, <3>4, <4>1, PartTells
            <4> QED
                BY <3>1, <3>4, <4>2 DEF s
        <3>5. CASE d \notin channels
            <4>1. Cuts(Whole(s), s)
                BY <3>1, WholeCut
            <4>2. Tells("representation", To(Engineer, Whole(s)), owed, Range(s))
                BY <3>2, <3>3, <3>5, <4>1, PartTells
            <4> QED
                BY <3>1, <3>5, <4>2 DEF s
        <3> QED
            BY <3>4, <3>5
    <2>2. found("first") \cup found("second") = DOMAIN owed /\ found("first") \cap found("second") = {}
        BY DesksFindOwed
    <2>3. RepresentationPlan(members, channels) = FlattenSeq(<<part("first"), part("second")>>)
        <3>1. [i \in 1..2 |-> part(<<"first", "second">>[i])] = <<part("first"), part("second")>>
            <4>1. \A i \in 1..2 : i = 1 \/ i = 2
                OBVIOUS
            <4>2. \A i \in 1..2 : part(<<"first", "second">>[i]) = <<part("first"), part("second")>>[i]
                BY <4>1
            <4> QED
                BY <4>2
        <3>2. RepresentationPlan(members, channels) = FlattenSeq([i \in 1..2 |-> part(<<"first", "second">>[i])])
            BY DEF RepresentationPlan
        <3> QED
            BY <3>1, <3>2
    <2> HIDE DEF part, owed, found
    <2>4. Tells("representation", part("first"), owed, found("first"))
          /\ Tells("representation", part("second"), owed, found("second"))
        BY <2>1 DEF Departments
    <2>5. Tells("representation", part("first") \o part("second"), owed, found("first") \cup found("second"))
        BY <2>2, <2>4, JoinedTells
    <2>6. part("first") \in Seq(Message) /\ part("second") \in Seq(Message)
        BY <2>4 DEF Tells, Written
    <2>7. RepresentationPlan(members, channels) = part("first") \o part("second")
        BY <2>3, <2>6, TwoJoined
    <2> QED
        BY <2>2, <2>5, <2>7 DEF Planned, owed
<1> QED
    BY <1>1, <1>2, <1>3

\* What /check_awards shows of members: each award missing, once.
Line(s, c) == [who |-> s, of |-> c, officer |-> Assigned(Responsible(s, Earned(s, c)))]
Lines(members) ==
    {Line(x.who, x.of) : x \in {y \in [who : Range(members), of : Categories] : Missing(y.who, Earned(y.who, y.of))}}

LEMMA ShownAre ==
    ASSUME NEW members \in Seq(Sailor), IsInjective(members)
    PROVE  Range(Shown(members)) = Lines(members) /\ IsInjective(Shown(members))
<1> DEFINE wants(a) == {d \in Categories : Missing(a, Earned(a, d))}
           told(a) == Among(Category, wants(a))
           ss == [i \in 1..Len(members) |-> Pending(members[i])]
           n == Len(members)
           Item == {Line(a, d) : a \in Sailor, d \in Categories}
<1>1. n \in Nat /\ DOMAIN members = 1..n /\ \A i \in 1..n : members[i] \in Sailor
    OBVIOUS
<1>2. Shown(members) = FlattenSeq(ss)
    BY <1>1 DEF Shown
<1>3. Category \in Seq(Categories) /\ IsInjective(Category) /\ \A d \in Categories : \E i \in DOMAIN Category : d = Category[i]
    BY AwardsAssumption DEF Categories, Range
<1>4. ASSUME NEW a
      PROVE  /\ told(a) \in Seq(Categories) /\ IsInjective(told(a)) /\ Range(told(a)) = wants(a)
             /\ DOMAIN told(a) = 1..Len(told(a)) /\ Len(told(a)) \in Nat
    <2> DEFINE W == wants(a)
    <2>2. W \subseteq Categories
        OBVIOUS
    <2> HIDE DEF W
    <2>3. /\ Among(Category, W) \in Seq(Categories) /\ IsInjective(Among(Category, W))
          /\ \A k \in DOMAIN Among(Category, W) : Among(Category, W)[k] \in W
          /\ \A i \in DOMAIN Category : Category[i] \in W => \E k \in DOMAIN Among(Category, W) : Among(Category, W)[k] = Category[i]
        BY <1>3, AmongPicks
    <2>4. Range(Among(Category, W)) = W
        BY <1>3, <2>2, <2>3 DEF Range
    <2>5. told(a) = Among(Category, W) /\ wants(a) = W
        BY DEF W
    <2> HIDE DEF told, wants
    <2> QED
        BY <2>3, <2>4, <2>5
<1>5. \A a : Pending(a) = [k \in DOMAIN told(a) |-> Line(a, told(a)[k])]
    BY DEF Pending, ItemsOf, Line
<1>9. \A a, d : Line(a, d).who = a /\ Line(a, d).of = d
    BY DEF Line
<1> HIDE DEF told, wants
<1>6. ASSUME NEW a \in Sailor
      PROVE  /\ Pending(a) \in Seq(Item) /\ Range(Pending(a)) = {Line(a, d) : d \in wants(a)}
             /\ DOMAIN Pending(a) = DOMAIN told(a) /\ \A k \in DOMAIN told(a) : Pending(a)[k] = Line(a, told(a)[k])
    <2>2. \A k \in 1..Len(told(a)) : Line(a, told(a)[k]) \in Item
        BY <1>4
    <2>3. Pending(a) \in Seq(Item)
        <3> DEFINE p == [k \in 1..Len(told(a)) |-> Line(a, told(a)[k])]
        <3>1. Pending(a) = p
            BY <1>4, <1>5
        <3> HIDE DEF Item
        <3> QED
            BY <1>4, <2>2, <3>1
    <2>4. Range(Pending(a)) = {Line(a, told(a)[k]) : k \in DOMAIN told(a)}
        BY <1>5 DEF Range
    <2>5. {Line(a, told(a)[k]) : k \in DOMAIN told(a)} = {Line(a, d) : d \in wants(a)}
        BY <1>4 DEF Range
    <2>6. Pending(a) = [k \in DOMAIN told(a) |-> Line(a, told(a)[k])]
        BY <1>5
    <2> HIDE DEF Item
    <2> QED
        BY <2>3, <2>4, <2>5, <2>6
<1>7. ss \in Seq(Seq(Item)) /\ Len(ss) = n /\ DOMAIN ss = 1..n /\ \A i \in 1..n : ss[i] = Pending(members[i])
    <2> HIDE DEF Item
    <2> QED
        BY <1>1, <1>6
<1> HIDE DEF ss, Item
<1>8. ASSUME NEW i \in 1..Len(ss), NEW j \in 1..Len(ss), NEW k \in 1..Len(ss[i]), NEW l \in 1..Len(ss[j]),
             ss[i][k] = ss[j][l]
      PROVE  i = j /\ k = l
    <2>1. members[i] \in Sailor /\ members[j] \in Sailor /\ i \in 1..n /\ j \in 1..n
        BY <1>1, <1>7
    <2>2. /\ DOMAIN ss[i] = DOMAIN told(members[i]) /\ DOMAIN ss[j] = DOMAIN told(members[j])
          /\ DOMAIN ss[i] = 1..Len(ss[i]) /\ DOMAIN ss[j] = 1..Len(ss[j])
        <3>1. Pending(members[i]) \in Seq(Item) /\ Pending(members[j]) \in Seq(Item)
            BY <1>6, <2>1
        <3> QED
            BY <1>6, <1>7, <2>1, <3>1
    <2>3. ss[i][k] = Line(members[i], told(members[i])[k]) /\ ss[j][l] = Line(members[j], told(members[j])[l])
        BY <1>6, <1>7, <2>1, <2>2
    <2>4. members[i] = members[j] /\ told(members[i])[k] = told(members[j])[l]
        <3> DEFINE x == Line(members[i], told(members[i])[k])
                   y == Line(members[j], told(members[j])[l])
        <3>1. x = y
            BY <1>8, <2>3
        <3>2. x.who = members[i] /\ x.of = told(members[i])[k]
            BY <1>9
        <3>3. y.who = members[j] /\ y.of = told(members[j])[l]
            BY <1>9
        <3> HIDE DEF x, y
        <3> QED
            BY <3>1, <3>2, <3>3
    <2>5. i = j
        BY <1>1, <2>1, <2>4 DEF IsInjective
    <2>6. k = l
        BY <1>4, <2>2, <2>4, <2>5 DEF IsInjective
    <2> QED
        BY <2>5, <2>6
<1>10. \A i, j \in 1..Len(ss) : \A k \in 1..Len(ss[i]), l \in 1..Len(ss[j]) :
          ss[i][k] = ss[j][l] => i = j /\ k = l
    BY <1>8
<1>11. IsInjective(FlattenSeq(ss)) /\ Range(FlattenSeq(ss)) = UNION {Range(ss[i]) : i \in 1..n}
    BY <1>7, <1>10, FlatOfEach
<1>12. Range(members) = {members[i] : i \in 1..n}
    BY <1>1 DEF Range
<1>13. UNION {Range(ss[i]) : i \in 1..n} = Lines(members)
    <2>1. ASSUME NEW i \in 1..n, NEW x \in Range(ss[i])
          PROVE  x \in Lines(members)
        <3>1. members[i] \in Sailor /\ members[i] \in Range(members)
            BY <1>1, <1>12
        <3>2. PICK d \in wants(members[i]) : x = Line(members[i], d)
            BY <1>6, <1>7, <3>1
        <3>3. d \in Categories /\ Missing(members[i], Earned(members[i], d))
            BY <3>2 DEF wants
        <3> DEFINE y == [who |-> members[i], of |-> d]
        <3>4. y \in [who : Range(members), of : Categories] /\ y.who = members[i] /\ y.of = d
            BY <3>1, <3>3
        <3> HIDE DEF y
        <3> QED
            BY <3>2, <3>3, <3>4 DEF Lines
    <2>2. ASSUME NEW x \in Lines(members)
          PROVE  \E i \in 1..n : x \in Range(ss[i])
        <3>1. PICK y \in [who : Range(members), of : Categories] :
                 Missing(y.who, Earned(y.who, y.of)) /\ x = Line(y.who, y.of)
            BY <2>2 DEF Lines
        <3>2. PICK i \in 1..n : y.who = members[i]
            BY <1>12
        <3>3. y.of \in wants(members[i]) /\ members[i] \in Sailor
            BY <1>1, <3>1, <3>2 DEF wants
        <3> QED
            BY <1>6, <1>7, <3>1, <3>2, <3>3
    <2> QED
        BY <2>1, <2>2
<1> QED
    BY <1>2, <1>11, <1>13

LEMMA AwardsDoAgree ==
    ASSUME Tallied, NEW members \in Seq(Sailor), IsInjective(members)
    PROVE  AwardsAgree(members)
<1> DEFINE shown == Shown(members)
           owed == OwedByBoard(members)
           Still(x) == \E m \in Owing(x.who, tally[x.who][x.of], x.of) : m.badge \notin gone
<1>1. Range(shown) = Lines(members) /\ IsInjective(shown)
    BY ShownAre
<1>2. DOMAIN owed = {y \in [who : Range(members) \cap DOMAIN tally, of : Categories] :
                        Owing(y.who, tally[y.who][y.of], y.of) # {}}
    BY DEF OwedByBoard
<1>3. Range(members) \subseteq Sailor
    BY DEF Range
<1> HIDE DEF shown, owed
<1>4. ASSUME NEW s \in Range(members), NEW c \in Categories
      PROVE  /\ Missing(s, Earned(s, c)) <=> [who |-> s, of |-> c] \in DOMAIN owed /\ Still([who |-> s, of |-> c])
             /\ Missing(s, Earned(s, c)) => Earned(s, c) \in Owing(s, tally[s][c], c)
    <2> DEFINE x == [who |-> s, of |-> c]
    <2>1. /\ s \notin DOMAIN tally => ~Lacks(s, Earned(s, c))
          /\ s \in DOMAIN tally => Owing(s, tally[s][c], c) = IF Lacks(s, Earned(s, c)) THEN {Earned(s, c)} ELSE {}
        BY <1>3, EarnedOwed
    <2>2. Missing(s, Earned(s, c)) <=> Lacks(s, Earned(s, c)) /\ Earned(s, c).badge \notin gone
        BY DEF Missing, Lacks
    <2>3. x.who = s /\ x.of = c /\ (s \in DOMAIN tally <=> x \in [who : Range(members) \cap DOMAIN tally, of : Categories])
        OBVIOUS
    <2> HIDE DEF x
    <2>4. x \in DOMAIN owed <=> s \in DOMAIN tally /\ Owing(s, tally[s][c], c) # {}
        BY <1>2, <2>3
    <2>5. Still(x) <=> \E m \in Owing(s, tally[s][c], c) : m.badge \notin gone
        BY <2>3
    <2> HIDE DEF Still
    <2>6. CASE s \notin DOMAIN tally
        BY <2>1, <2>2, <2>4, <2>6 DEF x
    <2>7. CASE s \in DOMAIN tally /\ ~Lacks(s, Earned(s, c))
        BY <2>1, <2>2, <2>4, <2>7 DEF x
    <2>8. CASE s \in DOMAIN tally /\ Lacks(s, Earned(s, c))
        <3>1. Owing(s, tally[s][c], c) = {Earned(s, c)}
            BY <2>1, <2>8
        <3> QED
            BY <2>2, <2>4, <2>5, <2>8, <3>1 DEF x
    <2> QED
        BY <2>6, <2>7, <2>8
<1>5. \A s, c : Line(s, c).who = s /\ Line(s, c).of = c
    BY DEF Line
<1>6. \A x \in Range(shown) : \E s \in Range(members), c \in Categories : x = Line(s, c) /\ Missing(s, Earned(s, c))
    <2> SUFFICES ASSUME NEW x \in Lines(members)
                 PROVE  \E s \in Range(members), c \in Categories : x = Line(s, c) /\ Missing(s, Earned(s, c))
        BY <1>1
    <2>1. PICK y \in [who : Range(members), of : Categories] :
             Missing(y.who, Earned(y.who, y.of)) /\ x = Line(y.who, y.of)
        BY DEF Lines
    <2>2. y.who \in Range(members) /\ y.of \in Categories
        OBVIOUS
    <2> QED
        BY <2>1, <2>2
<1>7. \A s \in Range(members), c \in Categories : Missing(s, Earned(s, c)) => Line(s, c) \in Range(shown)
    <2> SUFFICES ASSUME NEW s \in Range(members), NEW c \in Categories, Missing(s, Earned(s, c))
                 PROVE  Line(s, c) \in Lines(members)
        BY <1>1
    <2> DEFINE y == [who |-> s, of |-> c]
    <2>1. y \in [who : Range(members), of : Categories] /\ y.who = s /\ y.of = c
        OBVIOUS
    <2> HIDE DEF y
    <2> QED
        BY <2>1 DEF Lines
<1>8. ASSUME NEW i \in DOMAIN shown, NEW j \in DOMAIN shown, shown[i].who = shown[j].who, shown[i].of = shown[j].of
      PROVE  i = j
    <2>1. shown[i] \in Range(shown) /\ shown[j] \in Range(shown)
        BY DEF Range
    <2>2. PICK s \in Range(members), c \in Categories : shown[i] = Line(s, c)
        BY <1>6, <2>1
    <2>3. PICK t \in Range(members), d \in Categories : shown[j] = Line(t, d)
        BY <1>6, <2>1
    <2>4. s = t /\ c = d
        BY <1>5, <1>8, <2>2, <2>3
    <2> QED
        BY <1>1, <2>2, <2>3, <2>4 DEF IsInjective
<1>9. {[who |-> x.who, of |-> x.of] : x \in Range(shown)} = {x \in DOMAIN owed : Still(x)}
    <2>1. ASSUME NEW x \in Range(shown)
          PROVE  [who |-> x.who, of |-> x.of] \in DOMAIN owed /\ Still([who |-> x.who, of |-> x.of])
        <3>1. PICK s \in Range(members), c \in Categories : x = Line(s, c) /\ Missing(s, Earned(s, c))
            BY <1>6
        <3>2. x.who = s /\ x.of = c
            BY <1>5, <3>1
        <3> HIDE DEF Still
        <3> QED
            BY <1>4, <3>1, <3>2
    <2>2. ASSUME NEW y \in DOMAIN owed, Still(y)
          PROVE  \E x \in Range(shown) : y = [who |-> x.who, of |-> x.of]
        <3>1. y \in [who : Range(members) \cap DOMAIN tally, of : Categories]
            BY <1>2
        <3>2. y.who \in Range(members) /\ y.of \in Categories /\ y = [who |-> y.who, of |-> y.of]
            BY <3>1
        <3> HIDE DEF Still
        <3>3. Missing(y.who, Earned(y.who, y.of))
            BY <1>4, <2>2, <3>2
        <3> QED
            BY <1>5, <1>7, <3>2, <3>3
    <2> HIDE DEF Still
    <2> QED
        BY <2>1, <2>2
<1>10. ASSUME NEW x \in Range(shown), x.officer \in Sailor
       PROVE  /\ ~OnLoa2(x.officer)
              /\ \E m \in Owing(x.who, tally[x.who][x.of], x.of) : m.able \cap PostsOf(x.officer) # {}
    <2>1. PICK s \in Range(members), c \in Categories : x = Line(s, c) /\ Missing(s, Earned(s, c))
        BY <1>6
    <2> DEFINE award == Earned(s, c)
    <2>2. x.who = s /\ x.of = c /\ x.officer = Assigned(Responsible(s, award))
        BY <2>1 DEF Line
    <2>3. award \in Owing(s, tally[s][c], c)
        BY <1>4, <2>1
    <2> HIDE DEF award
    <2>4. Nobody \notin Sailor
        BY ChainAssumption DEF Nobody
    <2>5. x.officer = Responsible(s, award) /\ Responsible(s, award) # Nobody
        BY <1>10, <2>2, <2>4 DEF Assigned
    <2>6. x.officer = Giver(award.able)[s]
        BY <2>5 DEF Responsible
    <2>7. ChainHolds(award.able)
        BY ChainDoesHold
    <2>8. s \in Sailor
        BY <1>3
    <2>9. award.able \cap PostsOf(x.officer) # {} /\ ~OnLoa2(x.officer)
        BY <1>10, <2>6, <2>7, <2>8 DEF ChainHolds
    <2> QED
        BY <2>2, <2>3, <2>9
<1> QED
    BY <1>8, <1>9, <1>10 DEF AwardsAgree, shown, owed

-----------------------------------------------------------------------------
(***************************************************************************)
(* The briefings of a ship.  Every entry of a requirement is the member's  *)
(* of whom it tells, so entries, actions and rows are counted by members.  *)
(* The rows stand in the order of their keys because each is at the place  *)
(* its number of predecessors gives it; a field's lines are those of one   *)
(* officer, cut into pages; the windows of the weeks share no log.         *)
(***************************************************************************)
\* The crew: finitely many sailors, each once, none of them nobody.
LEMMA CrewFacts ==
    /\ Range(Crew) \subseteq Sailor /\ IsFiniteSet(Range(Crew)) /\ Cardinality(Range(Crew)) = Len(Crew)
    /\ \A s \in Range(Crew) : Place(s) \in 1..Len(Crew) /\ Crew[Place(s)] = s
    /\ Nobody \notin Range(Crew)
<1>1. Crew \in Seq(Sailor) /\ IsInjective(Crew)
    BY BriefingAssumption
<1> DEFINE n == Len(Crew)
<1>2. n \in Nat /\ DOMAIN Crew = 1..n /\ Crew \in [1..n -> Sailor]
    BY <1>1
<1>3. Range(Crew) \subseteq Sailor
    BY <1>2 DEF Range
<1>4. Crew \in Bijection(1..n, Range(Crew))
    BY <1>1, <1>2 DEF Bijection, Injection, Surjection, IsInjective, Range
<1>5. IsFiniteSet(1..n) /\ Cardinality(1..n) = n
    BY <1>2, FS_Interval
<1>6. IsFiniteSet(Range(Crew)) /\ Cardinality(Range(Crew)) = n
    BY <1>4, <1>5, FS_Bijection DEF ExistsBijection
<1>7. ASSUME NEW s \in Range(Crew)
      PROVE  Place(s) \in 1..n /\ Crew[Place(s)] = s
    <2>1. \E i \in DOMAIN Crew : Crew[i] = s
        BY DEF Range
    <2> QED
        BY <1>2, <2>1 DEF Place
<1> QED
    BY <1>3, <1>6, <1>7, ChainAssumption

\* What the briefing says of a requirement of a member, if it is not kept.
Entry(s, label) == IF label = "Voyaging" THEN VoyageOf(s) ELSE HostOf(s)

Due(e, s, label) ==
    /\ e.who = s /\ e.label = label /\ e.status \in {"overdue", "soon"} /\ e.days \in Int
    /\ e.leave = OnLeave(s)

LEMMA CurrentIs == Current.who = Nobody /\ Current.label = "" /\ Current.status = "current"
BY DEF Current

LEMMA MaxOfTwo == \A a, b \in Int : Max({a, b}) \in Int
<1> SUFFICES ASSUME NEW a \in Int, NEW b \in Int
             PROVE  Max({a, b}) \in Int
    OBVIOUS
<1>1. \E x \in {a, b} : \A y \in {a, b} : x >= y
    OBVIOUS
<1> QED
    BY <1>1 DEF Max

LEMMA Classified ==
    ASSUME BriefingTypeOK, NEW s \in Range(Crew), NEW label, NEW at \in Int, NEW days \in Nat, NEW soon
    PROVE  Classify(s, label, at, days, soon) = Current \/ Due(Classify(s, label, at, days, soon), s, label)
<1> DEFINE missing == at = Never
           left == (IF missing THEN Baseline(s) ELSE at) + days * PerDay - now
           since == Max({0, (now - Baseline(s)) \div PerDay})
           late == Max({1, CeilDays(-left)})
           near == Max({0, CeilDays(left)})
           e == Classify(s, label, at, days, soon)
<1>1. PerDay \in Nat \ {0} /\ now \in Int
    BY BriefingAssumption DEF BriefingTypeOK
<1>2. activity[s] \in [voyage : Int, host : Int, added : Int, joined : Int]
    BY DEF BriefingTypeOK
<1>3. Baseline(s) \in Int
    BY <1>1, <1>2 DEF Baseline
<1>4. left \in Int /\ -left \in Int
    BY <1>1, <1>3
<1>5. \A t \in Int : CeilDays(t) \in Int
    BY <1>1 DEF CeilDays
<1>6. late \in Int /\ near \in Int
    <2> HIDE DEF left
    <2> QED
        BY <1>4, <1>5, MaxOfTwo
<1>7. since \in Int
    BY <1>1, <1>3, MaxOfTwo
<1>8. \/ e = [who |-> s, label |-> label, status |-> "overdue", missing |-> missing,
              leave |-> OnLeave(s), days |-> IF missing THEN since ELSE late]
      \/ e = [who |-> s, label |-> label, status |-> "soon", missing |-> missing,
              leave |-> OnLeave(s), days |-> IF missing THEN since ELSE near]
      \/ e = Current
    BY DEF Classify
<1> HIDE DEF late, near, since, e, missing
<1>9. e = Current \/ Due(e, s, label)
    BY <1>6, <1>7, <1>8 DEF Due
<1> QED
    BY <1>9 DEF e

\* The entries are those of the members: two at most of each.
LEMMA EntriesAre ==
    ASSUME BriefingTypeOK
    PROVE  /\ \A s \in Range(Crew), label \in Labels : Entry(s, label) = Current \/ Due(Entry(s, label), s, label)
           /\ \A s \in Range(Crew) : Entry(s, "Hosting") = Current \/ CanHost(s)
           /\ Entries = {Entry(s, "Voyaging") : s \in Range(Crew)} \union {Entry(s, "Hosting") : s \in Range(Crew)}
           /\ IsFiniteSet(Entries)
<1>1. VoyageDays \in Nat /\ HostDays \in Nat
    BY BriefingAssumption
<1>2. ASSUME NEW s \in Range(Crew)
      PROVE  /\ VoyageOf(s) = Current \/ Due(VoyageOf(s), s, "Voyaging")
             /\ HostOf(s) = Current \/ (Due(HostOf(s), s, "Hosting") /\ CanHost(s))
    <2>1. activity[s] \in [voyage : Int, host : Int, added : Int, joined : Int]
        BY DEF BriefingTypeOK
    <2>2. activity[s].voyage \in Int /\ activity[s].host \in Int
        BY <2>1
    <2>3. VoyageOf(s) = Current \/ Due(VoyageOf(s), s, "Voyaging")
        BY <1>1, <2>2, Classified DEF VoyageOf
    <2>4. Classify(s, "Hosting", activity[s].host, HostDays, HostSoon) = Current
          \/ Due(Classify(s, "Hosting", activity[s].host, HostDays, HostSoon), s, "Hosting")
        BY <1>1, <2>2, Classified
    <2>5. HostOf(s) = Current \/ (Due(HostOf(s), s, "Hosting") /\ CanHost(s))
        BY <2>4 DEF HostOf
    <2> QED
        BY <2>3, <2>5
<1>3. Entries = {Entry(s, "Voyaging") : s \in Range(Crew)} \union {Entry(s, "Hosting") : s \in Range(Crew)}
    BY DEF Entries, Entry
<1>4. IsFiniteSet(Entries)
    <2> DEFINE V == {VoyageOf(s) : s \in Range(Crew)}  H == {HostOf(s) : s \in Range(Crew)}
               v == [s \in Range(Crew) |-> VoyageOf(s)]
               h == [s \in Range(Crew) |-> HostOf(s)]
    <2>1. v \in Surjection(Range(Crew), V) /\ h \in Surjection(Range(Crew), H)
        BY DEF Surjection
    <2>2. IsFiniteSet(Range(Crew))
        BY CrewFacts
    <2> HIDE DEF V, H, v, h
    <2>3. IsFiniteSet(V) /\ IsFiniteSet(H)
        BY <2>1, <2>2, FS_Surjection
    <2> QED
        BY <2>3, FS_Union DEF Entries, V, H
<1> QED
    BY <1>2, <1>3, <1>4 DEF Labels, Entry

\* An entry of a requirement tells its member, and a member has one at most.
LEMMA ChasesAre ==
    ASSUME BriefingTypeOK, NEW label \in Labels
    PROVE  /\ Chase(label) = {Entry(s, label) : s \in Range(Crew)} \ {Current}
           /\ \A e \in Chase(label) : e.who \in Range(Crew) /\ e = Entry(e.who, label) /\ Due(e, e.who, label)
           /\ IsFiniteSet(Chase(label))
<1>1. Labels = {"Voyaging", "Hosting"} /\ label # ""
    BY DEF Labels
<1>2. \A s \in Range(Crew), l \in Labels : Entry(s, l) = Current \/ Due(Entry(s, l), s, l)
    BY EntriesAre
<1>3. \A e \in Chase(label) : e \in Entries /\ e.label = label
    BY DEF Chase
<1>4. Current \notin Chase(label)
    BY <1>1, <1>3, CurrentIs
<1>5. ASSUME NEW e \in Chase(label)
      PROVE  \E s \in Range(Crew) : e = Entry(s, label) /\ e.who = s /\ Due(e, s, label)
    <2>1. PICK l \in Labels : \E s \in Range(Crew) : e = Entry(s, l)
        BY <1>1, <1>3, EntriesAre
    <2>2. PICK s \in Range(Crew) : e = Entry(s, l)
        BY <2>1
    <2>3. Due(e, s, l)
        BY <1>2, <1>4, <2>2
    <2>4. l = label /\ e.who = s
        BY <1>3, <2>3 DEF Due
    <2> QED
        BY <2>2, <2>3, <2>4
<1>6. ASSUME NEW s \in Range(Crew), Entry(s, label) # Current
      PROVE  Entry(s, label) \in Chase(label)
    <2>1. Due(Entry(s, label), s, label)
        BY <1>2, <1>6
    <2>2. Entry(s, label) \in Entries
        BY <1>1, EntriesAre
    <2> QED
        BY <2>1, <2>2 DEF Chase, Due
<1>7. IsFiniteSet(Chase(label))
    <2>1. Chase(label) \in SUBSET Entries
        BY DEF Chase
    <2> QED
        BY <2>1, EntriesAre, FS_Subset
<1> QED
    BY <1>4, <1>5, <1>6, <1>7

\* As many entries as members they are of.
LEMMA EachOfOne ==
    ASSUME BriefingTypeOK, NEW label \in Labels, NEW E \in SUBSET Chase(label)
    PROVE  IsFiniteSet(E) /\ Cardinality(E) \in Nat /\ Cardinality(E) = Cardinality({e.who : e \in E})
<1> DEFINE W == {e.who : e \in E}
           f == [e \in E |-> e.who]
<1>1. IsFiniteSet(E)
    BY ChasesAre, FS_Subset
<1>2. \A e \in E : e = Entry(e.who, label)
    BY ChasesAre
<1>3. f \in Bijection(E, W)
    BY <1>2 DEF Bijection, Injection, Surjection, IsInjective
<1> HIDE DEF f, W
<1>4. Cardinality(W) = Cardinality(E)
    BY <1>1, <1>3, FS_Bijection DEF ExistsBijection
<1> QED
    BY <1>1, <1>4, FS_CardinalityType DEF W

Subject(label) == {s \in Range(Crew) : label = "Voyaging" \/ CanHost(s)}

\* The bar of a requirement splits those it is about.
LEMMA BarSplits ==
    ASSUME BriefingTypeOK, NEW label \in Labels
    PROVE  LET b == PressureBar(label) IN b[1] + b[2] + b[3] + b[4] = Cardinality(Subject(label))
<1> DEFINE C == Chase(label)
           O == Overdue(label)
           L == OnLoa(label)
           D == DueSoon(label)
           W == {e.who : e \in C}
           S == Subject(label)
           K == {s \in Range(Crew) : (label = "Voyaging" \/ CanHost(s)) /\ ~\E e \in C : e.who = s}
<1>1. O \in SUBSET C /\ D \in SUBSET C /\ L \in SUBSET O /\ L \in SUBSET C
    BY DEF Overdue, DueSoon, OnLoa
<1>2. O \union D = C /\ O \cap D = {}
    <2>1. \A e \in C : e.status \in {"overdue", "soon"}
        BY ChasesAre DEF Due
    <2> QED
        BY <2>1 DEF Overdue, DueSoon
<1>3. W \subseteq S
    <2>1. \A e \in C : e.who \in Range(Crew) /\ e = Entry(e.who, label) /\ e # Current
        BY ChasesAre
    <2>2. label # "Voyaging" => label = "Hosting"
        BY DEF Labels
    <2>3. \A e \in C : label = "Voyaging" \/ CanHost(e.who)
        BY <2>1, <2>2, EntriesAre
    <2> QED
        BY <2>1, <2>3 DEF Subject
<1>4. K = S \ W
    BY DEF Subject
<1>5. IsFiniteSet(C) /\ IsFiniteSet(O) /\ IsFiniteSet(D) /\ IsFiniteSet(L)
    BY <1>1, EachOfOne
<1>6. IsFiniteSet(S)
    <2>1. S \in SUBSET Range(Crew)
        BY DEF Subject
    <2> QED
        BY <2>1, CrewFacts, FS_Subset
<1>7. PressureBar(label) = <<Cardinality(O) - Cardinality(L), Cardinality(D), Cardinality(K), Cardinality(L)>>
    BY DEF PressureBar, CurrentAt
<1>8. Cardinality(C) = Cardinality(W)
    BY EachOfOne
<1> HIDE DEF C, O, L, D, W, S, K
<1>9. Cardinality(C) = Cardinality(O) + Cardinality(D) - Cardinality(O \cap D) /\ Cardinality(O \cap D) = 0
    BY <1>2, <1>5, FS_Union, FS_EmptySet
<1>10. Cardinality(K) = Cardinality(S) - Cardinality(S \cap W) /\ S \cap W = W
    BY <1>3, <1>4, <1>6, FS_Difference
<1> DEFINE c == Cardinality(C)  o == Cardinality(O)  l == Cardinality(L)  d == Cardinality(D)
           k == Cardinality(K)  n == Cardinality(S)
<1>11. o \in Nat /\ l \in Nat /\ d \in Nat /\ c \in Nat /\ n \in Nat
    BY <1>5, <1>6, FS_CardinalityType
<1>12. c = o + d /\ k = n - c
    <2>1. c = o + d - 0
        BY <1>9
    <2>2. k = n - c
        BY <1>8, <1>10
    <2> HIDE DEF c, o, d
    <2> QED
        BY <1>11, <2>1, <2>2
<1>13. PressureBar(label) = <<o - l, d, k, l>>
    BY <1>7
<1> HIDE DEF c, o, l, d, k, n
<1>14. (o - l) + d + k + l = n
    BY <1>11, <1>12
<1>15. LET b == PressureBar(label) IN b[1] + b[2] + b[3] + b[4] = n
    BY <1>13, <1>14
<1> QED
    BY <1>15 DEF n, S

Late(label) == {e \in Chase(label) : e.status = "overdue" /\ ~e.leave}

ActionOf(e, officer) == [who |-> e.who, label |-> e.label, officer |-> officer[e.who]]

\* What is overdue and not excused, by requirement.
LEMMA LateAre ==
    ASSUME BriefingTypeOK
    PROVE  /\ {e \in Entries : e.status = "overdue" /\ ~e.leave} = Late("Voyaging") \union Late("Hosting")
           /\ \A label \in Labels :
                /\ IsFiniteSet(Late(label))
                /\ Cardinality(Late(label)) = Cardinality(Overdue(label)) - Cardinality(OnLoa(label))
<1>1. ASSUME NEW e \in Entries, e.status = "overdue"
      PROVE  \E label \in Labels : e \in Chase(label)
    <2>1. PICK label \in Labels : \E s \in Range(Crew) : e = Entry(s, label)
        <3>1. Labels = {"Voyaging", "Hosting"}
            BY DEF Labels
        <3> QED
            BY <3>1, EntriesAre
    <2>2. e # Current
        BY <1>1, CurrentIs
    <2>3. e \in Chase(label)
        BY <2>1, <2>2, ChasesAre
    <2> QED
        BY <2>3
<1>2. {e \in Entries : e.status = "overdue" /\ ~e.leave} = Late("Voyaging") \union Late("Hosting")
    BY <1>1 DEF Labels, Late, Chase
<1>3. ASSUME NEW label \in Labels
      PROVE  /\ IsFiniteSet(Late(label))
             /\ Cardinality(Late(label)) = Cardinality(Overdue(label)) - Cardinality(OnLoa(label))
    <2>1. Late(label) \in SUBSET Chase(label) /\ Overdue(label) \in SUBSET Chase(label)
        BY DEF Late, Overdue
    <2>2. IsFiniteSet(Late(label)) /\ IsFiniteSet(Overdue(label))
        BY <2>1, EachOfOne
    <2>3. Late(label) = Overdue(label) \ OnLoa(label) /\ Overdue(label) \cap OnLoa(label) = OnLoa(label)
        BY DEF Late, Overdue, OnLoa
    <2>4. Cardinality(Overdue(label) \ OnLoa(label))
              = Cardinality(Overdue(label)) - Cardinality(Overdue(label) \cap OnLoa(label))
        BY <2>2, FS_Difference
    <2> QED
        BY <2>2, <2>3, <2>4
<1> QED
    BY <1>2, <1>3

\* An action for each of them.
LEMMA ActionsAre ==
    ASSUME BriefingTypeOK, NEW officer
    PROVE  /\ RequirementActions(officer) = {ActionOf(e, officer) : e \in Late("Voyaging") \union Late("Hosting")}
           /\ IsFiniteSet(RequirementActions(officer))
           /\ Cardinality(RequirementActions(officer)) = OverdueCount
           /\ {s \in Range(Crew) : RowOverdue(RowOf(s))} = {a.who : a \in RequirementActions(officer)}
<1> DEFINE V == Late("Voyaging")  H == Late("Hosting")  A == RequirementActions(officer)
           f == [e \in V \union H |-> ActionOf(e, officer)]
<1>1. "Voyaging" \in Labels /\ "Hosting" \in Labels
    BY DEF Labels
<1>2. A = {ActionOf(e, officer) : e \in V \union H}
    BY LateAre DEF RequirementActions, ActionOf
<1>3. \A e \in V : e \in Chase("Voyaging") /\ e.label = "Voyaging" /\ e = Entry(e.who, "Voyaging") /\ e.who \in Range(Crew)
    BY <1>1, ChasesAre DEF Late, Chase
<1>4. \A e \in H : e \in Chase("Hosting") /\ e.label = "Hosting" /\ e = Entry(e.who, "Hosting") /\ e.who \in Range(Crew)
    BY <1>1, ChasesAre DEF Late, Chase
<1>5. \A e \in V \union H : e = Entry(e.who, e.label) /\ e.who \in Range(Crew)
    BY <1>3, <1>4
<1>6. V \cap H = {}
    BY <1>3, <1>4
<1>7. f \in Bijection(V \union H, A)
    <2>1. \A e, g \in V \union H : ActionOf(e, officer) = ActionOf(g, officer) => e.who = g.who /\ e.label = g.label
        BY DEF ActionOf
    <2>2. \A e, g \in V \union H : ActionOf(e, officer) = ActionOf(g, officer) => e = g
        BY <1>5, <2>1
    <2> QED
        BY <1>2, <2>2 DEF Bijection, Injection, Surjection, IsInjective
<1>8. /\ IsFiniteSet(V) /\ Cardinality(V) = Cardinality(Overdue("Voyaging")) - Cardinality(OnLoa("Voyaging"))
      /\ IsFiniteSet(H) /\ Cardinality(H) = Cardinality(Overdue("Hosting")) - Cardinality(OnLoa("Hosting"))
    BY <1>1, LateAre
<1> HIDE DEF V, H, f
<1>9. IsFiniteSet(V \union H) /\ Cardinality(V \union H) = Cardinality(V) + Cardinality(H)
    <2>1. IsFiniteSet(V \union H) /\ Cardinality(V \union H) = Cardinality(V) + Cardinality(H) - Cardinality(V \cap H)
        BY <1>8, FS_Union
    <2>2. Cardinality(V \cap H) = 0 /\ Cardinality(V) \in Nat /\ Cardinality(H) \in Nat
        BY <1>6, <1>8, FS_EmptySet, FS_CardinalityType
    <2> DEFINE c == Cardinality(V)  d == Cardinality(H)
    <2>3. c + d - 0 = c + d
        <3>1. c \in Nat /\ d \in Nat
            BY <2>2
        <3> HIDE DEF c, d
        <3> QED
            BY <3>1
    <2> QED
        BY <2>1, <2>2, <2>3
<1>10. IsFiniteSet(A) /\ Cardinality(A) = Cardinality(V \union H)
    BY <1>7, <1>9, FS_Bijection DEF ExistsBijection
<1>11. OverdueCount = Cardinality(V) + Cardinality(H)
    BY <1>8 DEF OverdueCount
<1>12. {s \in Range(Crew) : RowOverdue(RowOf(s))} = {a.who : a \in A}
    <2>1. \A s \in Range(Crew) : RowOverdue(RowOf(s)) <=> \E e \in V \union H : e.who = s
        BY LateAre DEF RowOverdue, RowOf, V, H
    <2>2. \A e \in V \union H : ActionOf(e, officer).who = e.who /\ e.who \in Range(Crew)
        BY <1>5 DEF ActionOf
    <2> HIDE DEF A
    <2>3. ASSUME NEW s \in Range(Crew), RowOverdue(RowOf(s))
          PROVE  s \in {a.who : a \in A}
        <3>1. PICK e \in V \union H : e.who = s
            BY <2>1, <2>3
        <3> DEFINE a == ActionOf(e, officer)
        <3>2. a \in A /\ a.who = s
            BY <1>2, <2>2, <3>1 DEF A
        <3> HIDE DEF a
        <3> QED
            BY <3>2
    <2>4. ASSUME NEW a \in A
          PROVE  a.who \in Range(Crew) /\ RowOverdue(RowOf(a.who))
        <3>1. PICK e \in V \union H : a = ActionOf(e, officer)
            BY <1>2
        <3> QED
            BY <2>1, <2>2, <3>1
    <2> QED
        BY <2>3, <2>4
<1> QED
    BY <1>2, <1>9, <1>10, <1>11, <1>12 DEF V, H

\* What the check finds pending is a list of things to do.
LEMMA FinitePending == \A s : Pending(s) \in Seq(Range(Pending(s)))
<1>1. Category \in Seq(DOMAIN Medals)
    BY AwardsAssumption
<1>2. ASSUME NEW s
      PROVE  Pending(s) \in Seq(Range(Pending(s)))
    <2> DEFINE M == Among(Category, {c \in Categories : Missing(s, Earned(s, c))})
    <2>1. M \in Seq(DOMAIN Medals)
        BY <1>1, AmongPicks
    <2> HIDE DEF M
    <2>2. Len(M) \in Nat /\ DOMAIN M = 1..Len(M)
        BY <2>1
    <2>3. Pending(s) = [i \in 1..Len(M) |-> Pending(s)[i]]
        BY <2>2 DEF Pending, ItemsOf, M
    <2>4. \A i \in 1..Len(M) : Pending(s)[i] \in Range(Pending(s))
        BY <2>3 DEF Range
    <2> QED
        BY <2>2, <2>3, <2>4
<1> QED
    BY <1>2

LEMMA AwardActionsFinite == IsFiniteSet(AwardActions)
<1> DEFINE S == {x \in Range(Crew) : x \in DOMAIN tally /\ "BOA" \notin PostsOf(x)}
           Of(s) == {[who |-> s, label |-> a.of, officer |-> a.officer] : a \in Range(Pending(s))}
           All == {Of(s) : s \in S}
           of == [s \in S |-> Of(s)]
<1>1. IsFiniteSet(S)
    BY CrewFacts, FS_Subset
<1>2. ASSUME NEW s \in S
      PROVE  IsFiniteSet(Of(s))
    <2> DEFINE P == Pending(s)
               f == [i \in 1..Len(P) |-> [who |-> s, label |-> P[i].of, officer |-> P[i].officer]]
    <2>1. P \in Seq(Range(P))
        BY FinitePending
    <2>2. Len(P) \in Nat /\ DOMAIN P = 1..Len(P)
        BY <2>1
    <2>3. Range(P) = {P[i] : i \in 1..Len(P)}
        BY <2>2 DEF Range
    <2>4. Of(s) = {f[i] : i \in 1..Len(P)}
        <3> DEFINE g(a) == [who |-> s, label |-> a.of, officer |-> a.officer]
        <3> HIDE DEF P
        <3>1. Of(s) = {g(a) : a \in Range(P)}
            BY DEF P
        <3>2. \A i \in 1..Len(P) : f[i] = g(P[i])
            OBVIOUS
        <3> HIDE DEF f, Of, g
        <3>3. \A x \in Of(s) : \E i \in 1..Len(P) : x = f[i]
            BY <2>3, <3>1, <3>2
        <3>4. \A i \in 1..Len(P) : f[i] \in Of(s)
            BY <2>3, <3>1, <3>2
        <3> QED
            BY <3>3, <3>4
    <2>5. f \in Surjection(1..Len(P), Of(s))
        <3> HIDE DEF P, Of
        <3> QED
            BY <2>4 DEF Surjection
    <2>6. IsFiniteSet(1..Len(P))
        BY <2>2, FS_Interval
    <2> HIDE DEF f, P, Of
    <2> QED
        BY <2>5, <2>6, FS_Surjection
<1>3. IsFiniteSet(All)
    <2>1. of \in Surjection(S, All)
        BY DEF Surjection
    <2> HIDE DEF of, All, S
    <2> QED
        BY <1>1, <2>1, FS_Surjection
<1>4. AwardActions = UNION All
    BY DEF AwardActions
<1> HIDE DEF Of
<1> QED
    BY <1>2, <1>3, <1>4, FS_UNION

\* A strict order that compares any two elements.
Orders(R, S) ==
    /\ \A s \in S : <<s, s>> \notin R
    /\ \A s, t, u \in S : <<s, t>> \in R /\ <<t, u>> \in R => <<s, u>> \in R
    /\ \A s, t \in S : s = t \/ <<s, t>> \in R \/ <<t, s>> \in R

Under(R, S, s) == {t \in S : <<t, s>> \in R}

\* Whoever has i - 1 before it comes at i.
LEMMA InOrder ==
    ASSUME NEW S, IsFiniteSet(S), NEW R, Orders(R, S)
    PROVE  \A i \in 1..Cardinality(S) :
               /\ \E s \in S : Cardinality(Under(R, S, s)) = i - 1
               /\ \A j \in 1..Cardinality(S), s, t \in S :
                    i < j /\ Cardinality(Under(R, S, s)) = i - 1 /\ Cardinality(Under(R, S, t)) = j - 1
                        => <<s, t>> \in R /\ s # t
<1> DEFINE n == Cardinality(S)
           r(s) == Cardinality(Under(R, S, s))
           f == [s \in S |-> r(s) + 1]
<1>1. n \in Nat
    BY FS_CardinalityType
<1>2. ASSUME NEW s \in S
      PROVE  IsFiniteSet(Under(R, S, s)) /\ r(s) \in Nat /\ r(s) + 1 \in 1..n
    <2>1. Under(R, S, s) \in SUBSET (S \ {s})
        BY DEF Orders, Under
    <2>2. IsFiniteSet(S \ {s}) /\ Cardinality(S \ {s}) = n - 1
        BY FS_RemoveElement
    <2>3. IsFiniteSet(Under(R, S, s)) /\ r(s) <= n - 1
        BY <2>1, <2>2, FS_Subset
    <2>4. r(s) \in Nat
        BY <2>3, FS_CardinalityType
    <2> HIDE DEF r, n
    <2> QED
        BY <1>1, <2>3, <2>4
<1>3. ASSUME NEW s \in S, NEW t \in S, <<s, t>> \in R
      PROVE  r(s) < r(t)
    <2>1. Under(R, S, s) \union {s} \in SUBSET Under(R, S, t) /\ s \notin Under(R, S, s)
        BY <1>3 DEF Orders, Under
    <2>2. Cardinality(Under(R, S, s) \union {s}) = r(s) + 1
        BY <1>2, <2>1, FS_AddElement
    <2>3. Cardinality(Under(R, S, s) \union {s}) <= r(t)
        BY <1>2, <2>1, FS_Subset
    <2>4. r(s) \in Nat /\ r(t) \in Nat
        BY <1>2
    <2> HIDE DEF r
    <2> QED
        BY <2>2, <2>3, <2>4
<1>4. \A s, t \in S : r(s) = r(t) => s = t
    <2> SUFFICES ASSUME NEW s \in S, NEW t \in S, r(s) = r(t)
                 PROVE  s = t
        OBVIOUS
    <2>1. s = t \/ <<s, t>> \in R \/ <<t, s>> \in R
        BY DEF Orders
    <2>2. r(s) \in Nat /\ r(t) \in Nat
        BY <1>2
    <2>3. <<s, t>> \in R => r(s) < r(t)
        BY <1>3
    <2>4. <<t, s>> \in R => r(t) < r(s)
        BY <1>3
    <2> HIDE DEF r
    <2> QED
        BY <2>1, <2>2, <2>3, <2>4
<1>5. f \in Injection(S, 1..n)
    <2> HIDE DEF r, n
    <2>1. \A s \in S : f[s] = r(s) + 1 /\ r(s) \in Nat
        BY <1>2
    <2>2. f \in [S -> 1..n]
        BY <1>2
    <2>3. \A s, t \in S : f[s] = f[t] => s = t
        BY <1>4, <2>1
    <2> QED
        BY <2>2, <2>3 DEF Injection, IsInjective
<1>6. f \in Surjection(S, 1..n)
    <2>1. IsFiniteSet(1..n) /\ Cardinality(1..n) = n
        BY <1>1, FS_Interval
    <2> HIDE DEF f
    <2>2. Cardinality(S) = Cardinality(1..n)
        BY <2>1
    <2> QED
        BY <1>5, <2>1, <2>2, FS_Injection
<1>7. ASSUME NEW i \in 1..n
      PROVE  \E s \in S : r(s) = i - 1
    <2>1. PICK s \in S : f[s] = i
        BY <1>6 DEF Surjection
    <2>2. r(s) + 1 = i /\ r(s) \in Nat
        BY <1>2, <2>1
    <2> HIDE DEF r, n
    <2>3. r(s) = i - 1
        BY <2>2
    <2> QED
        BY <2>3
<1>8. ASSUME NEW i \in 1..n, NEW j \in 1..n, NEW s \in S, NEW t \in S, i < j, r(s) = i - 1, r(t) = j - 1
      PROVE  <<s, t>> \in R /\ s # t
    <2>1. s = t \/ <<s, t>> \in R \/ <<t, s>> \in R
        BY DEF Orders
    <2>2. ~(r(t) <= r(s))
        <3> HIDE DEF r, n
        <3> QED
            BY <1>1, <1>8
    <2> HIDE DEF r, n
    <2> QED
        BY <1>2, <1>3, <2>1, <2>2
<1> QED
    BY <1>7, <1>8

\* The key of a row is a pair of numbers.
Pair(k) == k = <<k[1], k[2]>> /\ k[1] \in Int /\ k[2] \in Int

LEMMA ExtremesOfTwo ==
    ASSUME NEW a \in Int, NEW b \in Int, NEW S \in SUBSET {a, b}, S # {}
    PROVE  Max(S) \in Int /\ Min(S) \in Int
<1>1. S = {a} \/ S = {b} \/ S = {a, b}
    OBVIOUS
<1>2. \E x \in S : \A y \in S : x >= y
    BY <1>1
<1>3. \E x \in S : \A y \in S : x <= y
    BY <1>1
<1> QED
    BY <1>2, <1>3 DEF Max, Min

LEMMA RowsKeyed ==
    ASSUME BriefingTypeOK
    PROVE  /\ Chased \subseteq Range(Crew) /\ IsFiniteSet(Chased)
           /\ \A s \in Chased : Pair(RowKey(RowOf(s)))
           /\ \A s, t \in Chased : RowOf(s) = RowOf(t) => s = t
<1>1. \A e \in Entries \ {Current} : e.who \in Range(Crew) /\ e.days \in Int
                                     /\ e \in {Entry(e.who, "Voyaging"), Entry(e.who, "Hosting")}
    <2> SUFFICES ASSUME NEW e \in Entries \ {Current}
                 PROVE  /\ e.who \in Range(Crew) /\ e.days \in Int
                        /\ e \in {Entry(e.who, "Voyaging"), Entry(e.who, "Hosting")}
        OBVIOUS
    <2>1. PICK label \in Labels : \E s \in Range(Crew) : e = Entry(s, label)
        <3>1. Labels = {"Voyaging", "Hosting"}
            BY DEF Labels
        <3> QED
            BY <3>1, EntriesAre
    <2>2. e \in Chase(label)
        BY <2>1, ChasesAre
    <2>3. e.who \in Range(Crew) /\ e = Entry(e.who, label) /\ Due(e, e.who, label)
        BY <2>2, ChasesAre
    <2> QED
        BY <2>3 DEF Labels, Due
<1>2. Chased \subseteq Range(Crew)
    BY <1>1 DEF Chased
<1>3. IsFiniteSet(Chased)
    BY <1>2, CrewFacts, FS_Subset
<1>4. Nobody \notin Range(Crew)
    BY CrewFacts
<1>5. \A s \in Range(Crew) : Current \notin RowOf(s)
    BY <1>4, CurrentIs DEF RowOf
<1>6. \A s \in Chased : \E e \in RowOf(s) : TRUE
    BY DEF Chased, RowOf
<1>7. \A s \in Chased : \A e \in RowOf(s) : e.who = s
    BY DEF RowOf
<1>8. ASSUME NEW s \in Chased
      PROVE  Pair(RowKey(RowOf(s)))
    <2> DEFINE line == RowOf(s)
               v == Entry(s, "Voyaging")  h == Entry(s, "Hosting")
               a == IF v \in line THEN v.days ELSE 0
               b == IF h \in line THEN h.days ELSE 0
               late == {e.days : e \in {x \in line : x.status = "overdue" /\ ~x.leave}}
               leave == {e.days : e \in {x \in line : x.status = "overdue" /\ x.leave}}
               days == {e.days : e \in line}
    <2>1. \A e \in line : e \in Entries \ {Current} /\ e.who = s
        BY <1>2, <1>5 DEF RowOf
    <2>2. \A e \in line : e \in {v, h} /\ e.days \in Int
        BY <1>1, <2>1
    <2> HIDE DEF line, v, h
    <2>3. a \in Int /\ b \in Int
        BY <2>2
    <2>4. \A e \in line : e.days \in {a, b}
        BY <2>2
    <2> HIDE DEF a, b
    <2>5. late \in SUBSET {a, b} /\ leave \in SUBSET {a, b} /\ days \in SUBSET {a, b} /\ days # {}
        BY <1>6, <2>4 DEF line
    <2>6. RowKey(line) = IF late # {} THEN <<0, -Max(late)>>
                        ELSE IF leave # {} THEN <<1, -Max(leave)>> ELSE <<2, Min(days)>>
        BY DEF RowKey
    <2> HIDE DEF late, leave, days
    <2>7. (late # {} => Max(late) \in Int) /\ (leave # {} => Max(leave) \in Int) /\ Min(days) \in Int
        BY <2>3, <2>5, ExtremesOfTwo
    <2>8. Pair(RowKey(line))
        BY <2>6, <2>7 DEF Pair
    <2> QED
        BY <2>8 DEF line
<1> QED
    BY <1>2, <1>3, <1>6, <1>7, <1>8

\* The rows, in their order.
LEMMA RowsInOrder ==
    ASSUME BriefingTypeOK
    PROVE  /\ AttentionRows \in Seq(SUBSET Entries) /\ Len(AttentionRows) = Cardinality(Chased)
           /\ \A i, j \in DOMAIN AttentionRows : i < j =>
                AttentionRows[i] # AttentionRows[j]
                /\ ~Before(RowKey(AttentionRows[j]), RowKey(AttentionRows[i]))
<1> DEFINE S == Chased
           n == Cardinality(S)
           R == {p \in S \X S : Ahead(p[1], p[2])}
           K(s) == RowKey(RowOf(s))
           who(i) == CHOOSE s \in S : Cardinality({t \in S : Ahead(t, s)}) = i - 1
<1>1. S \subseteq Range(Crew) /\ IsFiniteSet(S) /\ (\A s \in S : Pair(K(s))) /\ \A s, t \in S : RowOf(s) = RowOf(t) => s = t
    BY RowsKeyed
<1>2. \A s, t \in S : <<s, t>> \in R <=> Ahead(s, t)
    OBVIOUS
<1>3. \A s, t \in S : Ahead(s, t) <=> Before(K(s), K(t)) \/ (K(s) = K(t) /\ Place(s) < Place(t))
    BY DEF Ahead
<1>4. \A s \in S : Place(s) \in Int
    BY <1>1, CrewFacts
<1>5. \A s, t \in S : Place(s) = Place(t) => s = t
    BY <1>1, CrewFacts
<1> HIDE DEF K, S, R
<1>6. \A s, t, u \in S : Before(K(s), K(t)) /\ Before(K(t), K(u)) => Before(K(s), K(u))
    BY <1>1 DEF Before, Pair
<1>7. \A s, t \in S : K(s) = K(t) \/ Before(K(s), K(t)) \/ Before(K(t), K(s))
    BY <1>1 DEF Before, Pair
<1>8. \A s, t \in S : ~(Before(K(s), K(t)) /\ Before(K(t), K(s))) /\ ~Before(K(s), K(s))
    BY <1>1 DEF Before, Pair
<1>9. Orders(R, S)
    <2>1. \A s \in S : ~Ahead(s, s)
        BY <1>3, <1>4, <1>8
    <2>2. \A s, t, u \in S : Ahead(s, t) /\ Ahead(t, u) => Ahead(s, u)
        BY <1>3, <1>4, <1>6
    <2>3. \A s, t \in S : s = t \/ Ahead(s, t) \/ Ahead(t, s)
        BY <1>3, <1>4, <1>5, <1>7
    <2> QED
        BY <1>2, <2>1, <2>2, <2>3 DEF Orders
<1>10. \A s \in S : Under(R, S, s) = {t \in S : Ahead(t, s)}
    BY <1>2 DEF Under
<1>11. \A i \in 1..n : /\ \E s \in S : Cardinality(Under(R, S, s)) = i - 1
                       /\ \A j \in 1..n, s, t \in S :
                            i < j /\ Cardinality(Under(R, S, s)) = i - 1 /\ Cardinality(Under(R, S, t)) = j - 1
                                => <<s, t>> \in R /\ s # t
    BY <1>1, <1>9, InOrder
<1>12. ASSUME NEW i \in 1..n
       PROVE  who(i) \in S /\ Cardinality(Under(R, S, who(i))) = i - 1
    <2>1. \E s \in S : Cardinality({t \in S : Ahead(t, s)}) = i - 1
        BY <1>10, <1>11
    <2>2. who(i) \in S /\ Cardinality({t \in S : Ahead(t, who(i))}) = i - 1
        BY <2>1
    <2> QED
        BY <1>10, <2>2
<1>13. n \in Nat
    BY <1>1, FS_CardinalityType
<1>14. AttentionRows = [i \in 1..n |-> RowOf(who(i))]
    BY DEF AttentionRows, S
<1> HIDE DEF who, n
<1>15. ASSUME NEW i \in 1..n, NEW j \in 1..n, i < j
       PROVE  /\ RowOf(who(i)) # RowOf(who(j))
              /\ ~Before(RowKey(RowOf(who(j))), RowKey(RowOf(who(i))))
    <2>1. who(i) \in S /\ who(j) \in S /\ <<who(i), who(j)>> \in R /\ who(i) # who(j)
        BY <1>11, <1>12, <1>15
    <2>2. Before(K(who(i)), K(who(j))) \/ K(who(i)) = K(who(j))
        BY <1>2, <1>3, <2>1
    <2>3. ~Before(K(who(j)), K(who(i)))
        BY <1>8, <2>1, <2>2
    <2> QED
        BY <1>1, <2>1, <2>3 DEF K
<1>16. \A i \in 1..n : RowOf(who(i)) \in SUBSET Entries
    BY DEF RowOf
<1>17. AttentionRows \in Seq(SUBSET Entries) /\ Len(AttentionRows) = n /\ DOMAIN AttentionRows = 1..n
    BY <1>13, <1>14, <1>16
<1> QED
    BY <1>14, <1>15, <1>17 DEF n, S

\* A finite set, listed: each element once.
LEMMA SetListed ==
    ASSUME NEW S, IsFiniteSet(S)
    PROVE  SetToSeq(S) \in Seq(S) /\ IsInjective(SetToSeq(S)) /\ Range(SetToSeq(S)) = S
<1> DEFINE n == Cardinality(S)
           f == SetToSeq(S)
<1>1. n \in Nat /\ ExistsBijection(1..n, S)
    BY FS_CardinalityType
<1>2. PICK g : g \in Bijection(1..n, S)
    BY <1>1 DEF ExistsBijection
<1>3. g \in [1..n -> S] /\ IsInjective(g)
    BY <1>2 DEF Bijection, Injection
<1>4. f \in [1..n -> S] /\ IsInjective(f)
    BY <1>3 DEF SetToSeq
<1>5. IsFiniteSet(1..n) /\ Cardinality(1..n) = n
    BY <1>1, FS_Interval
<1> HIDE DEF f
<1>6. f \in Injection(1..n, S)
    BY <1>4 DEF Injection
<1>7. f \in Surjection(1..n, S)
    <2>1. Cardinality(1..n) = Cardinality(S)
        BY <1>5
    <2> HIDE DEF n
    <2> QED
        BY <1>6, <2>1, FS_Injection
<1>8. Range(f) = S
    BY <1>4, <1>7 DEF Surjection, Range
<1>9. f \in Seq(S)
    BY <1>1, <1>4
<1> QED
    BY <1>4, <1>8, <1>9 DEF f

\* The pages of what is shown, one at least.
LEMMA PagesOrOneTell ==
    ASSUME NEW X, NEW s \in Seq(X), NEW m \in Nat \ {0}
    PROVE  /\ PagesOrOne(s, m) \in Seq(Seq(X)) /\ FlattenSeq(PagesOrOne(s, m)) = s
           /\ \A i \in DOMAIN PagesOrOne(s, m) : Len(PagesOrOne(s, m)[i]) <= m
<1>1. CASE s = <<>>
    <2> DEFINE one == <<<<>>>>
    <2>1. PagesOrOne(s, m) = one
        BY <1>1 DEF PagesOrOne
    <2>2. one \in Seq(Seq(X)) /\ Len(one) = 1 /\ one[1] = <<>> /\ DOMAIN one = 1..1
        <3>1. <<>> \in Seq(X)
            BY EmptySeq
        <3> QED
            BY <3>1
    <2> HIDE DEF one
    <2>3. PICK f : /\ f \in [0..Len(one) -> Seq(X)] /\ f[0] = <<>> /\ FlattenSeq(one) = f[Len(one)]
                   /\ \A i \in 1..Len(one) : f[i] = f[i - 1] \o one[i]
        BY <2>2, JoinsAll
    <2>4. FlattenSeq(one) = <<>>
        <3>1. f[1] = f[0] \o one[1]
            <4>1. 1 \in 1..Len(one) /\ 1 - 1 = 0
                BY <2>2
            <4> QED
                BY <2>3, <4>1
        <3>2. <<>> \o <<>> = <<>>
            OBVIOUS
        <3> QED
            BY <2>2, <2>3, <3>1, <3>2
    <2>5. \A i \in DOMAIN one : Len(one[i]) <= m
        BY <2>2
    <2> QED
        BY <1>1, <2>1, <2>2, <2>4, <2>5
<1>2. CASE s # <<>>
    <2>1. PagesOrOne(s, m) = Pages(s, m)
        BY <1>2 DEF PagesOrOne
    <2>2. Pages(s, m) \in Seq(Seq(X)) /\ FlattenSeq(Pages(s, m)) = s
          /\ \A i \in 1..Len(Pages(s, m)) : Len(Pages(s, m)[i]) \in 1..m
        BY PagesTell
    <2>3. DOMAIN Pages(s, m) = 1..Len(Pages(s, m))
        BY <2>2
    <2> QED
        BY <2>1, <2>2, <2>3
<1> QED
    BY <1>1, <1>2

\* The officers with something to do, each once.
OfficersIn(actions) == {a.officer : a \in actions}

LEMMA OfficersAre ==
    ASSUME NEW A, IsFiniteSet(A)
    PROVE  Officers(A) \in Seq(OfficersIn(A)) /\ IsInjective(Officers(A)) /\ Range(Officers(A)) = OfficersIn(A)
<1> DEFINE All == OfficersIn(A)
           named == All \ {Nobody}
           f == [a \in A |-> a.officer]
           S == SetToSeq(named)
           n == Len(S)
<1>1. IsFiniteSet(All)
    <2>1. f \in Surjection(A, All)
        BY DEF Surjection, OfficersIn
    <2> HIDE DEF f, All
    <2> QED
        BY <2>1, FS_Surjection
<1>2. IsFiniteSet(named)
    BY <1>1, FS_Subset
<1>3. S \in Seq(named) /\ IsInjective(S) /\ Range(S) = named
    BY <1>2, SetListed
<1>4. Officers(A) = S \o IF \E a \in A : a.officer = Nobody THEN <<Nobody>> ELSE <<>>
    BY DEF Officers, OfficersIn
<1>5. (\E a \in A : a.officer = Nobody) <=> Nobody \in All
    BY DEF OfficersIn
<1> HIDE DEF S, All
<1>6. S \in Seq(All) /\ n \in Nat /\ DOMAIN S = 1..n /\ \A i \in 1..n : S[i] \in All /\ S[i] # Nobody
    <2>1. S \in Seq(All)
        BY <1>3
    <2> QED
        BY <1>3, <2>1
<1>7. CASE Nobody \in All
    <2> DEFINE T == S \o <<Nobody>>
    <2>1. Officers(A) = T
        BY <1>4, <1>5, <1>7
    <2>2. /\ T \in Seq(All) /\ Len(T) = n + 1 /\ DOMAIN T = 1..(n + 1) /\ T[n + 1] = Nobody
          /\ \A i \in 1..n : T[i] = S[i]
        BY <1>6, <1>7
    <2> HIDE DEF T, n
    <2>3. IsInjective(T)
        <3> SUFFICES ASSUME NEW i \in 1..(n + 1), NEW j \in 1..(n + 1), T[i] = T[j]
                     PROVE  i = j
            BY <2>2 DEF IsInjective
        <3>1. CASE i \in 1..n /\ j \in 1..n
            BY <1>3, <1>6, <2>2, <3>1 DEF IsInjective
        <3>2. CASE i \notin 1..n
            BY <1>6, <2>2, <3>2
        <3>3. CASE j \notin 1..n
            BY <1>6, <2>2, <3>3
        <3> QED
            BY <3>1, <3>2, <3>3
    <2>4. Range(T) = All
        <3>1. \A x \in All : x = Nobody \/ \E i \in 1..n : S[i] = x
            BY <1>3, <1>6 DEF Range
        <3>2. \A x \in All : \E i \in 1..(n + 1) : T[i] = x
            BY <1>6, <2>2, <3>1
        <3>3. \A i \in 1..(n + 1) : T[i] \in All
            BY <2>2
        <3> QED
            BY <2>2, <3>2, <3>3 DEF Range
    <2> QED
        BY <2>1, <2>2, <2>3, <2>4 DEF All
<1>8. CASE Nobody \notin All
    <2>1. Officers(A) = S
        <3>1. Officers(A) = S \o <<>>
            BY <1>4, <1>5, <1>8
        <3>2. \A t \in Seq(All) : t \o <<>> = t
            OBVIOUS
        <3> QED
            BY <1>6, <3>1, <3>2
    <2>2. named = All
        BY <1>8
    <2> QED
        BY <1>3, <1>6, <2>1, <2>2 DEF All
<1> QED
    BY <1>7, <1>8

\* The line of an officer about a member, with the lines of an officer.
LineOf(actions, who, officer) == {a \in actions : a.who = who /\ a.officer = officer}

LEMMA LinesAre ==
    ASSUME NEW A, IsFiniteSet(A), NEW o
    PROVE  /\ LinesOf(A, o) \in Seq(SUBSET A) /\ IsInjective(LinesOf(A, o))
           /\ \A l \in Range(LinesOf(A, o)) : \E a \in A : a.officer = o /\ l = LineOf(A, a.who, o)
           /\ \A a \in A : a.officer = o => LineOf(A, a.who, o) \in Range(LinesOf(A, o))
<1> DEFINE mine == {x \in A : x.officer = o}
           whos == {a.who : a \in mine}
           All == {LineOf(A, s, o) : s \in whos}
           f == [a \in mine |-> LineOf(A, a.who, o)]
<1>1. IsFiniteSet(mine)
    BY FS_Subset
<1>2. \A l \in All : \E a \in mine : l = LineOf(A, a.who, o)
    OBVIOUS
<1>3. \A a \in mine : LineOf(A, a.who, o) \in All
    OBVIOUS
<1>4. LinesOf(A, o) = SetToSeq(All)
    BY DEF LinesOf, LineOf
<1> HIDE DEF All, mine
<1>5. f \in Surjection(mine, All)
    BY <1>2, <1>3 DEF Surjection
<1> HIDE DEF f
<1>6. IsFiniteSet(All)
    BY <1>1, <1>5, FS_Surjection
<1>7. SetToSeq(All) \in Seq(All) /\ IsInjective(SetToSeq(All)) /\ Range(SetToSeq(All)) = All
    BY <1>6, SetListed
<1>8. All \subseteq SUBSET A
    BY <1>2 DEF LineOf
<1>9. SetToSeq(All) \in Seq(SUBSET A)
    BY <1>7, <1>8
<1>10. \A a \in A : a.officer = o <=> a \in mine
    BY DEF mine
<1>11. \A a \in mine : a \in A
    BY DEF mine
<1> QED
    BY <1>2, <1>3, <1>4, <1>7, <1>9, <1>10, <1>11

\* What occurs once in the parts occurs once in the whole.
LEMMA OnceFlat ==
    ASSUME NEW X, NEW ss \in Seq(Seq(X)), Once(ss)
    PROVE  IsInjective(FlattenSeq(ss))
BY FlatOfEach DEF Once

\* A field: an officer and lines of theirs.
FieldSet(A) == [officer : OfficersIn(A), lines : Seq(SUBSET A)]

ToldIn(A, F) ==
    /\ F \in Seq(FieldSet(A))
    /\ \A i \in 1..Len(F) : \A k \in 1..Len(F[i].lines) :
         \E a \in A : a.officer = F[i].officer /\ F[i].lines[k] = LineOf(A, a.who, a.officer)
    /\ \A a \in A : \E i \in 1..Len(F) : \E k \in 1..Len(F[i].lines) :
         F[i].lines[k] = LineOf(A, a.who, a.officer)

EachOnce(F) ==
    \A i, j \in 1..Len(F) : \A k \in 1..Len(F[i].lines), l \in 1..Len(F[j].lines) :
        F[i].lines[k] = F[j].lines[l] => i = j /\ k = l

\* The lines of an officer, cut into fields.
Cut(A, o, G) ==
    /\ G \in Seq(Seq(SUBSET A)) /\ Once(G)
    /\ \A x \in 1..Len(G) : \A k \in 1..Len(G[x]) :
         \E a \in A : a.officer = o /\ G[x][k] = LineOf(A, a.who, o)
    /\ \A a \in A : a.officer = o =>
         \E x \in 1..Len(G) : \E k \in 1..Len(G[x]) : G[x][k] = LineOf(A, a.who, o)

LEMMA LinesCut ==
    ASSUME NEW A, IsFiniteSet(A), NEW o
    PROVE  Cut(A, o, Pages(LinesOf(A, o), LinesPerField))
<1> DEFINE s == LinesOf(A, o)
           G == Pages(s, LinesPerField)
<1>1. s \in Seq(SUBSET A) /\ IsInjective(s)
      /\ (\A l \in Range(s) : \E a \in A : a.officer = o /\ l = LineOf(A, a.who, o))
      /\ (\A a \in A : a.officer = o => LineOf(A, a.who, o) \in Range(s))
    BY LinesAre
<1>2. LinesPerField \in Nat \ {0}
    BY BriefingAssumption
<1> HIDE DEF s
<1>3. G \in Seq(Seq(SUBSET A)) /\ From(G, s) /\ FlattenSeq(G) = s /\ Once(G)
    BY <1>1, <1>2, PagesTell
<1> HIDE DEF G
<1>4. DOMAIN s = 1..Len(s)
    BY <1>1
<1>5. \A x \in 1..Len(G) : \A k \in 1..Len(G[x]) : G[x][k] \in Range(s)
    <2> SUFFICES ASSUME NEW x \in 1..Len(G), NEW k \in 1..Len(G[x])
                 PROVE  G[x][k] \in Range(s)
        OBVIOUS
    <2>1. PICK p \in 1..Len(s) : G[x][k] = s[p]
        BY <1>3 DEF From
    <2> QED
        BY <1>4, <2>1 DEF Range
<1>6. Range(s) = UNION {Range(G[x]) : x \in DOMAIN G}
    BY <1>3, FlatOfEach
<1>7. DOMAIN G = 1..Len(G) /\ \A x \in 1..Len(G) : DOMAIN G[x] = 1..Len(G[x])
    BY <1>3
<1>8. \A l \in Range(s) : \E x \in 1..Len(G) : \E k \in 1..Len(G[x]) : G[x][k] = l
    <2>1. \A l \in Range(s) : \E x \in 1..Len(G) : l \in Range(G[x])
        BY <1>6, <1>7
    <2> QED
        BY <1>7, <2>1 DEF Range
<1>9. \A x \in 1..Len(G) : \A k \in 1..Len(G[x]) :
         \E a \in A : a.officer = o /\ G[x][k] = LineOf(A, a.who, o)
    BY <1>1, <1>5
<1>10. Cut(A, o, G)
    BY <1>1, <1>3, <1>8, <1>9 DEF Cut
<1> QED
    BY <1>10 DEF G, s

LEMMA FieldsTold ==
    ASSUME NEW A, IsFiniteSet(A)
    PROVE  ToldIn(A, Fields(A)) /\ EachOnce(Fields(A))
<1> DEFINE O == Officers(A)
           G(i) == Pages(LinesOf(A, O[i]), LinesPerField)
           FF == [i \in DOMAIN O |-> FieldsOf(O[i], G(i))]
           F == Fields(A)
           X == FieldSet(A)
<1>1. O \in Seq(OfficersIn(A)) /\ IsInjective(O) /\ Range(O) = OfficersIn(A)
    BY OfficersAre
<1>2. DOMAIN O = 1..Len(O) /\ Len(O) \in Nat /\ \A i \in 1..Len(O) : O[i] \in OfficersIn(A)
    BY <1>1
<1>3. F = FlattenSeq(FF)
    BY DEF Fields
<1>4. FF = [i \in 1..Len(O) |-> FieldsOf(O[i], G(i))]
    BY <1>2
<1> HIDE DEF O, F, FF
<1>5. ASSUME NEW i \in 1..Len(O)
      PROVE  /\ G(i) \in Seq(Seq(SUBSET A)) /\ Once(G(i))
             /\ \A x \in 1..Len(G(i)) : \A k \in 1..Len(G(i)[x]) :
                  \E a \in A : a.officer = O[i] /\ G(i)[x][k] = LineOf(A, a.who, O[i])
             /\ \A a \in A : a.officer = O[i] =>
                  \E x \in 1..Len(G(i)) : \E k \in 1..Len(G(i)[x]) : G(i)[x][k] = LineOf(A, a.who, O[i])
    <2>1. Cut(A, O[i], G(i))
        BY LinesCut
    <2> HIDE DEF G
    <2> QED
        BY <2>1 DEF Cut
<1>6. ASSUME NEW i \in 1..Len(O)
      PROVE  /\ FF[i] \in Seq(X) /\ Len(FF[i]) = Len(G(i))
             /\ \A x \in 1..Len(G(i)) : FF[i][x].officer = O[i] /\ FF[i][x].lines = G(i)[x]
    <2> DEFINE g == G(i)
    <2>1. g \in Seq(Seq(SUBSET A))
        BY <1>5
    <2>2. FF[i] = FieldsOf(O[i], g)
        BY <1>4
    <2> HIDE DEF g
    <2>3. DOMAIN g = 1..Len(g) /\ Len(g) \in Nat /\ \A x \in 1..Len(g) : g[x] \in Seq(SUBSET A)
        BY <2>1
    <2>4. FF[i] = [x \in 1..Len(g) |-> [officer |-> O[i], lines |-> g[x]]]
        BY <2>2, <2>3 DEF FieldsOf
    <2>5. \A x \in 1..Len(g) : [officer |-> O[i], lines |-> g[x]] \in X
        BY <1>2, <2>3 DEF FieldSet
    <2> HIDE DEF X
    <2>6. FF[i] \in Seq(X) /\ Len(FF[i]) = Len(g)
        BY <2>3, <2>4, <2>5
    <2>7. \A x \in 1..Len(g) : FF[i][x].officer = O[i] /\ FF[i][x].lines = g[x]
        BY <2>4
    <2> QED
        BY <2>6, <2>7 DEF g
<1> HIDE DEF G, X
<1>7. FF \in Seq(Seq(X)) /\ Len(FF) = Len(O)
    BY <1>2, <1>4, <1>6
<1>8. F \in Seq(X) /\ \E at : Places(FF, F, at)
    BY <1>3, <1>7, FlatPlaces
<1>9. PICK at : Places(FF, F, at)
    BY <1>8
<1>10. /\ at \in [1..Len(O) -> Nat]
       /\ \A i \in 1..Len(O) : \A x \in 1..Len(G(i)) : at[i] + x \in 1..Len(F) /\ F[at[i] + x] = FF[i][x]
       /\ \A p \in 1..Len(F) : \E i \in 1..Len(O) : \E x \in 1..Len(G(i)) : p = at[i] + x
    <2>1. /\ at \in [1..Len(O) -> Nat]
          /\ \A i \in 1..Len(O) : \A x \in 1..Len(FF[i]) : at[i] + x \in 1..Len(F) /\ F[at[i] + x] = FF[i][x]
          /\ \A p \in 1..Len(F) : \E i \in 1..Len(O) : \E x \in 1..Len(FF[i]) : p = at[i] + x
        BY <1>7, <1>9 DEF Places
    <2>2. \A i \in 1..Len(O) : Len(FF[i]) = Len(G(i))
        BY <1>6
    <2>3. \A i \in 1..Len(O) : \A x \in 1..Len(G(i)) : at[i] + x \in 1..Len(F) /\ F[at[i] + x] = FF[i][x]
        <3> SUFFICES ASSUME NEW i \in 1..Len(O), NEW x \in 1..Len(G(i))
                     PROVE  at[i] + x \in 1..Len(F) /\ F[at[i] + x] = FF[i][x]
            OBVIOUS
        <3>1. x \in 1..Len(FF[i])
            BY <2>2
        <3> QED
            BY <2>1, <3>1
    <2>4. ASSUME NEW p \in 1..Len(F)
          PROVE  \E i \in 1..Len(O) : \E x \in 1..Len(G(i)) : p = at[i] + x
        <3>1. PICK i \in 1..Len(O) : \E x \in 1..Len(FF[i]) : p = at[i] + x
            BY <2>1
        <3>2. 1..Len(FF[i]) = 1..Len(G(i))
            BY <2>2
        <3>3. \E x \in 1..Len(G(i)) : p = at[i] + x
            BY <3>1, <3>2
        <3> QED
            BY <3>3
    <2> QED
        BY <2>1, <2>3, <2>4
<1>11. ASSUME NEW p \in 1..Len(F)
       PROVE  \E i \in 1..Len(O) : \E x \in 1..Len(G(i)) :
                  p = at[i] + x /\ F[p].officer = O[i] /\ F[p].lines = G(i)[x]
    <2>1. PICK i \in 1..Len(O) : \E x \in 1..Len(G(i)) : p = at[i] + x
        BY <1>10
    <2>2. PICK x \in 1..Len(G(i)) : p = at[i] + x
        BY <2>1
    <2>3. F[p] = FF[i][x]
        BY <1>10, <2>2
    <2> QED
        BY <1>6, <2>2, <2>3
<1>12. ASSUME NEW p \in 1..Len(F), NEW k \in 1..Len(F[p].lines)
       PROVE  \E a \in A : a.officer = F[p].officer /\ F[p].lines[k] = LineOf(A, a.who, a.officer)
    <2>1. PICK i \in 1..Len(O) : \E x \in 1..Len(G(i)) : F[p].officer = O[i] /\ F[p].lines = G(i)[x]
        BY <1>11
    <2>2. PICK x \in 1..Len(G(i)) : F[p].officer = O[i] /\ F[p].lines = G(i)[x]
        BY <2>1
    <2>3. PICK a \in A : a.officer = O[i] /\ G(i)[x][k] = LineOf(A, a.who, O[i])
        BY <1>5, <2>2
    <2> QED
        BY <2>2, <2>3
<1>13. ASSUME NEW a \in A
       PROVE  \E p \in 1..Len(F) : \E k \in 1..Len(F[p].lines) : F[p].lines[k] = LineOf(A, a.who, a.officer)
    <2>1. a.officer \in Range(O)
        BY <1>1 DEF OfficersIn
    <2>2. PICK i \in 1..Len(O) : O[i] = a.officer
        BY <1>2, <2>1 DEF Range
    <2>3. PICK x \in 1..Len(G(i)) : \E k \in 1..Len(G(i)[x]) : G(i)[x][k] = LineOf(A, a.who, O[i])
        BY <1>5, <2>2
    <2>4. at[i] + x \in 1..Len(F) /\ F[at[i] + x].lines = G(i)[x]
        <3>1. at[i] + x \in 1..Len(F) /\ F[at[i] + x] = FF[i][x]
            BY <1>10
        <3>2. FF[i][x].lines = G(i)[x]
            BY <1>6
        <3> QED
            BY <3>1, <3>2
    <2> QED
        BY <2>2, <2>3, <2>4
<1>14. ToldIn(A, F)
    BY <1>8, <1>12, <1>13 DEF ToldIn, X
<1>15. ASSUME NEW p \in 1..Len(F), NEW q \in 1..Len(F),
              NEW k \in 1..Len(F[p].lines), NEW l \in 1..Len(F[q].lines), F[p].lines[k] = F[q].lines[l]
       PROVE  p = q /\ k = l
    <2>1. PICK i \in 1..Len(O) : \E x \in 1..Len(G(i)) :
                p = at[i] + x /\ F[p].officer = O[i] /\ F[p].lines = G(i)[x]
        BY <1>11
    <2>2. PICK x \in 1..Len(G(i)) : p = at[i] + x /\ F[p].officer = O[i] /\ F[p].lines = G(i)[x]
        BY <2>1
    <2>3. PICK j \in 1..Len(O) : \E y \in 1..Len(G(j)) :
                q = at[j] + y /\ F[q].officer = O[j] /\ F[q].lines = G(j)[y]
        BY <1>11
    <2>4. PICK y \in 1..Len(G(j)) : q = at[j] + y /\ F[q].officer = O[j] /\ F[q].lines = G(j)[y]
        BY <2>3
    <2>5. PICK a \in A : a.officer = O[i] /\ F[p].lines[k] = LineOf(A, a.who, O[i])
        <3>1. k \in 1..Len(G(i)[x])
            BY <2>2
        <3>2. \E a \in A : a.officer = O[i] /\ G(i)[x][k] = LineOf(A, a.who, O[i])
            BY <1>5, <3>1
        <3> QED
            BY <2>2, <3>2
    <2>6. PICK b \in A : b.officer = O[j] /\ F[q].lines[l] = LineOf(A, b.who, O[j])
        <3>1. l \in 1..Len(G(j)[y])
            BY <2>4
        <3>2. \E b \in A : b.officer = O[j] /\ G(j)[y][l] = LineOf(A, b.who, O[j])
            BY <1>5, <3>1
        <3> QED
            BY <2>4, <3>2
    <2>7. a \in LineOf(A, b.who, O[j])
        BY <1>15, <2>5, <2>6 DEF LineOf
    <2>8. O[i] = O[j]
        BY <2>5, <2>7 DEF LineOf
    <2>9. i = j
        BY <1>1, <1>2, <2>8 DEF IsInjective
    <2>10. Once(G(i)) /\ G(i)[x][k] = G(i)[y][l] /\ k \in 1..Len(G(i)[x]) /\ l \in 1..Len(G(i)[y]) /\ y \in 1..Len(G(i))
        BY <1>5, <1>15, <2>2, <2>4, <2>9
    <2>11. x = y /\ k = l
        BY <2>10 DEF Once
    <2> QED
        BY <2>2, <2>4, <2>9, <2>11
<1>16. EachOnce(F)
    BY <1>15 DEF EachOnce
<1> QED
    BY <1>14, <1>16 DEF F

\* The lines of all fields: every action is in one.
LinesIn(F) == FlattenSeq([i \in DOMAIN F |-> F[i].lines])

LEMMA LinesTold ==
    ASSUME NEW A, NEW F, ToldIn(A, F), EachOnce(F)
    PROVE  /\ UNION Range(LinesIn(F)) = A
           /\ \A i, j \in DOMAIN LinesIn(F) : i # j => LinesIn(F)[i] \cap LinesIn(F)[j] = {}
           /\ \A i \in DOMAIN F : \A l \in Range(F[i].lines) : \A a \in l : a.officer = F[i].officer
<1> DEFINE LL == [i \in DOMAIN F |-> F[i].lines]
           L == LinesIn(F)
<1>1. F \in Seq(FieldSet(A)) /\ DOMAIN F = 1..Len(F) /\ Len(F) \in Nat
    BY DEF ToldIn
<1>2. \A i \in 1..Len(F) : F[i].lines \in Seq(SUBSET A) /\ DOMAIN F[i].lines = 1..Len(F[i].lines)
    <2> SUFFICES ASSUME NEW i \in 1..Len(F)
                 PROVE  F[i].lines \in Seq(SUBSET A) /\ DOMAIN F[i].lines = 1..Len(F[i].lines)
        OBVIOUS
    <2>1. F[i] \in FieldSet(A)
        BY <1>1
    <2>2. F[i].lines \in Seq(SUBSET A)
        BY <2>1 DEF FieldSet
    <2> QED
        BY <2>2
<1>3. LL \in Seq(Seq(SUBSET A)) /\ Len(LL) = Len(F) /\ DOMAIN LL = 1..Len(F) /\ \A i \in 1..Len(F) : LL[i] = F[i].lines
    BY <1>1, <1>2
<1>4. L = FlattenSeq(LL)
    BY DEF LinesIn
<1> HIDE DEF LL, L
<1>5. Once(LL)
    <2> SUFFICES ASSUME NEW i \in 1..Len(F), NEW j \in 1..Len(F),
                        NEW k \in 1..Len(LL[i]), NEW l \in 1..Len(LL[j]), LL[i][k] = LL[j][l]
                 PROVE  i = j /\ k = l
        BY <1>3 DEF Once
    <2>1. LL[i] = F[i].lines /\ LL[j] = F[j].lines
        BY <1>3
    <2> QED
        BY <2>1 DEF EachOnce
<1>6. L \in Seq(SUBSET A) /\ Range(L) = UNION {Range(LL[i]) : i \in DOMAIN LL} /\ IsInjective(L)
    <2>1. L \in Seq(SUBSET A) /\ Range(L) = UNION {Range(LL[i]) : i \in DOMAIN LL}
        BY <1>3, <1>4, FlatOfEach
    <2> QED
        BY <1>3, <1>4, <1>5, <2>1, OnceFlat
<1>7. \A l : l \in Range(L) <=> \E i \in 1..Len(F) : \E k \in 1..Len(F[i].lines) : F[i].lines[k] = l
    <2>1. \A l : l \in Range(L) <=> \E i \in 1..Len(F) : l \in Range(F[i].lines)
        BY <1>3, <1>6
    <2>2. \A i \in 1..Len(F) : \A l : l \in Range(F[i].lines) <=> \E k \in 1..Len(F[i].lines) : F[i].lines[k] = l
        BY <1>2 DEF Range
    <2> QED
        BY <2>1, <2>2
<1>8. \A l \in Range(L) : \E a \in A : l = LineOf(A, a.who, a.officer)
    BY <1>7 DEF ToldIn
<1>9. \A a \in A : LineOf(A, a.who, a.officer) \in Range(L)
    BY <1>7 DEF ToldIn
<1>10. UNION Range(L) = A
    <2>1. \A a \in A : a \in LineOf(A, a.who, a.officer)
        BY DEF LineOf
    <2>2. \A l \in Range(L) : l \subseteq A
        BY <1>8 DEF LineOf
    <2> QED
        BY <1>9, <2>1, <2>2
<1>11. ASSUME NEW i \in DOMAIN L, NEW j \in DOMAIN L, i # j
       PROVE  L[i] \cap L[j] = {}
    <2>1. L[i] \in Range(L) /\ L[j] \in Range(L)
        BY DEF Range
    <2>2. PICK a \in A : L[i] = LineOf(A, a.who, a.officer)
        BY <1>8, <2>1
    <2>3. PICK b \in A : L[j] = LineOf(A, b.who, b.officer)
        BY <1>8, <2>1
    <2>4. L[i] # L[j]
        BY <1>6, <1>11 DEF IsInjective
    <2>5. ASSUME NEW c \in L[i] \cap L[j]
          PROVE  FALSE
        <3>1. c.who = a.who /\ c.officer = a.officer /\ c.who = b.who /\ c.officer = b.officer
            BY <2>2, <2>3, <2>5 DEF LineOf
        <3> QED
            BY <2>2, <2>3, <2>4, <3>1
    <2> QED
        BY <2>5
<1>12. ASSUME NEW i \in DOMAIN F, NEW l \in Range(F[i].lines), NEW a \in l
       PROVE  a.officer = F[i].officer
    <2>1. PICK k \in 1..Len(F[i].lines) : F[i].lines[k] = l
        BY <1>1, <1>2 DEF Range
    <2>2. PICK b \in A : b.officer = F[i].officer /\ l = LineOf(A, b.who, b.officer)
        BY <1>1, <2>1 DEF ToldIn
    <2> QED
        BY <1>12, <2>2 DEF LineOf
<1> QED
    BY <1>10, <1>11, <1>12 DEF L

\* The parts of the messages: their kind, and their number.
Piece == {"image", "awards", "tasking", "reminder"} \X Nat

\* Messages that are not too long, of pieces of some kinds, each once.
Sendable(ss, kinds) ==
    /\ ss \in Seq(Seq(Piece)) /\ Once(ss)
    /\ \A i \in 1..Len(ss) : Len(ss[i]) \in 1..EmbedsPerMessage
                             /\ \A k \in 1..Len(ss[i]) : ss[i][k][1] \in kinds

OfKinds(s, kinds) ==
    s \in Seq(Piece) /\ IsInjective(s) /\ \A k \in 1..Len(s) : s[k][1] \in kinds

LEMMA NumberedPieces ==
    ASSUME NEW X, NEW pages \in Seq(X), NEW name \in {"image", "awards", "tasking", "reminder"}
    PROVE  OfKinds(Numbered(name, pages), {name})
<1> DEFINE n == Len(pages)
<1>1. n \in Nat /\ DOMAIN pages = 1..n
    OBVIOUS
<1>2. Numbered(name, pages) = [i \in 1..n |-> <<name, i>>]
    BY <1>1 DEF Numbered
<1> HIDE DEF n
<1>3. \A i \in 1..n : <<name, i>> \in Piece
    BY <1>1 DEF Piece
<1> QED
    BY <1>1, <1>2, <1>3 DEF OfKinds, IsInjective

LEMMA PagesSendable ==
    ASSUME NEW kinds, NEW s, OfKinds(s, kinds)
    PROVE  Sendable(Pages(s, EmbedsPerMessage), kinds)
<1> DEFINE P == Pages(s, EmbedsPerMessage)
<1>1. EmbedsPerMessage \in Nat \ {0}
    BY BriefingAssumption
<1>2. s \in Seq(Piece) /\ IsInjective(s) /\ \A k \in 1..Len(s) : s[k][1] \in kinds
    BY DEF OfKinds
<1>3. P \in Seq(Seq(Piece)) /\ From(P, s) /\ Once(P) /\ \A i \in 1..Len(P) : Len(P[i]) \in 1..EmbedsPerMessage
    BY <1>1, <1>2, PagesTell
<1> HIDE DEF P
<1>4. ASSUME NEW i \in 1..Len(P), NEW k \in 1..Len(P[i])
      PROVE  P[i][k][1] \in kinds
    <2>1. PICK p \in 1..Len(s) : P[i][k] = s[p]
        BY <1>3 DEF From
    <2> QED
        BY <1>2, <2>1
<1>5. Sendable(P, kinds)
    BY <1>3, <1>4 DEF Sendable
<1> QED
    BY <1>5 DEF P

\* One after the other, when they share no kind.
LEMMA KindsJoined ==
    ASSUME NEW A, NEW B, A \cap B = {}, NEW a, OfKinds(a, A), NEW b, OfKinds(b, B)
    PROVE  OfKinds(a \o b, A \union B)
<1> DEFINE n == Len(a)  m == Len(b)  s == a \o b
<1>1. /\ a \in Seq(Piece) /\ IsInjective(a) /\ n \in Nat /\ (\A k \in 1..n : a[k][1] \in A) /\ DOMAIN a = 1..n
      /\ b \in Seq(Piece) /\ IsInjective(b) /\ m \in Nat /\ (\A k \in 1..m : b[k][1] \in B) /\ DOMAIN b = 1..m
    BY DEF OfKinds
<1>2. /\ s \in Seq(Piece) /\ Len(s) = n + m /\ DOMAIN s = 1..(n + m)
      /\ (\A k \in 1..n : s[k] = a[k]) /\ (\A k \in 1..(n + m) : k > n => k - n \in 1..m /\ s[k] = b[k - n])
    BY <1>1
<1> HIDE DEF n, m, s
<1>3. \A k \in 1..(n + m) : s[k][1] \in A \union B /\ (k \in 1..n <=> s[k][1] \in A)
    <2> SUFFICES ASSUME NEW k \in 1..(n + m)
                 PROVE  s[k][1] \in A \union B /\ (k \in 1..n <=> s[k][1] \in A)
        OBVIOUS
    <2>1. CASE k \in 1..n
        BY <1>1, <1>2, <2>1
    <2>2. CASE k \notin 1..n
        <3>1. k > n
            BY <1>1, <2>2
        <3> QED
            BY <1>1, <1>2, <2>2, <3>1
    <2> QED
        BY <2>1, <2>2
<1>4. ASSUME NEW i \in 1..(n + m), NEW j \in 1..(n + m), s[i] = s[j]
      PROVE  i = j
    <2>1. CASE i \in 1..n
        <3>1. j \in 1..n
            BY <1>3, <1>4, <2>1
        <3> QED
            BY <1>1, <1>2, <1>4, <2>1, <3>1 DEF IsInjective
    <2>2. CASE i \notin 1..n
        <3>1. j \notin 1..n
            BY <1>3, <1>4, <2>2
        <3>2. i > n /\ j > n
            BY <1>1, <2>2, <3>1
        <3>3. i - n \in 1..m /\ j - n \in 1..m /\ b[i - n] = b[j - n]
            BY <1>2, <1>4, <3>2
        <3>4. i - n = j - n
            BY <1>1, <3>3 DEF IsInjective
        <3> QED
            BY <1>1, <3>4
    <2> QED
        BY <2>1, <2>2
<1>5. OfKinds(s, A \union B)
    BY <1>2, <1>3, <1>4 DEF OfKinds, IsInjective
<1> QED
    BY <1>5 DEF s

LEMMA SendableJoined ==
    ASSUME NEW A, NEW B, A \cap B = {}, NEW a, Sendable(a, A), NEW b, Sendable(b, B)
    PROVE  Sendable(a \o b, A \union B)
<1> DEFINE n == Len(a)  m == Len(b)  s == a \o b
<1>1. /\ a \in Seq(Seq(Piece)) /\ n \in Nat /\ Once(a)
      /\ (\A i \in 1..n : Len(a[i]) \in 1..EmbedsPerMessage /\ \A k \in 1..Len(a[i]) : a[i][k][1] \in A)
    BY DEF Sendable
<1>2. /\ b \in Seq(Seq(Piece)) /\ m \in Nat /\ Once(b)
      /\ (\A i \in 1..m : Len(b[i]) \in 1..EmbedsPerMessage /\ \A k \in 1..Len(b[i]) : b[i][k][1] \in B)
    BY DEF Sendable
<1>3. /\ s \in Seq(Seq(Piece)) /\ Len(s) = n + m
      /\ (\A k \in 1..n : s[k] = a[k]) /\ (\A k \in 1..(n + m) : k > n => k - n \in 1..m /\ s[k] = b[k - n])
    BY <1>1, <1>2
<1>4. Once(a) /\ Once(b)
    BY <1>1, <1>2
<1> HIDE DEF s
<1>5. ASSUME NEW i \in 1..(n + m)
      PROVE  /\ i \in 1..n => s[i] = a[i]
             /\ i \notin 1..n => i > n /\ i - n \in 1..m /\ s[i] = b[i - n]
    <2> HIDE DEF n, m
    <2> QED
        BY <1>1, <1>2, <1>3
<1>6. ASSUME NEW i \in 1..(n + m)
      PROVE  /\ Len(s[i]) \in 1..EmbedsPerMessage
             /\ \A k \in 1..Len(s[i]) : s[i][k][1] \in A \union B /\ (i \in 1..n <=> s[i][k][1] \in A)
    <2>1. CASE i \in 1..n
        BY <1>1, <1>5, <2>1
    <2>2. CASE i \notin 1..n
        <3>1. s[i] = b[i - n] /\ i - n \in 1..m
            BY <1>5, <2>2
        <3> QED
            BY <1>2, <2>2, <3>1
    <2> QED
        BY <2>1, <2>2
<1>7. ASSUME NEW i \in 1..(n + m), NEW j \in 1..(n + m),
             NEW k \in 1..Len(s[i]), NEW l \in 1..Len(s[j]), s[i][k] = s[j][l]
      PROVE  i = j /\ k = l
    <2>0. i \in 1..n <=> j \in 1..n
        <3>1. (i \in 1..n <=> s[i][k][1] \in A) /\ (j \in 1..n <=> s[j][l][1] \in A)
            BY <1>6
        <3> QED
            BY <1>7, <3>1
    <2>1. CASE i \in 1..n
        <3>1. j \in 1..n /\ s[i] = a[i] /\ s[j] = a[j]
            BY <1>5, <2>0, <2>1
        <3> QED
            BY <1>4, <1>7, <2>1, <3>1 DEF Once
    <2>2. CASE i \notin 1..n
        <3>1. i - n \in 1..m /\ s[i] = b[i - n] /\ j - n \in 1..m /\ s[j] = b[j - n]
            BY <1>5, <2>0, <2>2
        <3>2. i - n = j - n /\ k = l
            BY <1>4, <1>7, <3>1 DEF Once
        <3> HIDE DEF n, m
        <3> QED
            BY <1>1, <1>2, <3>2
    <2> QED
        BY <2>1, <2>2
<1>8. Once(s)
    BY <1>3, <1>7 DEF Once
<1>9. Sendable(s, A \union B)
    BY <1>3, <1>6, <1>8 DEF Sendable
<1> QED
    BY <1>9 DEF s

LEMMA NothingToSend == OfKinds(<<>>, {}) /\ Sendable(<<>>, {})
BY DEF OfKinds, Sendable, Once, IsInjective

\* Fewer pieces of more kinds.
LEMMA OfMoreKinds ==
    ASSUME NEW A, NEW B, A \subseteq B, NEW s
    PROVE  (OfKinds(s, A) => OfKinds(s, B)) /\ (Sendable(s, A) => Sendable(s, B))
BY DEF OfKinds, Sendable

LEMMA ReminderSendable == Sendable(<<<<<<"reminder", 0>>>>>>, {"reminder"})
<1> DEFINE piece == <<"reminder", 0>>
           s == <<<<piece>>>>
<1>1. EmbedsPerMessage \in Nat \ {0}
    BY BriefingAssumption
<1>2. piece \in Piece /\ piece[1] = "reminder"
    BY DEF Piece
<1> HIDE DEF piece
<1>3. <<piece>> \in Seq(Piece) /\ Len(<<piece>>) = 1 /\ <<piece>>[1] = piece
    BY <1>2
<1>4. s \in Seq(Seq(Piece)) /\ Len(s) = 1 /\ s[1] = <<piece>>
    BY <1>3
<1> HIDE DEF s
<1>5. Once(s)
    <2> SUFFICES ASSUME NEW i \in 1..1, NEW j \in 1..1, NEW k \in 1..1, NEW l \in 1..1
                 PROVE  i = j /\ k = l
        BY <1>3, <1>4 DEF Once
    <2> QED
        OBVIOUS
<1>6. Sendable(s, {"reminder"})
    BY <1>1, <1>2, <1>3, <1>4, <1>5 DEF Sendable
<1> QED
    BY <1>6 DEF s, piece

\* The tasking of some actions, with its reminder.
LEMMA TaskingSendable ==
    ASSUME NEW A, IsFiniteSet(A)
    PROVE  /\ TaskingEmbeds(A) \in Seq(Seq(FieldSet(A)))
           /\ \A i \in 1..Len(TaskingEmbeds(A)) : Len(TaskingEmbeds(A)[i]) \in 1..FieldsPerEmbed
           /\ Sendable(Tasking(A), {"tasking", "reminder"})
           /\ A # {} => Tasking(A) # <<>> /\ Last(Tasking(A)) = <<<<"reminder", 0>>>>
<1> DEFINE E == TaskingEmbeds(A)
           P == Pages(Numbered("tasking", E), EmbedsPerMessage)
           last == <<<<<<"reminder", 0>>>>>>
           T == Tasking(A)
<1>1. Fields(A) \in Seq(FieldSet(A))
    BY FieldsTold DEF ToldIn
<1>2. FieldsPerEmbed \in Nat \ {0}
    BY BriefingAssumption
<1>3. E \in Seq(Seq(FieldSet(A))) /\ \A i \in 1..Len(E) : Len(E[i]) \in 1..FieldsPerEmbed
    BY <1>1, <1>2, PagesTell DEF TaskingEmbeds
<1>4. OfKinds(Numbered("tasking", E), {"tasking"})
    BY <1>3, NumberedPieces
<1>5. Sendable(P, {"tasking"})
    BY <1>4, PagesSendable
<1>6. Sendable(last, {"reminder"}) /\ Len(last) = 1 /\ last[1] = <<<<"reminder", 0>>>>
    BY ReminderSendable
<1>7. T = IF A = {} THEN <<>> ELSE P \o last
    BY DEF Tasking
<1> HIDE DEF E, P, last, T
<1>8. Sendable(P \o last, {"tasking"} \union {"reminder"})
    BY <1>5, <1>6, SendableJoined
<1>9. Sendable(T, {"tasking", "reminder"})
    <2>1. CASE A = {}
        <3>1. T = <<>>
            BY <1>7, <2>1
        <3> QED
            BY <3>1, NothingToSend, OfMoreKinds
    <2>2. CASE A # {}
        <3>1. {"tasking"} \union {"reminder"} = {"tasking", "reminder"}
            OBVIOUS
        <3> QED
            BY <1>7, <1>8, <2>2, <3>1
    <2> QED
        BY <2>1, <2>2
<1>10. ASSUME A # {}
       PROVE  T # <<>> /\ Last(T) = <<<<"reminder", 0>>>>
    <2>1. T = P \o last
        BY <1>7, <1>10
    <2>2. P \in Seq(Seq(Piece)) /\ last \in Seq(Seq(Piece))
        BY <1>5, <1>6 DEF Sendable
    <2>3. Len(T) = Len(P) + 1 /\ T[Len(P) + 1] = last[1] /\ Len(P) \in Nat
        <3> DEFINE n == Len(P)
        <3>1. n \in Nat /\ Len(last) = 1
            BY <1>6, <2>2
        <3>2. Len(P \o last) = n + Len(last)
            BY <2>2
        <3>3. \A i \in 1..(n + Len(last)) : i > n => (P \o last)[i] = last[i - n]
            BY <2>2
        <3> HIDE DEF n
        <3>4. n + 1 \in 1..(n + Len(last)) /\ n + 1 > n /\ (n + 1) - n = 1
            BY <3>1
        <3>5. (P \o last)[n + 1] = last[1]
            BY <3>3, <3>4
        <3> QED
            BY <2>1, <3>1, <3>2, <3>5 DEF n
    <2>4. T # <<>>
        BY <2>3
    <2> QED
        BY <1>6, <2>3, <2>4 DEF Last
<1> QED
    BY <1>3, <1>9, <1>10 DEF E, T

LEMMA MessagesSendable ==
    ASSUME BriefingTypeOK, NEW r \in BOOLEAN, NEW w \in BOOLEAN
    PROVE  /\ IsInjective(FlattenSeq(DailyMessages(r, w)))
           /\ \A i \in DOMAIN DailyMessages(r, w) : Len(DailyMessages(r, w)[i]) \in 1..EmbedsPerMessage
           /\ r /\ RequirementActions(ActingOfficers) # {} => Last(DailyMessages(r, w)) = <<<<"reminder", 0>>>>
<1> DEFINE first == IF r THEN Numbered("image", Images) ELSE <<>>
           second == IF w THEN Numbered("awards", AwardEmbeds) ELSE <<>>
           P == Pages(first \o second, EmbedsPerMessage)
           A == (IF r THEN RequirementActions(ActingOfficers) ELSE {}) \cup IF w THEN AwardActions ELSE {}
           T == Tasking(A)
           M == DailyMessages(r, w)
<1>1. RowsPerImage \in Nat \ {0} /\ AwardsPerEmbed \in Nat \ {0}
    BY BriefingAssumption
<1>2. OfKinds(first, {"image"})
    <2>1. AttentionRows \in Seq(SUBSET Entries)
        BY RowsInOrder
    <2>2. Images \in Seq(Seq(SUBSET Entries))
        BY <1>1, <2>1, PagesOrOneTell DEF Images
    <2>3. OfKinds(Numbered("image", Images), {"image"})
        BY <2>2, NumberedPieces
    <2>4. OfKinds(<<>>, {"image"})
        BY NothingToSend, OfMoreKinds
    <2> QED
        BY <2>3, <2>4
<1>3. OfKinds(second, {"awards"})
    <2>1. SetToSeq(AwardActions) \in Seq(AwardActions)
        BY AwardActionsFinite, SetListed
    <2>2. AwardEmbeds \in Seq(Seq(AwardActions))
        BY <1>1, <2>1, PagesOrOneTell DEF AwardEmbeds
    <2>3. OfKinds(Numbered("awards", AwardEmbeds), {"awards"})
        BY <2>2, NumberedPieces
    <2>4. OfKinds(<<>>, {"awards"})
        BY NothingToSend, OfMoreKinds
    <2> QED
        BY <2>3, <2>4
<1> DEFINE K == {"image"} \union {"awards"}
<1>4. M = P \o T
    BY DEF DailyMessages
<1> HIDE DEF first, second
<1>5. OfKinds(first \o second, K)
    BY <1>2, <1>3, KindsJoined
<1>6. Sendable(P, K)
    BY <1>5, PagesSendable
<1>7. IsFiniteSet(A)
    <2>1. IsFiniteSet(RequirementActions(ActingOfficers)) /\ IsFiniteSet(AwardActions) /\ IsFiniteSet({})
        BY ActionsAre, AwardActionsFinite, FS_EmptySet
    <2> DEFINE x == IF r THEN RequirementActions(ActingOfficers) ELSE {}
               y == IF w THEN AwardActions ELSE {}
    <2>2. IsFiniteSet(x) /\ IsFiniteSet(y)
        BY <2>1
    <2>3. A = x \union y
        OBVIOUS
    <2> HIDE DEF x, y
    <2> QED
        BY <2>2, <2>3, FS_Union
<1>8. r /\ RequirementActions(ActingOfficers) # {} => A # {}
    OBVIOUS
<1> HIDE DEF A
<1>9. Sendable(T, {"tasking", "reminder"}) /\ (A # {} => T # <<>> /\ Last(T) = <<<<"reminder", 0>>>>)
    BY <1>7, TaskingSendable
<1> HIDE DEF P, T, M
<1>10. Sendable(M, K \union {"tasking", "reminder"})
    <2>1. K \cap {"tasking", "reminder"} = {}
        OBVIOUS
    <2> HIDE DEF K
    <2> QED
        BY <1>4, <1>6, <1>9, <2>1, SendableJoined
<1>11. M \in Seq(Seq(Piece)) /\ Once(M) /\ DOMAIN M = 1..Len(M) /\ \A i \in 1..Len(M) : Len(M[i]) \in 1..EmbedsPerMessage
    BY <1>10 DEF Sendable
<1>12. IsInjective(FlattenSeq(M))
    BY <1>11, OnceFlat
<1>13. ASSUME A # {}
       PROVE  Last(M) = <<<<"reminder", 0>>>>
    <2>1. P \in Seq(Seq(Piece)) /\ T \in Seq(Seq(Piece)) /\ T # <<>>
        BY <1>6, <1>9, <1>13 DEF Sendable
    <2>2. Len(T) \in Nat /\ Len(T) > 0
        BY <2>1
    <2>3. Len(M) = Len(P) + Len(T) /\ M[Len(P) + Len(T)] = T[Len(T)]
        BY <1>4, <2>1, <2>2
    <2>4. Last(M) = Last(T)
        BY <2>3 DEF Last
    <2> QED
        BY <1>9, <1>13, <2>4
<1> QED
    BY <1>8, <1>11, <1>12, <1>13 DEF M

\* The figures of the daily briefing, of what it is made of.
DailyOf(actions, rows, images, fields, embeds, lines) ==
    LET part(b) == b[1] + b[2] + b[3] + b[4]
    IN
    /\ part(PressureBar("Voyaging")) = Len(Crew)
    /\ part(PressureBar("Hosting")) = Cardinality({s \in Range(Crew) : CanHost(s)})
    /\ OverdueCount = Cardinality(actions)
    /\ {s \in Range(Crew) : RowOverdue(RowOf(s))} = {a.who : a \in actions}
    /\ \A i, j \in DOMAIN rows : i < j => rows[i] # rows[j] /\ ~Before(RowKey(rows[j]), RowKey(rows[i]))
    /\ \A i \in DOMAIN rows : (Section(rows[i]) = "REQUIRES ACTION") <=> RowOverdue(rows[i])
    /\ FlattenSeq(images) = rows /\ \A i \in DOMAIN images : Len(images[i]) <= RowsPerImage
    /\ UNION Range(lines) = actions /\ \A i, j \in DOMAIN lines : i # j => lines[i] \cap lines[j] = {}
    /\ \A i \in DOMAIN fields : \A l \in Range(fields[i].lines) :
         \A a \in l : a.officer = fields[i].officer
    /\ \A i \in DOMAIN embeds : Len(embeds[i]) <= FieldsPerEmbed
    /\ \A concerns \in BOOLEAN \X BOOLEAN :
         \A messages \in {DailyMessages(concerns[1], concerns[2])} :
             /\ IsInjective(FlattenSeq(messages))
             /\ \A i \in DOMAIN messages : Len(messages[i]) \in 1..EmbedsPerMessage
             /\ concerns[1] /\ actions # {} => Last(messages) = <<<<"reminder", 0>>>>

\* The daily briefing, together.
LEMMA DailyHolds ==
    ASSUME BriefingTypeOK
    PROVE  DailyAddsUp
<1> DEFINE A == RequirementActions(ActingOfficers)
           rows == AttentionRows
           images == Images
           fields == Fields(A)
           embeds == TaskingEmbeds(A)
           lines == FlattenSeq([i \in DOMAIN fields |-> fields[i].lines])
           part(b) == b[1] + b[2] + b[3] + b[4]
<1>1. part(PressureBar("Voyaging")) = Len(Crew)
    <2>1. Subject("Voyaging") = Range(Crew)
        BY DEF Subject
    <2>2. LET b == PressureBar("Voyaging") IN b[1] + b[2] + b[3] + b[4] = Cardinality(Subject("Voyaging"))
        BY BarSplits DEF Labels
    <2>3. part(PressureBar("Voyaging")) = Cardinality(Subject("Voyaging"))
        BY <2>2
    <2> QED
        BY <2>1, <2>3, CrewFacts
<1>2. part(PressureBar("Hosting")) = Cardinality({s \in Range(Crew) : CanHost(s)})
    <2>1. Subject("Hosting") = {s \in Range(Crew) : CanHost(s)}
        BY DEF Subject
    <2>2. LET b == PressureBar("Hosting") IN b[1] + b[2] + b[3] + b[4] = Cardinality(Subject("Hosting"))
        BY BarSplits DEF Labels
    <2>3. part(PressureBar("Hosting")) = Cardinality(Subject("Hosting"))
        BY <2>2
    <2> QED
        BY <2>1, <2>3
<1>3. /\ IsFiniteSet(A) /\ OverdueCount = Cardinality(A)
      /\ {s \in Range(Crew) : RowOverdue(RowOf(s))} = {a.who : a \in A}
    BY ActionsAre
<1>4. /\ rows \in Seq(SUBSET Entries)
      /\ \A i, j \in DOMAIN rows : i < j => rows[i] # rows[j] /\ ~Before(RowKey(rows[j]), RowKey(rows[i]))
    BY RowsInOrder
<1>5. \A i \in DOMAIN rows : (Section(rows[i]) = "REQUIRES ACTION") <=> RowOverdue(rows[i])
    BY DEF Section
<1>6. FlattenSeq(images) = rows /\ \A i \in DOMAIN images : Len(images[i]) <= RowsPerImage
    <2>1. RowsPerImage \in Nat \ {0}
        BY BriefingAssumption
    <2> QED
        BY <1>4, <2>1, PagesOrOneTell DEF Images
<1>7. /\ UNION Range(lines) = A /\ \A i, j \in DOMAIN lines : i # j => lines[i] \cap lines[j] = {}
      /\ \A i \in DOMAIN fields : \A l \in Range(fields[i].lines) : \A a \in l : a.officer = fields[i].officer
    <2>1. ToldIn(A, fields) /\ EachOnce(fields)
        BY <1>3, FieldsTold
    <2>2. lines = LinesIn(fields)
        BY DEF LinesIn
    <2> HIDE DEF A, fields, lines
    <2> QED
        BY <2>1, <2>2, LinesTold
<1>8. \A i \in DOMAIN embeds : Len(embeds[i]) <= FieldsPerEmbed
    <2>1. embeds \in Seq(Seq(FieldSet(A))) /\ \A i \in 1..Len(embeds) : Len(embeds[i]) \in 1..FieldsPerEmbed
        BY <1>3, TaskingSendable
    <2>2. FieldsPerEmbed \in Nat
        BY BriefingAssumption
    <2> HIDE DEF embeds
    <2> QED
        BY <2>1, <2>2
<1>9. \A concerns \in BOOLEAN \X BOOLEAN :
         /\ IsInjective(FlattenSeq(DailyMessages(concerns[1], concerns[2])))
         /\ \A i \in DOMAIN DailyMessages(concerns[1], concerns[2]) :
              Len(DailyMessages(concerns[1], concerns[2])[i]) \in 1..EmbedsPerMessage
         /\ concerns[1] /\ A # {} => Last(DailyMessages(concerns[1], concerns[2])) = <<<<"reminder", 0>>>>
    <2> TAKE concerns \in BOOLEAN \X BOOLEAN
    <2>1. concerns[1] \in BOOLEAN /\ concerns[2] \in BOOLEAN
        OBVIOUS
    <2> QED
        BY <2>1, MessagesSendable
<1>10. \A concerns \in BOOLEAN \X BOOLEAN :
         \A messages \in {DailyMessages(concerns[1], concerns[2])} :
             /\ IsInjective(FlattenSeq(messages))
             /\ \A i \in DOMAIN messages : Len(messages[i]) \in 1..EmbedsPerMessage
             /\ concerns[1] /\ A # {} => Last(messages) = <<<<"reminder", 0>>>>
    <2> HIDE DEF A
    <2> QED
        BY <1>9
<1> HIDE DEF A, rows, images, fields, embeds, lines
<1>11. DailyOf(A, rows, images, fields, embeds, lines)
    BY <1>1, <1>2, <1>3, <1>4, <1>5, <1>6, <1>7, <1>8, <1>10, Zenon DEF DailyOf
<1>12. DailyAddsUp
    <2>1. DailyOf(RequirementActions(ActingOfficers), AttentionRows, Images,
                  Fields(RequirementActions(ActingOfficers)), TaskingEmbeds(RequirementActions(ActingOfficers)),
                  LinesIn(Fields(RequirementActions(ActingOfficers))))
        BY <1>11, Zenon DEF A, rows, images, fields, embeds, lines, LinesIn
    <2> SUFFICES ASSUME NEW acts \in {RequirementActions(ActingOfficers)}, NEW shown \in {AttentionRows},
                        NEW pages \in {Images}, NEW parts \in {Fields(acts)}, NEW cards \in {TaskingEmbeds(acts)},
                        NEW all \in {LinesIn(parts)}
                 PROVE  DailyOf(acts, shown, pages, parts, cards, all)
        BY Zenon DEF DailyAddsUp, DailyOf, LinesIn
    <2>2. /\ acts = RequirementActions(ActingOfficers) /\ shown = AttentionRows /\ pages = Images
          /\ parts = Fields(acts) /\ cards = TaskingEmbeds(acts) /\ all = LinesIn(parts)
        OBVIOUS
    <2> QED
        BY <2>1, <2>2
<1> QED
    BY <1>12

\* The windows of the points of the weekly briefing.
Week == WeekDays * PerDay

\* The windows of the points follow each other, up to now.
ShownLogs == {t \in seas : t >= now - Points * Week /\ t < now}

WindowAt(i) == {t \in seas : t >= now - (Points - i) * Week - Week /\ t < now - (Points - i) * Week}

LEMMA WindowsPart ==
    ASSUME BriefingTypeOK
    PROVE  /\ \A i \in 1..Points : WindowAt(i) \subseteq ShownLogs
           /\ \A t \in ShownLogs : \E i \in 1..Points : t \in WindowAt(i)
           /\ \A i, j \in 1..Points : i # j => WindowAt(i) \cap WindowAt(j) = {}
<1> DEFINE D == Week
<1>1. Points \in Nat /\ Points > 1 /\ now \in Nat /\ seas \subseteq Int
    BY BriefingAssumption DEF BriefingTypeOK
<1>2. D \in Nat \ {0}
    <2>1. WeekDays \in Nat \ {0} /\ PerDay \in Nat \ {0}
        BY BriefingAssumption
    <2> QED
        BY <2>1 DEF Week
<1> HIDE DEF D
<1>3. /\ \A a \in Int : a * D \in Int /\ (a + 1) * D = a * D + D
      /\ \A a, b \in Nat : a <= b => a * D <= b * D
      /\ \A x \in Nat : x \div D \in Nat /\ (x \div D) * D <= x /\ x < (x \div D) * D + D
    BY <1>2, Multiples
<1>4. \A i : WindowAt(i) = {t \in seas : t >= now - (Points - i) * D - D /\ t < now - (Points - i) * D}
    BY DEF WindowAt, D
<1>5. ShownLogs = {t \in seas : t >= now - Points * D /\ t < now}
    BY DEF ShownLogs, D
<1>6. ASSUME NEW i \in 1..Points
      PROVE  WindowAt(i) \subseteq ShownLogs
    <2> DEFINE k == Points - i  a == k * D  b == Points * D
    <2>1. k \in Nat /\ k + 1 \in Nat /\ k + 1 <= Points
        BY <1>1
    <2>2. a \in Int /\ b \in Int /\ 0 <= a /\ a + D <= b
        <3>1. 0 * D <= k * D /\ 0 * D = 0 /\ (k + 1) * D <= Points * D /\ (k + 1) * D = k * D + D
            <4> HIDE DEF k
            <4> QED
                BY <1>1, <1>2, <1>3, <2>1
        <3>2. a \in Int /\ b \in Int
            BY <1>1, <1>3, <2>1
        <3> QED
            BY <3>1, <3>2
    <2>3. WindowAt(i) = {t \in seas : t >= now - a - D /\ t < now - a} /\ ShownLogs = {t \in seas : t >= now - b /\ t < now}
        BY <1>4, <1>5
    <2> HIDE DEF a, b
    <2>4. ASSUME NEW t \in seas, t >= now - a - D, t < now - a
          PROVE  t >= now - b /\ t < now
        <3>1. t \in Int
            BY <1>1
        <3> QED
            BY <1>1, <1>2, <2>2, <2>4, <3>1
    <2> QED
        BY <2>3, <2>4
<1>7. ASSUME NEW t \in ShownLogs
      PROVE  \E i \in 1..Points : t \in WindowAt(i)
    <2> DEFINE x == now - 1 - t  k == x \div D  i == Points - k  a == k * D  b == Points * D
    <2>1. t \in Int /\ t \in seas /\ t < now /\ t >= now - b /\ b \in Int
        BY <1>1, <1>3, <1>5
    <2>2. x \in Nat
        <3> HIDE DEF b
        <3> QED
            BY <1>1, <2>1
    <2>3. k \in Nat /\ a <= x /\ x < a + D /\ a \in Int
        <3> HIDE DEF x
        <3> QED
            BY <1>2, <1>3, <2>2
    <2>4. k < Points
        <3>1. Points <= k => b <= a
            <4> HIDE DEF k
            <4> QED
                BY <1>1, <1>3, <2>3
        <3> HIDE DEF k, a, b
        <3>2. x < b
            BY <1>1, <2>1
        <3> HIDE DEF x
        <3>3. ~(b <= a)
            BY <2>1, <2>2, <2>3, <3>2
        <3> QED
            BY <1>1, <2>3, <3>1, <3>3
    <2>5. i \in 1..Points /\ Points - i = k
        <3> HIDE DEF k
        <3> QED
            BY <1>1, <2>3, <2>4
    <2>6. (Points - i) * D = a
        BY <2>5
    <2>7. t >= now - a - D /\ t < now - a
        <3> HIDE DEF k, a, b
        <3> QED
            BY <1>1, <1>2, <2>1, <2>3
    <2>8. t \in WindowAt(i)
        <3>1. WindowAt(i) = {u \in seas : u >= now - a - D /\ u < now - a}
            BY <1>4, <2>6
        <3> HIDE DEF a, i
        <3> QED
            BY <2>1, <2>7, <3>1
    <2> QED
        BY <2>5, <2>8
<1>8. ASSUME NEW i \in 1..Points, NEW j \in 1..Points, i < j
      PROVE  WindowAt(i) \cap WindowAt(j) = {}
    <2> DEFINE k == Points - j  l == Points - i  a == k * D  b == l * D
    <2>1. k \in Nat /\ l \in Nat /\ k + 1 \in Nat /\ k + 1 <= l
        BY <1>1, <1>8
    <2>2. a \in Int /\ b \in Int /\ a + D <= b
        <3> HIDE DEF k, l
        <3>1. (k + 1) * D <= l * D /\ (k + 1) * D = k * D + D /\ k * D \in Int /\ l * D \in Int
            BY <1>2, <1>3, <2>1
        <3> QED
            BY <3>1
    <2>3. /\ WindowAt(j) = {t \in seas : t >= now - a - D /\ t < now - a}
          /\ WindowAt(i) = {t \in seas : t >= now - b - D /\ t < now - b}
        BY <1>4
    <2> HIDE DEF a, b
    <2>4. ASSUME NEW t \in seas, t >= now - b - D, t < now - b, t >= now - a - D
          PROVE  FALSE
        <3>1. t \in Int
            BY <1>1
        <3> QED
            BY <1>1, <1>2, <2>2, <2>4, <3>1
    <2> QED
        BY <2>3, <2>4
<1>9. \A i, j \in 1..Points : i # j => WindowAt(i) \cap WindowAt(j) = {}
    <2> SUFFICES ASSUME NEW i \in 1..Points, NEW j \in 1..Points, i # j
                 PROVE  WindowAt(i) \cap WindowAt(j) = {}
        OBVIOUS
    <2>1. i < j \/ j < i
        BY <1>1
    <2> QED
        BY <1>8, <2>1
<1> QED
    BY <1>6, <1>7, <1>9

\* The weekly briefing, together.
LEMMA WeeklyHolds ==
    ASSUME BriefingTypeOK
    PROVE  WeeklyAddsUp
<1> DEFINE points == WeeklyPoints
           shown == {t \in seas : t >= now - Points * WeekDays * PerDay /\ t < now}
           f == [i \in 1..Points |-> Cardinality(points[i].logs)]
           place == [t \in ShownLogs |-> CHOOSE i \in 1..Points : t \in WindowAt(i)]
<1>1. /\ Points \in Nat /\ Points > 1 /\ now \in Nat /\ seas \subseteq Int /\ IsFiniteSet(seas)
      /\ WeekDays \in Nat \ {0} /\ PerDay \in Nat \ {0}
    BY BriefingAssumption DEF BriefingTypeOK
<1>2. \A a \in Int : a * WeekDays * PerDay = a * Week
    BY <1>1 DEF Week
<1>3. shown = ShownLogs
    <2>1. Points * WeekDays * PerDay = Points * Week
        BY <1>1, <1>2
    <2> QED
        BY <2>1 DEF ShownLogs
<1>4. ASSUME NEW i \in 1..Points
      PROVE  /\ points[i].logs = WindowAt(i)
             /\ points[i].size = IF i = Points THEN Len(Crew) ELSE SizeAt(now - (Points - i) * Week)
    <2> DEFINE end == now - (Points - i) * WeekDays * PerDay
    <2>1. points[i] = [logs |-> Window(end), size |-> IF i = Points THEN Len(Crew) ELSE SizeAt(end)]
        BY DEF WeeklyPoints
    <2>2. end = now - (Points - i) * Week
        <3>1. Points - i \in Int
            BY <1>1
        <3>2. (Points - i) * WeekDays * PerDay = (Points - i) * Week
            BY <1>2, <3>1
        <3> QED
            BY <3>2
    <2> HIDE DEF end
    <2>3. Window(end) = {t \in seas : t >= end - Week /\ t < end}
        BY DEF Window, Week
    <2>4. Window(end) = WindowAt(i)
        BY <2>2, <2>3 DEF WindowAt
    <2> QED
        BY <2>1, <2>2, <2>4
<1> HIDE DEF points, shown
<1>5. /\ \A i \in 1..Points : WindowAt(i) \subseteq ShownLogs
      /\ \A t \in ShownLogs : \E i \in 1..Points : t \in WindowAt(i)
      /\ \A i, j \in 1..Points : i # j => WindowAt(i) \cap WindowAt(j) = {}
    BY WindowsPart
<1>6. UNION {points[i].logs : i \in 1..Points} = shown
    BY <1>3, <1>4, <1>5
<1>7. \A t \in ShownLogs : place[t] \in 1..Points /\ t \in WindowAt(place[t])
    BY <1>5
<1>8. \A i \in 1..Points : f[i] = Cardinality(PlacedAt(ShownLogs, place, i))
    <2> TAKE i \in 1..Points
    <2>1. \A t \in ShownLogs : place[t] = i <=> t \in WindowAt(i)
        <3> HIDE DEF place
        <3> QED
            BY <1>5, <1>7
    <2>2. PlacedAt(ShownLogs, place, i) = WindowAt(i)
        <3> HIDE DEF place
        <3> QED
            BY <1>5, <2>1 DEF PlacedAt
    <2> QED
        BY <1>4, <2>2
<1>9. PlacedIn(ShownLogs, place, 1..Points) = ShownLogs
    <2> HIDE DEF place
    <2> QED
        BY <1>7 DEF PlacedIn
<1>10. SumFunction(f) = Cardinality(shown)
    <2>1. IsFiniteSet(ShownLogs) /\ IsFiniteSet(1..Points)
        <3>1. ShownLogs \in SUBSET seas
            BY DEF ShownLogs
        <3>2. IsFiniteSet(ShownLogs)
            BY <1>1, <3>1, FS_Subset
        <3>3. 1 \in Int /\ Points \in Int
            BY <1>1
        <3> QED
            BY <3>2, <3>3, FS_Interval
    <2>2. DOMAIN f = 1..Points
        OBVIOUS
    <2> HIDE DEF f, place
    <2> DEFINE B == 1..Points
    <2>3. \A i \in B : f[i] = Cardinality(PlacedAt(ShownLogs, place, i))
        BY <1>8
    <2>4. IsFiniteSet(B) /\ IsFiniteSet(ShownLogs) /\ PlacedIn(ShownLogs, place, B) = ShownLogs
        BY <1>9, <2>1
    <2> HIDE DEF B
    <2>5. SumFunctionOnSet(f, B) = Cardinality(PlacedIn(ShownLogs, place, B))
        BY <2>3, <2>4, PartsMakeWhole
    <2>6. SumFunctionOnSet(f, 1..Points) = Cardinality(ShownLogs)
        BY <2>4, <2>5 DEF B
    <2> QED
        BY <1>3, <2>2, <2>6 DEF SumFunction
<1>11. Delta(points) = Len(Crew) - SizeAt(now - WeekDays * PerDay)
    <2>1. Points \in 1..Points /\ Points - 1 \in 1..Points /\ Points - 1 # Points
        BY <1>1
    <2>2. points[Points].size = Len(Crew)
        BY <1>4, <2>1
    <2>3. points[Points - 1].size = SizeAt(now - (Points - (Points - 1)) * Week)
        BY <1>4, <2>1
    <2>4. (Points - (Points - 1)) * Week = Week
        <3>1. Points - (Points - 1) = 1 /\ Week \in Int
            BY <1>1 DEF Week
        <3> QED
            BY <3>1
    <2> QED
        BY <2>2, <2>3, <2>4 DEF Delta, Week
<1>12. /\ SumFunction([i \in 1..Points |-> Cardinality(points[i].logs)]) = Cardinality(shown)
       /\ UNION {points[i].logs : i \in 1..Points} = shown
       /\ Delta(points) = Len(Crew) - SizeAt(now - WeekDays * PerDay)
    BY <1>6, <1>10, <1>11
<1> QED
    BY <1>12 DEF WeeklyAddsUp, points, shown

-----------------------------------------------------------------------------
(***************************************************************************)
(* The guild.  A step of one desk leaves the others as they are.           *)
(***************************************************************************)
LEMMA GuildRoles ==
    /\ MCFirst \subseteq SUBSET Role
    /\ \A roles \in {{}, {"E2", "E2A"}, {"E3"}} : \A has \in SUBSET Role :
         (has \ Changing) \cup roles \in SUBSET Role
<1>1. MCRole \subseteq Role
    BY CommunityAssumption
<1> QED
    BY <1>1 DEF MCRole, MCFirst, Changing

LEMMA NickAtDesk ==
    /\ MCInit => NickInv
    /\ NickInv /\ [MCNext]_mcVars => NickInv'
<1>1. MCInit => NickInv
    BY NickInitially DEF MCInit
<1>2. [MCNext]_mcVars => [NickNext]_nickVars
    BY Zenon DEF MCNext, Others, mcVars
<1> QED
    BY <1>1, <1>2, NickKept

LEMMA RanksAtDesk ==
    /\ MCInit => RankInv
    /\ RankInv /\ [MCNext]_mcVars => RankInv'
<1>1. MCInit => RankInv
    BY RankInitially DEF MCInit
<1>2. [MCNext]_mcVars => [RankNext]_rankVars
    BY Zenon DEF MCNext, Others, mcVars
<1> QED
    BY <1>1, <1>2, RanksKept

LEMMA DeliveryAtDesk ==
    /\ MCInit => DeliveryInv
    /\ DeliveryInv /\ [MCNext]_mcVars => DeliveryInv'
<1>1. MCInit => DeliveryInv
    BY DeliveryInitially DEF MCInit
<1>2. [MCNext]_mcVars => [DeliveryNext]_deliveryVars
    BY Zenon DEF MCNext, Others, mcVars
<1> QED
    BY <1>1, <1>2, DeliveryKept

LEMMA HistoryAtDesk ==
    /\ MCInit => HistoryInv
    /\ HistoryInv /\ [MCNext]_mcVars => [AnyStep]_historyVars
<1>1. MCInit => HistoryInv
    BY GuildRoles, HistoryInitially DEF MCInit
<1>2. [MCNext]_mcVars => HistoryNext \/ UNCHANGED historyVars
    BY Zenon DEF MCNext, Others, mcVars
<1>3. HistoryInv /\ HistoryNext => [AnyStep]_historyVars
    <2> SUFFICES ASSUME HistoryInv, HistoryNext
                 PROVE  [AnyStep]_historyVars
        OBVIOUS
    <2>1. held \in SUBSET Role
        BY DEF HistoryInv, HistoryTyped
    <2>2. CASE \E roles \in {{}, {"E2", "E2A"}, {"E3"}} : ChangeRoles((held \ Changing) \cup roles)
        BY <2>1, <2>2, GuildRoles DEF AnyStep
    <2>3. CASE \E r \in {"JLA"} : Graduate(r)
        BY <2>3 DEF AnyStep
    <2> QED
        BY <2>2, <2>3 DEF HistoryNext, AnyStep
<1> QED
    BY <1>1, <1>2, <1>3

\* A nickname reaches every guild the member is in when no two renames cross and no
\* request is lost; where they cross, such a guild shows the last name or an older one
\* that was given, and no guild the member is not in is written to
\* (on_member_update_nickname_sync.py).  The ranks in use are those configured
\* (rank_sync_service.py).
THEOREM NamesReach == MCSpec => []NamesSettle
<1>1. NickInv /\ RankInv => NamesSettle
    BY NamesDoFollow, RanksAreSettled DEF NamesSettle
<1> QED
    BY <1>1, NickAtDesk, RanksAtDesk, PTL DEF MCSpec

\* The same of the check of a promotion at its desk.
THEOREM PromotionsTrueAtDesk == MCSpec => []PromotionsAreTrue /\ PromotionsOnlyImprove
<1>1. MCInit => HistoryInv
    BY HistoryAtDesk
<1>2. HistoryInv /\ [MCNext]_mcVars => HistoryInv' /\ [AnyStep]_historyVars
    BY HistoryAtDesk, HistoryKept
<1>3. HistoryInv => PromotionsAreTrue
    BY ChecksAreTrue
<1>4. HistoryInv /\ HistoryInv' /\ [AnyStep]_historyVars =>
        [held' = held /\ log' = log /\ day' = day =>
           \A i \in DOMAIN Sections : Fail \notin Sections[i] => Fail \notin Sections'[i]]_historyVars
    BY StepsOnlyImprove
<1> QED
    BY <1>1, <1>2, <1>3, <1>4, PTL DEF MCSpec, PromotionsOnlyImprove

LEMMA ChainAtDesk ==
    /\ MCInit => ChainTypeOK
    /\ ChainTypeOK /\ [MCNext]_mcVars => ChainTypeOK'
<1>1. MCInit => ChainTypeOK
    <2>1. 0 \in 0..MaxOrders
        BY ChainAssumption
    <2>2. MCInit => roster \in [of : [Sailor -> Assignment], lost : Losses, orders : {0}]
        BY DEF MCInit, ChainInit
    <2> QED
        BY <2>1, <2>2 DEF ChainTypeOK
<1>2. [MCNext]_mcVars => (\E s \in Sailor : GiveOrder(s)) \/ UNCHANGED chainVars
    BY Zenon DEF MCNext, ChainNext, guildVars, mcVars
<1>3. ASSUME ChainTypeOK, NEW s \in Sailor, GiveOrder(s)
      PROVE  ChainTypeOK'
    <2>1. PICK a \in Assignment :
             roster' = [of |-> [roster.of EXCEPT ![s] = a], lost |-> roster.lost, orders |-> roster.orders + 1]
        BY <1>3 DEF GiveOrder
    <2>2. roster.of \in [Sailor -> Assignment] /\ roster.lost \in Losses /\ roster.orders \in 0..MaxOrders /\ roster.orders < MaxOrders
        BY <1>3 DEF ChainTypeOK, GiveOrder
    <2>3. roster.orders + 1 \in 0..MaxOrders
        BY <2>2, ChainAssumption
    <2>4. [roster.of EXCEPT ![s] = a] \in [Sailor -> Assignment]
        BY <2>2
    <2> QED
        BY <2>1, <2>2, <2>3, <2>4 DEF ChainTypeOK
<1>4. ChainTypeOK /\ UNCHANGED chainVars => ChainTypeOK'
    BY DEF chainVars, ChainTypeOK
<1> QED
    BY <1>1, <1>2, <1>3, <1>4

LEMMA MembersKnown == Members \in Seq(Sailor) /\ IsInjective(Members) /\ {ann, bob, cat} \subseteq Sailor
<1>1. Members \in Seq(Sailor) /\ IsInjective(Members)
    BY CommunityAssumption
<1>2. Members[1] \in Sailor /\ Members[2] \in Sailor /\ Members[3] \in Sailor
    <2>1. Len(Members) = 3
        BY DEF Members
    <2>2. \A i \in 1..Len(Members) : Members[i] \in Sailor
        BY <1>1
    <2>3. 1 \in 1..3 /\ 2 \in 1..3 /\ 3 \in 1..3
        OBVIOUS
    <2> QED
        BY <2>1, <2>2, <2>3
<1> QED
    BY <1>1, <1>2 DEF Members

LEMMA AwardsAtDesk ==
    /\ MCInit => Tallied /\ RoundTrue
    /\ Tallied /\ RoundTrue /\ [MCNext]_mcVars => (Tallied /\ RoundTrue)'
<1>1. ASSUME MCInit
      PROVE  Tallied /\ RoundTrue
    <2>1. AwardInit({Sailor, {bob, cat}}, IF desk \in {"awards", "board"} THEN {{}, {"medal"}}
                                         ELSE IF desk = "departments" THEN {{}, {"seen"}} ELSE {{}})
        BY <1>1 DEF MCInit
    <2>2. gone \subseteq Badge
        BY <2>1, CommunityAssumption DEF AwardInit
    <2>3. PICK d \in {Sailor, {bob, cat}} : tally \in [d -> Counts]
        BY <2>1 DEF AwardInit
    <2>4. Tallied
        BY <2>1, <2>2, <2>3, MembersKnown DEF AwardInit, Tallied, Range
    <2>5. round = Idle
        BY <2>1 DEF AwardInit
    <2>6. Written(<<>>)
        BY DEF Written, Once, ItemsIn
    <2>7. Aims(<<>>, <<>>) /\ Fits("none", <<>>)
        BY DEF Aims, Fits
    <2>8. RoundTrue
        BY <2>5, <2>6, <2>7 DEF RoundTrue, Idle
    <2> QED
        BY <2>4, <2>8
<1>2. [MCNext]_mcVars => RoundNext \/ UNCHANGED awardVars
    BY Zenon DEF MCNext, Guild, guildVars, mcVars
<1>3. ASSUME Tallied, RoundTrue, UNCHANGED awardVars
      PROVE  (Tallied /\ RoundTrue)'
    BY <1>3 DEF awardVars, Tallied, RoundTrue
<1>4. ASSUME Tallied, RoundTrue, RoundNext
      PROVE  (Tallied /\ RoundTrue)'
    <2>1. ASSUME NEW kind \in {"board", "training", "representation"}, NEW plan, NEW owed, Planned(kind, plan, owed),
                 NEW spoilt \in BOOLEAN, Begin(kind, plan, owed, spoilt)
          PROVE  (Tallied /\ RoundTrue)'
        <3>1. UNCHANGED <<tally, marks, badges, gone>>
            BY <2>1 DEF Begin
        <3>2. Tallied'
            BY <1>4, <3>1 DEF Tallied
        <3> QED
            BY <2>1, <3>2, BeginsTrue
    <2>7. ASSUME NEW channels
          PROVE  /\ Planned("board", To("board", Chunks(Items(Members))), OwedByBoard(Members))
                 /\ Planned("training", TrainingPlan(Members), OwedByDesks(Members, "training", Departments))
                 /\ Planned("representation", RepresentationPlan(Members, channels),
                            OwedByDesks(Members, "representation", channels))
        BY <1>4, MembersKnown, PlansTell
    <2>2. ASSUME BeginBoard(Members)
          PROVE  (Tallied /\ RoundTrue)'
        <3>1. Begin("board", To("board", Chunks(Items(Members))), OwedByBoard(Members), SpoilsAll(Members))
            BY <2>2 DEF BeginBoard
        <3>2. SpoilsAll(Members) \in BOOLEAN
            BY Zenon DEF SpoilsAll
        <3> QED
            BY <2>1, <2>7, <3>1, <3>2
    <2>3. ASSUME BeginTraining(Members)
          PROVE  (Tallied /\ RoundTrue)'
        <3>1. Begin("training", TrainingPlan(Members), OwedByDesks(Members, "training", Departments),
                    SpoilsDesk(Members, "training"))
            BY <2>3 DEF BeginTraining
        <3>2. SpoilsDesk(Members, "training") \in BOOLEAN
            BY Zenon DEF SpoilsDesk
        <3> QED
            BY <2>1, <2>7, <3>1, <3>2
    <2>4. ASSUME NEW c, BeginRepresentation(Members, c)
          PROVE  (Tallied /\ RoundTrue)'
        <3>1. Begin("representation", RepresentationPlan(Members, c), OwedByDesks(Members, "representation", c),
                    SpoilsDesk(Members, "representation"))
            BY <2>4 DEF BeginRepresentation
        <3>2. SpoilsDesk(Members, "representation") \in BOOLEAN
            BY Zenon DEF SpoilsDesk
        <3> QED
            BY <2>1, <2>7, <3>1, <3>2
    <2>5. ASSUME SendAward
          PROVE  (Tallied /\ RoundTrue)'
        <3>1. UNCHANGED <<tally, marks, badges, gone>>
            BY <2>5 DEF SendAward
        <3>2. Tallied'
            BY <1>4, <3>1 DEF Tallied
        <3> QED
            BY <1>4, <2>5, <3>2, SendKeepsRound
    <2>6. ASSUME GiveAward(bob)
          PROVE  (Tallied /\ RoundTrue)'
        <3>1. PICK b \in Badge \ gone : badges' = [badges EXCEPT ![bob] = @ \cup {b}]
            BY <2>6 DEF GiveAward
        <3>2. UNCHANGED <<tally, marks, gone, round>>
            BY <2>6 DEF GiveAward
        <3>3. badges \in [Sailor -> SUBSET Badge] /\ bob \in Sailor
            BY <1>4, MembersKnown DEF Tallied
        <3>4. badges' \in [Sailor -> SUBSET Badge]
            BY <3>1, <3>3
        <3>5. Tallied'
            BY <1>4, <3>2, <3>4 DEF Tallied
        <3>6. RoundTrue'
            BY <1>4, <3>2 DEF RoundTrue
        <3> QED
            BY <3>5, <3>6
    <2> QED
        BY <1>4, <2>2, <2>3, <2>4, <2>5, <2>6 DEF RoundNext
<1> QED
    BY <1>1, <1>2, <1>3, <1>4

LEMMA BriefingAtDesk ==
    /\ MCInit => BriefingTypeOK
    /\ BriefingTypeOK /\ [MCNext]_mcVars => BriefingTypeOK'
<1>1. ASSUME MCInit
      PROVE  BriefingTypeOK
    <2>1. BriefingInit(MCActivities, MCLogs, MCSizes)
        BY <1>1 DEF MCInit
    <2>2. activity \in [Range(Crew) -> MCActivities] /\ seas \in SUBSET (0..4) /\ now = MaxNow
        BY <2>1 DEF BriefingInit, MCLogs
    <2>3. MCActivities \subseteq [voyage : Int, host : Int, added : Int, joined : Int]
        BY DEF MCActivities, Never
    <2>4. activity \in [Range(Crew) -> [voyage : Int, host : Int, added : Int, joined : Int]]
        BY <2>2, <2>3
    <2>5. IsFiniteSet(0..4)
        <3>1. 0 \in Int /\ 4 \in Int
            OBVIOUS
        <3> QED
            BY <3>1, FS_Interval
    <2>6. seas \subseteq Int /\ IsFiniteSet(seas)
        <3> DEFINE Times == 0..4
        <3>1. Times \subseteq Int /\ seas \in SUBSET Times /\ IsFiniteSet(Times)
            BY <2>2, <2>5
        <3> HIDE DEF Times
        <3> QED
            BY <3>1, FS_Subset
    <2>7. now \in Nat
        BY <2>2, BriefingAssumption
    <2> QED
        BY <2>4, <2>6, <2>7 DEF BriefingTypeOK
<1>2. [MCNext]_mcVars => UNCHANGED briefingVars
    BY Zenon DEF MCNext, Guild, guildVars, mcVars
<1>3. BriefingTypeOK /\ UNCHANGED briefingVars => BriefingTypeOK'
    BY DEF briefingVars, BriefingTypeOK
<1> QED
    BY <1>1, <1>2, <1>3

\* Whatever the desks do, orders, tallies, activity, deliveries, logs of roles, nicknames
\* and ranks keep their types, however many of them run at once (SailorCO,
\* award_messages.py, the briefing tasks, log_role_change, rank_sync_service.py).
THEOREM CommunityTyped == MCSpec => []CommunityTypesOK
<1>1. Tallied /\ RoundTrue => AwardTypeOK
    BY DEF Tallied, RoundTrue, AwardTypeOK
<1>2. HistoryInv => HistoryTypeOK
    BY DEF HistoryInv, HistoryTyped, HistoryTypeOK, Change, LastChange
<1>3. ChainTypeOK /\ BriefingTypeOK /\ Tallied /\ RoundTrue /\ DeliveryInv /\ HistoryInv /\ NickInv /\ RankInv
        => CommunityTypesOK
    BY <1>1, <1>2, DeliveriesCount, NamesDoFollow, RanksAreSettled DEF CommunityTypesOK
<1> QED
    BY <1>3, ChainAtDesk, BriefingAtDesk, AwardsAtDesk, DeliveryAtDesk, HistoryAtDesk, HistoryKept, NickAtDesk, RanksAtDesk, PTL DEF MCSpec

\* Whatever roles members have and whatever role the guild has lost, the chain of
\* command ends, at an officer above the member and not on leave or at nobody, and who
\* is asked for an award may give it (SailorCO); /check_awards shows each award owed
\* once, but for those without a role (get_pending_ship_awards); and a round of the
\* tasks that is done has told each award owed once, to a department it belongs to or
\* to the engineer where that one has no channel, in messages that fit but for those of
\* training, which go out whole (create_award_messages, the my_task of the three
\* tasks).  What is owed is told from counts and roles, not from the tasks' own search.
THEOREM AwardsDoReach == MCSpec => []AwardsReach
<1>1. ChainHolds(Able)
    BY ChainDoesHold
<1>2. Tallied /\ RoundTrue => AwardsReach
    BY <1>1, MembersKnown, AwardsDoAgree, RoundTells DEF AwardsReach
<1> QED
    BY <1>2, AwardsAtDesk, PTL DEF MCSpec

\* Whatever the activity and the roles of a crew and however many they are, the
\* figures of the daily briefing add up (classify_activity, requirement_actions,
\* build_attention_rows, build_tasking_messages, compose_daily_briefing_messages): a bar
\* splits the members it is about; what is overdue and not excused is counted, shown in
\* a row that requires action, and tasked in one line of a field of its officer; the rows
\* are sorted; pages, fields and messages are not too long and tell each part once, the
\* reminder last.  The weekly windows split the logs shown (_count_logs_between), and the
\* runs of the briefings count their ships (delivery.py).
THEOREM BriefingsDoAddUp == MCSpec => []BriefingsAddUp
<1>1. BriefingTypeOK /\ DeliveryInv => BriefingsAddUp
    BY DailyHolds, WeeklyHolds, DeliveriesCount DEF BriefingsAddUp
<1> QED
    BY <1>1, BriefingAtDesk, DeliveryAtDesk, PTL DEF MCSpec
=============================================================================
