---------------------------- MODULE NicknameSync ----------------------------
(***************************************************************************)
(* Nicknames of the main guild carried to the guilds of the departments    *)
(* (src/cogs/events/on_member_update/on_member_update_nickname_sync.py)    *)
(* and to the sailor's row (src/cogs/tasks/task_sync_discord_members.py).  *)
(* Every change is an event with a handler of its own, which looks at what *)
(* the bot has cached of the other guild before it asks for a change.      *)
(***************************************************************************)
EXTENDS Integers, Sequences, FiniteSets

CONSTANTS
    Nick,
    Branch,             \* the other guilds, in order
    Joined,             \* those the member is in
    MaxRenames

ASSUME NicknameAssumption ==
    /\ MaxRenames \in Nat
    /\ Branch \in Seq({Branch[i] : i \in DOMAIN Branch})
    /\ Joined \subseteq {Branch[i] : i \in DOMAIN Branch}

VARIABLES
    main,               \* the nickname in the main guild
    names,              \* and in the others
    seen,               \* what the bot has cached of those
    handlers,           \* handlers in flight, the oldest first
    saved,              \* the nickname in the sailor's row
    crossed,            \* a change came while an earlier one was being carried
    lost                \* a request failed, or the bot had lost a guild

nickVars == <<main, names, seen, handlers, saved, crossed, lost>>

Branches == {Branch[i] : i \in DOMAIN Branch}

NickInit ==
    /\ main \in Nick /\ names = [b \in Branches |-> main] /\ seen = names
    /\ handlers = <<>> /\ saved = main /\ crossed = FALSE /\ lost = FALSE

Quiet == seen = names /\ \A i \in DOMAIN handlers : handlers[i].at > Len(Branch)

Rename(n) ==
    /\ n # main /\ Len(handlers) < MaxRenames
    /\ main' = n /\ handlers' = Append(handlers, [nick |-> n, at |-> 1, asked |-> FALSE])
    /\ crossed' = (crossed \/ ~Quiet)
    /\ UNCHANGED <<names, seen, saved, lost>>

Move(i, handler) == handlers' = [handlers EXCEPT ![i] = handler]

\* Faulty: a guild the member is not in ends the handler.
LookOrEnd(i) ==
    LET h == handlers[i]
    IN  /\ h.at \in DOMAIN Branch /\ ~h.asked
        /\ Move(i, IF Branch[h.at] \notin Joined THEN [h EXCEPT !.at = Len(Branch) + 1]
                   ELSE IF seen[Branch[h.at]] # h.nick THEN [h EXCEPT !.asked = TRUE]
                   ELSE [h EXCEPT !.at = @ + 1])
        /\ UNCHANGED <<main, names, seen, saved, crossed, lost>>

\* The next guild: a member who is there under another name is renamed.  One
\* the bot does not have ends the handler (guild.get_member of None).
Look(i) ==
    LET h == handlers[i]
    IN  /\ h.at \in DOMAIN Branch /\ ~h.asked
        /\ \/ /\ Move(i, IF Branch[h.at] \in Joined /\ seen[Branch[h.at]] # h.nick
                         THEN [h EXCEPT !.asked = TRUE] ELSE [h EXCEPT !.at = @ + 1])
              /\ UNCHANGED lost
           \/ lost' = TRUE /\ Move(i, [h EXCEPT !.at = Len(Branch) + 1])
        /\ UNCHANGED <<main, names, seen, saved, crossed>>

\* The request is carried out; one that fails ends the handler.
Edited(i) ==
    LET h == handlers[i]
    IN  /\ h.at \in DOMAIN Branch /\ h.asked
        /\ \/ /\ names' = [names EXCEPT ![Branch[h.at]] = h.nick]
              /\ Move(i, [h EXCEPT !.at = @ + 1, !.asked = FALSE]) /\ UNCHANGED lost
           \/ /\ lost' = TRUE /\ Move(i, [h EXCEPT !.at = Len(Branch) + 1, !.asked = FALSE])
              /\ UNCHANGED names
        /\ UNCHANGED <<main, seen, saved, crossed>>

\* The gateway tells the bot what a member is called now.
Told(b) ==
    /\ seen[b] # names[b] /\ seen' = [seen EXCEPT ![b] = names[b]]
    /\ UNCHANGED <<main, names, handlers, saved, crossed, lost>>

\* The task of the hour copies what the main guild says, in production; a
\* batch that fails leaves every row as it was.
SaveProfiles ==
    /\ saved' \in {main, saved} /\ UNCHANGED <<main, names, seen, handlers, crossed, lost>>

NickNext ==
    \/ \E n \in Nick : Rename(n)
    \/ \E i \in DOMAIN handlers : Look(i) \/ Edited(i)
    \/ \E b \in Branches : Told(b)
    \/ SaveProfiles

NickTypeOK ==
    /\ {main, saved} \subseteq Nick /\ {names, seen} \subseteq [Branches -> Nick]
    /\ \A i \in DOMAIN handlers : handlers[i] \in [nick : Nick, at : 1..(Len(Branch) + 1), asked : BOOLEAN]
    /\ {crossed, lost} \subseteq BOOLEAN

\* Changes that do not cross each other and whose requests succeed reach every
\* guild the member is in, and those only.  Two that cross may leave a guild
\* with the older name: the second finds in the cache what it is about to ask
\* for, before the first has been carried out.
NicknamesFollow ==
    /\ Quiet /\ ~crossed /\ ~lost => \A b \in Joined : names[b] = main
    /\ \A b \in Branches \ Joined : names[b] = seen[b]
    /\ Quiet /\ ~lost => \A b \in Joined : names[b] = main \/ \E i \in DOMAIN handlers : names[b] = handlers[i].nick
=============================================================================
