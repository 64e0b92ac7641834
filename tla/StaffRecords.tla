---------------------------- MODULE StaffRecords ----------------------------
(***************************************************************************)
(* What officers put on a sailor's record: forced additions to the         *)
(* counters (/forceadd), challenge coins (/addcoin, /addanycoin,           *)
(* /removecoin) and notes (/addnote, /hidenote).  Every table refers to    *)
(* rows of sailor for the person concerned and for the officer.            *)
(*                                                                         *)
(* /forceadd goes through its options in a fixed order; for each it raises *)
(* the counter in one commit and writes a row of force_add in the next.    *)
(***************************************************************************)
EXTENDS Integers, Sequences, FiniteSets

CONSTANTS
    Person,       \* Discord users
    Kinds,        \* options of /forceadd, in the order the code takes them
    ForceAmounts, \* values of those options
    CoinTypes,    \* the two types of coins
    Names,        \* last words of display names
    MaxStaff,     \* bounds: commands used and names changed,
    MaxStaffFaults \*   failures

Kind == {Kinds[i] : i \in DOMAIN Kinds}

ASSUME StaffAssumption ==
    /\ IsFiniteSet(Person)
    /\ Kinds \in Seq(Kind)
    /\ ForceAmounts \subseteq Int
    /\ {MaxStaff, MaxStaffFaults} \subseteq Nat

VARIABLES
    sailors,      \* rows of table sailor
    force,        \* force[s][k]: column force_<k> of sailor
    forceLog,     \* forceLog[s][k]: sum of the rows of force_add
    forceCall,    \* the /forceadd being carried out
    cutShort,     \* how many of them ended before their last commit
    coins,        \* rows of table coins
    nameOf,       \* nameOf[p]: last word of p's display name
    removals,     \* confirmation views of /removecoin: the coin each shows
    notes,        \* rows of table mod_notes
    staffUsed,    \* commands used so far
    staffFaults   \* failures so far

staffVars == <<sailors, force, forceLog, forceCall, cutShort, coins, nameOf,
               removals, notes, staffUsed, staffFaults>>

Coin == [id : Nat, target : Person, by : Person, name : Names, type : CoinTypes,
         command : {"addcoin", "addanycoin"}]
Note == [id : Nat, target : Person, by : Person, hidden : BOOLEAN,
         whoHid : Person \union {"nobody"}]

\* todo: which of Kinds are left to do, by their place in the order.
NoForce == [target |-> "nobody", by |-> "nobody", amounts |-> <<>>, todo |-> {},
            logging |-> FALSE]

StaffTypeOK ==
    /\ sailors \in SUBSET Person
    /\ force \in [Person -> [Kind -> Int]]
    /\ forceLog \in [Person -> [Kind -> Int]]
    /\ {cutShort, staffUsed, staffFaults} \subseteq Nat
    /\ coins \in SUBSET Coin
    /\ nameOf \in [Person -> Names]
    /\ removals \in SUBSET Coin
    /\ notes \in SUBSET Note

StaffInit ==
    /\ sailors = {}
    /\ force = [s \in Person |-> [k \in Kind |-> 0]]
    /\ forceLog = force
    /\ forceCall = NoForce
    /\ cutShort = 0
    /\ coins = {}
    /\ nameOf \in [Person -> Names]
    /\ removals = {}
    /\ notes = {}
    /\ staffUsed = 0
    /\ staffFaults = 0

UseStaff ==
    /\ staffUsed < MaxStaff
    /\ staffUsed' = staffUsed + 1

recordsUnchanged == <<sailors, coins, nameOf, removals, notes>>
forcesUnchanged == <<force, forceLog, forceCall, cutShort, staffFaults>>

-----------------------------------------------------------------------------
\* /addinfo creates the row of a sailor that has none, as other handlers do.
AddInfo(p) ==
    /\ forceCall = NoForce
    /\ p \notin sailors
    /\ sailors' = sailors \union {p}
    /\ UNCHANGED <<forcesUnchanged, coins, nameOf, removals, notes, staffUsed>>

\* /forceadd with an amount for some of the kinds.
ForceAdd(officer, s, amounts) ==
    /\ forceCall = NoForce
    /\ UseStaff
    /\ forceCall' = [target |-> s, by |-> officer, amounts |-> amounts, logging |-> FALSE,
                     todo |-> {i \in DOMAIN Kinds : Kinds[i] \in DOMAIN amounts}]
    /\ UNCHANGED <<force, forceLog, cutShort, recordsUnchanged, staffFaults>>

\* The option whose turn it is.
Turn(i) == \A j \in forceCall.todo : i <= j

\* An option is done; with the last one the command is.
OptionDone(i) ==
    forceCall' = IF forceCall.todo = {i}
                 THEN NoForce
                 ELSE [forceCall EXCEPT !.todo = @ \ {i}, !.logging = FALSE]

\* The update of the counter: for a sailor without a row it changes nothing,
\* and succeeds.
RaiseForce ==
    LET c == forceCall
    IN /\ c # NoForce /\ ~c.logging
       /\ \E i \in c.todo :
             /\ Turn(i)
             /\ force' = IF c.target \in sailors
                         THEN [force EXCEPT ![c.target][Kinds[i]] = @ + c.amounts[Kinds[i]]]
                         ELSE force
       /\ forceCall' = [c EXCEPT !.logging = TRUE]
       /\ UNCHANGED <<forceLog, cutShort, recordsUnchanged, staffUsed, staffFaults>>

\* Faulty: only the last of the options gets a row.
LogLast ==
    LET c == forceCall
    IN /\ c # NoForce /\ c.logging
       /\ \E i \in c.todo :
             /\ Turn(i)
             /\ forceLog' = IF c.todo # {i} THEN forceLog
                            ELSE [forceLog EXCEPT ![c.target][Kinds[i]] = @ + c.amounts[Kinds[i]]]
             /\ OptionDone(i)
       /\ UNCHANGED <<force, cutShort, recordsUnchanged, staffUsed, staffFaults>>

\* The row of force_add: the foreign keys refuse it if the sailor or the
\* officer has no row, and the command ends there.
LogForce ==
    LET c == forceCall
        refused == ~({c.target, c.by} \subseteq sailors)
    IN /\ c # NoForce /\ c.logging
       /\ \/ /\ refused
             /\ forceCall' = NoForce
             /\ cutShort' = cutShort + 1
             /\ UNCHANGED forceLog
          \/ /\ ~refused
             /\ \E i \in c.todo :
                   /\ Turn(i)
                   /\ forceLog' = [forceLog EXCEPT ![c.target][Kinds[i]] = @ + c.amounts[Kinds[i]]]
                   /\ OptionDone(i)
             /\ UNCHANGED cutShort
       /\ UNCHANGED <<force, recordsUnchanged, staffUsed, staffFaults>>

\* The process dies, or a statement fails, in the middle of a /forceadd.
ForceFails ==
    /\ forceCall # NoForce
    /\ staffFaults < MaxStaffFaults
    /\ staffFaults' = staffFaults + 1
    /\ forceCall' = NoForce
    /\ cutShort' = cutShort + 1
    /\ UNCHANGED <<force, forceLog, recordsUnchanged, staffUsed>>

-----------------------------------------------------------------------------
(***************************************************************************)
(* Coins.  /addcoin looks for a coin of the same type under the officer's  *)
(* name, /addanycoin does not look; neither awaits between look and save.  *)
(***************************************************************************)
Rename(p, n) ==
    /\ forceCall = NoForce
    /\ UseStaff
    /\ nameOf[p] # n
    /\ nameOf' = [nameOf EXCEPT ![p] = n]
    /\ UNCHANGED <<forcesUnchanged, sailors, coins, removals, notes>>

SaveCoin(officer, s, name, type, command) ==
    /\ forceCall = NoForce
    /\ {officer, s} \subseteq sailors
    /\ UseStaff
    /\ coins' = coins \union {[id |-> staffUsed + 1, target |-> s, by |-> officer,
                               name |-> name, type |-> type, command |-> command]}
    /\ UNCHANGED <<forcesUnchanged, sailors, nameOf, removals, notes>>

AddCoin(officer, s, type) ==
    /\ \A c \in coins : ~(c.target = s /\ c.name = nameOf[officer] /\ c.type = type)
    /\ SaveCoin(officer, s, nameOf[officer], type, "addcoin")

AddAnyCoin(officer, s, name, type) == SaveCoin(officer, s, name, type, "addanycoin")

\* /removecoin and /removeanycoin: a view for one coin (no order is asked
\* for) that the issuer gave to the sailor.
RemoveCoin(issuer, s, type) ==
    LET found == {c \in coins : c.target = s /\ c.by = issuer /\ c.type = type}
    IN /\ forceCall = NoForce
       /\ UseStaff
       /\ \E c \in found : removals' = removals \union {c}
       /\ UNCHANGED <<forcesUnchanged, sailors, coins, nameOf, notes>>

\* The Confirm button deletes the coin shown; if another view deleted it
\* before, the deletion matches no row and passes.
ConfirmRemoval(c) ==
    /\ forceCall = NoForce
    /\ c \in removals
    /\ coins' = coins \ {c}
    /\ removals' = removals \ {c}
    /\ UNCHANGED <<forcesUnchanged, sailors, nameOf, notes, staffUsed>>

CancelRemoval(c) ==
    /\ forceCall = NoForce
    /\ c \in removals
    /\ removals' = removals \ {c}
    /\ UNCHANGED <<forcesUnchanged, sailors, coins, nameOf, notes, staffUsed>>

-----------------------------------------------------------------------------
AddNote(officer, s) ==
    /\ forceCall = NoForce
    /\ {officer, s} \subseteq sailors
    /\ UseStaff
    /\ notes' = notes \union {[id |-> staffUsed + 1, target |-> s, by |-> officer,
                               hidden |-> FALSE, whoHid |-> "nobody"]}
    /\ UNCHANGED <<forcesUnchanged, sailors, coins, nameOf, removals>>

ToggleModnote(n, officer) ==
    notes' = (notes \ {n}) \union {[n EXCEPT !.hidden = TRUE, !.whoHid = officer]}

\* /hidenote for sailor s and note n: not for oneself, and only a note that
\* is about s.  Hiding it once more puts another name to it.
HideNote(officer, s, n) ==
    /\ forceCall = NoForce
    /\ officer # s
    /\ {officer, s} \subseteq sailors
    /\ n.target = s
    /\ ToggleModnote(n, officer)
    /\ UNCHANGED <<forcesUnchanged, sailors, coins, nameOf, removals, staffUsed>>

StaffNext ==
    \/ \E p \in Person : AddInfo(p)
    \/ \E o, s \in Person : \E ks \in SUBSET Kind \ {{}} :
          \E amounts \in [ks -> ForceAmounts] : ForceAdd(o, s, amounts)
    \/ RaiseForce \/ LogForce \/ ForceFails
    \/ \E p \in Person, n \in Names : Rename(p, n)
    \/ \E o, s \in Person, type \in CoinTypes :
          \/ AddCoin(o, s, type)
          \/ \E n \in Names : AddAnyCoin(o, s, n, type)
          \/ RemoveCoin(o, s, type)
    \/ \E c \in removals : ConfirmRemoval(c) \/ CancelRemoval(c)
    \/ \E o, s \in Person : AddNote(o, s) \/ \E n \in notes : HideNote(o, s, n)

-----------------------------------------------------------------------------
\* Every point forced on a sailor has its row in force_add, whoever the
\* officer is and whether or not the sailor is known; a command that is cut
\* short leaves at most one of its kinds without, and never a row without
\* its points.
ForceAccounted ==
    forceCall = NoForce =>
        Cardinality({p \in Person \X Kind : force[p[1]][p[2]] # forceLog[p[1]][p[2]]})
            <= cutShort

\* /addcoin never leaves a sailor with two coins of one type under one name,
\* through changes of names and removals on the way, if none of them is of
\* /addanycoin.
CoinsDistinct ==
    \A c, d \in coins :
        /\ c.command = "addcoin" /\ d.command = "addcoin"
        /\ c.target = d.target /\ c.name = d.name /\ c.type = d.type
        => c = d

\* Nobody hides a note about themselves: the command compares the officer
\* with the sailor named, the repository the sailor named with the note.
NobodyHidesOwnNotes ==
    \A n \in notes : n.hidden => n.whoHid # n.target

=============================================================================
