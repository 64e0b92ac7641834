---------------------------- MODULE MemoryCache -----------------------------
(***************************************************************************)
(* ttl_cache (src/utils/cache_utils.py): answers of a query kept in memory *)
(* for some seconds, as the dates a streak is computed from and the names  *)
(* of ships are.  The table keeps the order in which keys were first       *)
(* inserted: storing a key again leaves it in its place.                   *)
(***************************************************************************)
EXTENDS Integers, Sequences, FiniteSets, SequencesExt, Functions

CONSTANTS Key, Seconds, MaxSize, MaxTime, MaxChanges

ASSUME MemoryAssumption == {Seconds, MaxSize, MaxTime, MaxChanges} \subseteq Nat /\ MaxSize > 0 /\ Seconds > 0

VARIABLES
    entries,    \* the table: key, version of its answer, when it expires
    truth,      \* versions of what the query would answer, and since when
    now,
    answer      \* the last answer, and when it was given

memoryVars == <<entries, truth, now, answer>>

None == [key |-> "none", version |-> 0, at |-> 0]

Keys == {entries[n].key : n \in DOMAIN entries}
Place(k) == CHOOSE n \in DOMAIN entries : entries[n].key = k
Current(k) == Len(truth[k])

MemoryInit ==
    /\ entries = <<>> /\ now = 0 /\ answer = None
    /\ truth = [k \in Key |-> <<0>>]

\* The tables behind a query change.
Change(k) ==
    /\ Current(k) <= MaxChanges
    /\ truth' = [truth EXCEPT ![k] = Append(@, now)]
    /\ UNCHANGED <<entries, now, answer>>

\* Faulty: an entry is used for as long as it is there.
HitsAlways(k) == k \in Keys

Hits(k) == k \in Keys /\ now < entries[Place(k)].expiry

\* The key is stored; a table above its size loses its first entry.
Stored(k) ==
    LET entry == [key |-> k, version |-> Current(k), expiry |-> now + Seconds]
        all == IF k \in Keys THEN [entries EXCEPT ![Place(k)] = entry] ELSE Append(entries, entry)
    IN  IF Len(all) > MaxSize THEN Tail(all) ELSE all

\* wrapper: a query that fails raises, and nothing is stored.
Call(k) ==
    /\ \/ /\ Hits(k) /\ UNCHANGED entries
          /\ answer' = [key |-> k, version |-> entries[Place(k)].version, at |-> now]
       \/ /\ ~Hits(k) /\ entries' = Stored(k)
          /\ answer' = [key |-> k, version |-> Current(k), at |-> now]
    /\ UNCHANGED <<truth, now>>

CallFails(k) == ~Hits(k) /\ answer' = None /\ UNCHANGED <<entries, truth, now>>

CacheClear == entries # <<>> /\ entries' = <<>> /\ UNCHANGED <<truth, now, answer>>

PassSecond == now < MaxTime /\ now' = now + 1 /\ UNCHANGED <<entries, truth, answer>>

MemoryNext == (\E k \in Key : Change(k) \/ Call(k) \/ CallFails(k)) \/ CacheClear \/ PassSecond

MemoryTypeOK ==
    /\ \A n \in DOMAIN entries :
          entries[n] \in [key : Key, version : 1..MaxChanges + 1, expiry : Nat]
    /\ \A k \in Key : truth[k] \in Seq(0..MaxTime)
    /\ now \in 0..MaxTime
    /\ answer \in [key : Key \cup {"none"}, version : 0..MaxChanges + 1, at : 0..MaxTime]

\* An answer was true less than Seconds before it was given, however often
\* the key was asked for, evicted and stored again; and the table holds each
\* key once and no more of them than its size.
AnswersWereTrue ==
    /\ Len(entries) <= MaxSize /\ Cardinality(Keys) = Len(entries)
    /\ answer # None /\ answer.version < Current(answer.key) =>
          truth[answer.key][answer.version + 1] > answer.at - Seconds
=============================================================================
