--------------------------- MODULE MCLedgerCommits ---------------------------
(***************************************************************************)
(* Instances of LedgerCommits for TLC: crews that overlap, of sailors of   *)
(* whom one has subclass rows.                                             *)
(***************************************************************************)
EXTENDS LedgerCommits

CONSTANTS ann, bob, cal, main

Sailors == {ann, bob, cal}
Hosts == [l \in Log |-> ann]
Crews == {{ann, bob}, {bob, cal}}
=============================================================================
