------------------------------ MODULE MCSchemer ------------------------------
(***************************************************************************)
(* Instances of Schemer for TLC: a replicated table, a view that reads it  *)
(* and a distributed table over it, all in one database.                   *)
(***************************************************************************)
EXTENDS Schemer

CONSTANTS me, peer, other, db, events, view, all

OneDatabase == [t \in {events, view, all} |-> db]
ViewOnEvents == [t \in {events, view, all} |-> IF t = view THEN {events} ELSE {}]
AllEvents == [t \in {all} |-> events]
=============================================================================
