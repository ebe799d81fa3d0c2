------------------------------ MODULE UpkeepMC ------------------------------
(* A small sale for TLC: one or two requests for the tickets of a bucket,   *)
(* and a reconciler with a watcher, or two watchers, that serve the event.  *)
EXTENDS Upkeep

CONSTANTS o1, o2, alice, bob, w1, w2, w3

Pairs == {{w1, w2}, {w2, w3}}

MCOwner == [o \in Order |-> IF o = o2 THEN bob ELSE alice]
MCQty == [o \in Order |-> 1]
One == [b \in Bucket |-> 1]
Two == [b \in Bucket |-> 2]
=============================================================================
