-------------------------- MODULE SaleDatabaseMC --------------------------
(***************************************************************************)
(* A small sale for TLC: alice tries twice, bob once, in two buckets that  *)
(* cannot serve everybody, and alice's first order has a payment.          *)
(***************************************************************************)
EXTENDS SaleDatabase, TLC

CONSTANTS o1, o2, o3, alice, bob, p1, p3

MCOwner == o1 :> alice @@ o2 :> alice @@ o3 :> bob
MCQty == o1 :> 2 @@ o2 :> 1 @@ o3 :> 2
MCCapacity == 0 :> 2 @@ 1 :> 1
MCPayFor == p1 :> o1 @@ p3 :> o3

(* A single bucket of two tickets, for the run that oversells it.          *)
OneBucket == 0 :> 2

(* docs/01-nghiep-vu.md:93 (BR-O1): the tickets of the orders that are     *)
(* HELD, PAID or ISSUED never exceed the quota of the ticket type.  The    *)
(* sweeper's ReleaseHold gives back the tickets of an order that is being  *)
(* paid for, or is paid and not yet issued, and the order goes on to be    *)
(* paid and issued all the same, after its tickets were sold again.        *)
SoldStatuses == {"HELD", "PAID", "ISSUED"}
Quota == Cardinality({<<b, i>> \in Bucket \X (1..9) : i <= Capacity[b]})

NoOversell == Tickets({o \in Order : order[o] \in SoldStatuses}) <= Quota
=============================================================================
