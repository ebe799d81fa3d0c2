------------------------------- MODULE Orders -------------------------------
(***************************************************************************)
(* The sale of one ticket type of one event: who may ask for how many      *)
(* tickets, and how the type's quota is cut into inventory buckets.  The   *)
(* modules of the sale all extend this one.                                *)
(*                                                                         *)
(* CreateHold draws one fresh id per accepted request.  The Redis hold,    *)
(* the seat_holds row and (through it) the orders row and its single       *)
(* order_items row all belong to that id, so one member of Order stands    *)
(* for all of them.                                                        *)
(***************************************************************************)
EXTENDS Integers, FiniteSets

CONSTANTS
    Order,          \* ids of purchase attempts: hold id, order and item
    Identity,       \* customers
    Owner,          \* Owner[o]: the customer who makes attempt o
    Qty,            \* Qty[o]: the tickets attempt o asks for
    NBuckets,       \* ticket_types.bucket_count
    Capacity,       \* Capacity[b]: ticket_inventory.capacity of bucket b
    MaxPerOrder,    \* events.max_per_order
    MaxPerIdentity  \* events.max_per_identity

Bucket == 0..(NBuckets - 1)
NoBucket == -1

(* Attempts outside 1..max_per_order are refused before any state changes. *)
ASSUME OrdersAssumption ==
    /\ IsFiniteSet(Order)
    /\ NBuckets \in Nat \ {0}
    /\ MaxPerOrder \in Nat \ {0}
    /\ MaxPerIdentity \in Nat \ {0}
    /\ Owner \in [Order -> Identity]
    /\ Qty \in [Order -> 1..MaxPerOrder]
    /\ Capacity \in [Bucket -> Nat]

(* The single tickets of a set of orders: SUM(quantity) counts them.       *)
Units(S) == {u \in S \X (1..MaxPerOrder) : u[2] <= Qty[u[1]]}

Tickets(S) == Cardinality(Units(S))
=============================================================================
