--------------------------- MODULE PaymentFlowMC ---------------------------
(* Values for TLC: two orders of two customers and one bucket; two requests *)
(* start payments of o1, the gateway of e1 may report before o2 exists.     *)
EXTENDS PaymentFlow

CONSTANTS o1, o2, alice, bob, p1, p2, e1

MCOwner == [o \in Order |-> IF o = o1 THEN alice ELSE bob]
MCQty == [o \in Order |-> 1]
MCCapacity == [b \in Bucket |-> 1]
MCPayFor == [p \in Payment |-> IF p = e1 THEN o2 ELSE o1]
MixedGateways ==
    [p \in Payment |->
        CASE p = p1 -> "sandbox" [] p = p2 -> "stripe" [] p = e1 -> "momo"]

(* One order at a time: no transaction of this service touches two.        *)
OneAtATime ==
    \/ order[o1] = "none" /\ counted[o1] = NotCounting
    \/ order[o2] = "none" /\ counted[o2] = NotCounting /\ session[e1] = "open"
=============================================================================
