----------------------------- MODULE DeliveryMC -----------------------------
(* Instances of Delivery: the payment service's relay runs twice.          *)
EXTENDS Delivery

CONSTANTS o1, rp1, rp2, rt, issuer, notifier, m1, s1, s2

PaymentKeys == {"order.paid", "payment.refunded"}
Services ==
    [r \in Relay |->
        IF r = rt THEN {"ticketing.ticket.issued"} ELSE PaymentKeys]
Queues == [c \in Consumer |-> IF c = issuer THEN "issue" ELSE "notify"]

(* The door shares the tables with the delivery and nothing else, and what *)
(* a failure leaves behind the second relay finds as the first one does:   *)
(* the door, the failures, the second relay and the manual calls are       *)
(* explored one at a time.                                                 *)
DoorIsIdle ==
    /\ expired = {}
    /\ \A s \in Scanner : scan[s] = NotAtTheDoor
    /\ \A o \in Order : entered[o] = 0
NothingFailed == \A f \in Faults : faults[f] = 0
SecondIsIdle == batch[rp2] = NoBatch
NoManual == asked = {}
ManualBound ==   \* one notification is sent by hand, of an order still paid
    asked # {} => /\ Cardinality(asked) = 1
                  /\ \A o \in Order : order[o] \in {"PAID", "ISSUED"}
Apart ==
    /\ ManualBound
    /\ Cardinality({i \in 1..4 :
           ~<<DoorIsIdle, NothingFailed, SecondIsIdle, NoManual>>[i]}) <= 1
=============================================================================
