--------------------------- MODULE SaleDatabase ---------------------------
(***************************************************************************)
(* The Postgres tables that the ticketing and the payment service share:   *)
(* ticket_inventory, orders with their single item, seat_holds, payments,  *)
(* tickets and outbox_events.  One action per transaction that commits a   *)
(* change.  A call that is refused or finds its work already done changes  *)
(* no row and is no step of this module; its callers model what they do    *)
(* then.  The row locks each transaction takes make it atomic, except that *)
(* PersistHold counts the customer's tickets in a statement of its own,    *)
(* whose snapshot may be stale when the rows are written: two steps.       *)
(***************************************************************************)
EXTENDS Orders

CONSTANTS
    Payment,   \* payments.id, one per call of InitiatePayment
    PayFor     \* PayFor[p]: the order payment p pays

ASSUME PaymentAssumption == PayFor \in [Payment -> Order]

VARIABLES
    available,  \* available[b]: ticket_inventory.available
    order,      \* order[o]: orders.status, "none" before the row exists
    hold,       \* hold[o]: seat_holds: open, or which of its two dates is set
    bucket,     \* bucket[o]: the bucket of the order's item and hold
    counted,    \* counted[o]: tickets an open PersistHold transaction counted
    payment,    \* payment[p]: the payments row p
    tickets,    \* tickets[o]: how many rows of tickets the order has
    outbox      \* every message ever written to outbox_events

tables == <<available, order, hold, bucket, payment, tickets, outbox>>
dbVars == <<available, order, hold, bucket, counted, payment, tickets, outbox>>

OrderStatus == {"none", "HELD", "PAYMENT_PENDING", "PAID", "ISSUED",
                "EXPIRED", "CANCELLED", "REFUNDING", "REFUNDED"}
HoldStatus == {"none", "open", "released", "consumed"}
PaymentStatus == {"none", "PENDING", "SUCCEEDED", "FAILED", "REFUNDED"}

(* provider_txn_id: the id the gateway adapter made up when the payment    *)
(* was initiated, or the one the gateway reports in its callbacks.         *)
Txn == {"none", "initiated", "reported"}
RoutingKey == {"ticketing.hold.created", "ticketing.hold.cancelled",
               "hold.released", "order.paid", "ticketing.ticket.issued",
               "payment.refunded"}
NotCounting == -1

ActiveOrderStatuses == {"HELD", "PAYMENT_PENDING"}
SettledOrderStatuses == {"PAID", "ISSUED", "REFUNDING"}
QuotaOrderStatuses == ActiveOrderStatuses \cup SettledOrderStatuses

OrdersOf(id, statuses) ==
    {o \in Order : Owner[o] = id /\ order[o] \in statuses}

Msg(key, o) == [key |-> key, order |-> o]
Publish(key, o) == outbox' = outbox \cup {Msg(key, o)}

-----------------------------------------------------------------------------
(* PersistHold.  The quota count sees what is committed when it runs.      *)
CountQuota(o) ==
    /\ order[o] = "none"
    /\ counted[o] = NotCounting
    /\ counted' = [counted EXCEPT
           ![o] = Tickets(OrdersOf(Owner[o], QuotaOrderStatuses))]
    /\ UNCHANGED tables

(* Index uq_active_order_per_identity_event.                               *)
NoActiveOrder(id) == OrdersOf(id, ActiveOrderStatuses) = {}

NoQuotaInTx(o) == TRUE   \* mutant: quota checked before the gate only
WithinQuota(o) == counted[o] + Qty[o] <= MaxPerIdentity

AnyInStock(o, b) == available[b] > 0   \* mutant: available > 0 for >= $3
InStock(o, b) == available[b] >= Qty[o]

CommitHold(o, b) ==
    /\ order[o] = "none"
    /\ counted[o] # NotCounting
    /\ WithinQuota(o)
    /\ InStock(o, b)
    /\ NoActiveOrder(Owner[o])
    /\ available' = [available EXCEPT ![b] = @ - Qty[o]]
    /\ order' = [order EXCEPT ![o] = "HELD"]
    /\ hold' = [hold EXCEPT ![o] = "open"]
    /\ bucket' = [bucket EXCEPT ![o] = b]
    /\ counted' = [counted EXCEPT ![o] = NotCounting]
    /\ Publish("ticketing.hold.created", o)
    /\ UNCHANGED <<payment, tickets>>

(* Any error between the count and the commit rolls everything back.       *)
RollbackHold(o) ==
    /\ counted[o] # NotCounting
    /\ counted' = [counted EXCEPT ![o] = NotCounting]
    /\ UNCHANGED tables

-----------------------------------------------------------------------------
(* Claiming an open hold back, and its tickets with it.                    *)
NotConsumed(o) == hold[o] \in {"open", "released"}   \* mutant: BR-O7 dropped
Open(o) == hold[o] = "open"   \* released_at IS NULL AND consumed_at IS NULL

ReturnStock(o) ==
    /\ Open(o)
    /\ hold' = [hold EXCEPT ![o] = "released"]
    /\ available' = [available EXCEPT ![bucket[o]] = @ + Qty[o]]

KeepStock == UNCHANGED <<hold, available>>

KeepStatus(status) == status   \* mutant: the order is forgotten
Expire(status) == IF status = "HELD" THEN "EXPIRED" ELSE status

ReleaseHeldOnly(o) ==   \* mutant: orders that are being paid are skipped
    /\ order[o] = "HELD"
    /\ ReturnStock(o)
    /\ order' = [order EXCEPT ![o] = "EXPIRED"]
    /\ UNCHANGED <<bucket, counted, payment, tickets, outbox>>

ReleaseHold(o) ==
    /\ ReturnStock(o)
    /\ order' = [order EXCEPT ![o] = Expire(@)]
    /\ UNCHANGED <<bucket, counted, payment, tickets, outbox>>

CancelHold(o) ==
    /\ order[o] = "HELD"
    /\ ReturnStock(o)
    /\ order' = [order EXCEPT ![o] = "CANCELLED"]
    /\ Publish("ticketing.hold.cancelled", o)
    /\ UNCHANGED <<bucket, counted, payment, tickets>>

-----------------------------------------------------------------------------
(* The payment service.                                                    *)
PaymentRow(status, txn) == [status |-> status, txn |-> txn]
NoPayment == PaymentRow("none", "none")

(* INSERT ... ON CONFLICT (provider, provider_txn_id): a row with the same *)
(* payments.id but another transaction id is a primary key violation, and  *)
(* Postgres then refuses every further statement of the transaction, the   *)
(* UPDATE by order_id that follows in the code included.                   *)
CanUpsert(p, txn) == payment[p].status = "none" \/ payment[p].txn = txn

MarkPendingAgain(p) ==   \* mutant: AND status = 'HELD' dropped
    /\ order[PayFor[p]] \in ActiveOrderStatuses
    /\ payment[p].status = "none"
    /\ order' = [order EXCEPT ![PayFor[p]] = "PAYMENT_PENDING"]
    /\ payment' = [payment EXCEPT ![p] = PaymentRow("PENDING", "initiated")]
    /\ UNCHANGED <<available, hold, bucket, counted, tickets, outbox>>

CreatePaymentAndMarkPending(p) ==
    /\ order[PayFor[p]] = "HELD"
    /\ payment[p].status = "none"
    /\ order' = [order EXCEPT ![PayFor[p]] = "PAYMENT_PENDING"]
    /\ payment' = [payment EXCEPT ![p] = PaymentRow("PENDING", "initiated")]
    /\ UNCHANGED <<available, hold, bucket, counted, tickets, outbox>>

ProcessPaymentSuccessTx(p, txn) ==
    /\ payment[p] # PaymentRow("SUCCEEDED", txn)
    /\ order[PayFor[p]] \in ActiveOrderStatuses
    /\ CanUpsert(p, txn)
    /\ order' = [order EXCEPT ![PayFor[p]] = "PAID"]
    /\ payment' = [payment EXCEPT ![p] = PaymentRow("SUCCEEDED", txn)]
    /\ Publish("order.paid", PayFor[p])
    /\ UNCHANGED <<available, hold, bucket, counted, tickets>>

(* The order's status is neither read nor written.                         *)
ProcessPaymentFailedTx(p, txn) ==
    /\ order[PayFor[p]] # "none"
    /\ CanUpsert(p, txn)
    /\ payment' = [payment EXCEPT ![p] = PaymentRow("FAILED", txn)]
    /\ UNCHANGED <<available, order, hold, bucket, counted, tickets, outbox>>

PaymentsOf(o) == {p \in Payment : PayFor[p] = o}

MovePayments(o, from, to) ==
    payment' = [p \in Payment |->
        IF p \in PaymentsOf(o) /\ payment[p].status \in from
        THEN PaymentRow(to, payment[p].txn)
        ELSE payment[p]]

ProcessOrderCancellationTx(o) ==
    /\ order[o] = "PAYMENT_PENDING"
    /\ order' = [order EXCEPT ![o] = "CANCELLED"]
    /\ IF Open(o) THEN ReturnStock(o) ELSE KeepStock
    /\ MovePayments(o, {"PENDING"}, "FAILED")
    /\ Publish("hold.released", o)
    /\ UNCHANGED <<bucket, counted, tickets>>

MarkOrderRefundingTx(o) ==
    /\ order[o] \in {"PAID", "ISSUED"}
    /\ order' = [order EXCEPT ![o] = "REFUNDING"]
    /\ UNCHANGED <<available, hold, bucket, counted, payment, tickets, outbox>>

ProcessRefundSuccessTx(o) ==
    /\ order[o] \in SettledOrderStatuses
    /\ order' = [order EXCEPT ![o] = "REFUNDED"]
    /\ MovePayments(o, PaymentStatus \ {"none"}, "REFUNDED")
    /\ Publish("payment.refunded", o)
    /\ UNCHANGED <<available, hold, bucket, counted, tickets>>

-----------------------------------------------------------------------------
(* Issuing: a hold that was already released is not consumed, and nobody   *)
(* looks at how many rows that UPDATE touched.                             *)
PaidForIssue(o) == order[o] \in {"PAID", "ISSUED"}   \* mutant: no count
Issuable(o) ==
    /\ order[o] \in {"PAID", "ISSUED"}
    /\ order[o] = "ISSUED" => tickets[o] = 0

ConsumeAny(h) == "consumed"   \* mutant: released_at IS NULL dropped
ConsumeOpen(h) == IF h = "open" THEN "consumed" ELSE h

IssueTicketsTx(o) ==
    /\ Issuable(o)
    /\ tickets' = [tickets EXCEPT ![o] = @ + Qty[o]]
    /\ hold' = [hold EXCEPT ![o] = ConsumeOpen(@)]
    /\ order' = [order EXCEPT ![o] = "ISSUED"]
    /\ Publish("ticketing.ticket.issued", o)
    /\ UNCHANGED <<available, bucket, counted, payment>>

-----------------------------------------------------------------------------
DbInit ==
    /\ available = Capacity
    /\ order = [o \in Order |-> "none"]
    /\ hold = [o \in Order |-> "none"]
    /\ bucket = [o \in Order |-> NoBucket]
    /\ counted = [o \in Order |-> NotCounting]
    /\ payment = [p \in Payment |-> NoPayment]
    /\ tickets = [o \in Order |-> 0]
    /\ outbox = {}

HoldTx(o) ==
    \/ CountQuota(o)
    \/ \E b \in Bucket : CommitHold(o, b)
    \/ RollbackHold(o)
    \/ ReleaseHold(o)
    \/ CancelHold(o)

PaymentTx(p) ==
    \/ CreatePaymentAndMarkPending(p)
    \/ \E txn \in {"initiated", "reported"} :
          ProcessPaymentSuccessTx(p, txn) \/ ProcessPaymentFailedTx(p, txn)

SettleTx(o) ==
    \/ ProcessOrderCancellationTx(o)
    \/ MarkOrderRefundingTx(o)
    \/ ProcessRefundSuccessTx(o)
    \/ IssueTicketsTx(o)

DbNext ==
    \/ \E o \in Order : HoldTx(o)
    \/ \E p \in Payment : PaymentTx(p)
    \/ \E o \in Order : SettleTx(o)

DbSpec == DbInit /\ [][DbNext]_dbVars

-----------------------------------------------------------------------------
DbTypeOK ==
    /\ available \in [Bucket -> Nat]
    /\ order \in [Order -> OrderStatus]
    /\ hold \in [Order -> HoldStatus]
    /\ bucket \in [Order -> Bucket \cup {NoBucket}]
    /\ counted \in [Order -> Nat \cup {NotCounting}]
    /\ payment \in [Payment -> [status : PaymentStatus, txn : Txn]]
    /\ tickets \in [Order -> Nat]
    /\ outbox \subseteq [key : RoutingKey, order : Order]

(* BR-O1, BR-O7: a bucket's counter and the holds that still claim tickets *)
(* of it (open, or consumed by a sale) add up to the bucket's capacity,    *)
(* whatever the order in which sweeper, cancellation, payment              *)
(* reconciliation, issuing and new holds commit: no hold is subtracted or  *)
(* given back twice, and none is lost.                                     *)
Claimants(b) ==
    {o \in Order : hold[o] \in {"open", "consumed"} /\ bucket[o] = b}

Conservation ==
    \A b \in Bucket : available[b] + Tickets(Claimants(b)) = Capacity[b]

(* BR-O1: an order a customer may still pay for within its ten minutes     *)
(* (HELD) has its tickets set aside, and an order that ended without a     *)
(* sale has given them back.  ReleaseHold, CancelHold and                  *)
(* ProcessOrderCancellationTx each change both tables.                     *)
HoldMatchesOrder ==
    \A o \in Order :
        /\ order[o] = "HELD" => hold[o] = "open"
        /\ order[o] \in {"EXPIRED", "CANCELLED"} => hold[o] = "released"

(* order.paid is delivered at least once, so tickets are issued again and  *)
(* again for the same order: exactly one set of tickets may come of it,    *)
(* and only for an order that was paid.                                    *)
IssuedOnce ==
    \A o \in Order :
        /\ tickets[o] \in {0, Qty[o]}
        /\ order[o] = "ISSUED" => tickets[o] = Qty[o]
        /\ tickets[o] # 0 =>
              /\ order[o] \in {"ISSUED", "REFUNDING", "REFUNDED"}
              /\ Msg("order.paid", o) \in outbox

-----------------------------------------------------------------------------
(* The stock counter implements the ledger that keeps no counter: tickets  *)
(* are claimed only while enough of their bucket are free, and a claim     *)
(* ends once, in a sale or back in the stock, never in both.               *)
ClaimOf(h) ==
    CASE h = "none" -> "none"
      [] h = "open" -> "claimed"
      [] h = "consumed" -> "sold"
      [] h = "released" -> "returned"

Ledger == INSTANCE StockLedger WITH
    claim <- [o \in Order |-> ClaimOf(hold[o])],
    place <- bucket

ImplementsLedger == Ledger!LedgerSpec
=============================================================================
