------------------------- MODULE SaleDatabaseProofs -------------------------
(***************************************************************************)
(* Proofs about the tables of a sale, for every set of orders, customers   *)
(* and payments, every number of buckets and every capacity.               *)
(***************************************************************************)
EXTENDS SaleDatabase, FiniteSetTheorems, TLAPS

(* What the stated invariants need to be inductive.  An order and its hold *)
(* appear together; a hold that exists knows its bucket; tickets are set   *)
(* aside for good only by issuing, so an order that may still be cancelled *)
(* has a hold that can be given back; and whatever was paid was announced. *)
HoldShape ==
    \A o \in Order :
        /\ order[o] = "none" <=> hold[o] = "none"
        /\ hold[o] # "none" => bucket[o] \in Bucket
        /\ hold[o] = "consumed" =>
             order[o] \in {"ISSUED", "REFUNDING", "REFUNDED"}

PaidAnnounced ==
    \A o \in Order :
        order[o] \in {"PAID", "ISSUED", "REFUNDING", "REFUNDED"} =>
            Msg("order.paid", o) \in outbox

StockInv == DbTypeOK /\ HoldShape /\ Conservation
DbInv == StockInv /\ HoldMatchesOrder /\ PaidAnnounced /\ IssuedOnce

-----------------------------------------------------------------------------
(* How Tickets, the number of tickets a set of orders stands for, changes  *)
(* when one order enters or leaves the set.                                *)

(* An order has finitely many tickets, and there are finitely many orders. *)
LEMMA UnitsFinite ==
  ASSUME NEW S \in SUBSET Order
  PROVE  IsFiniteSet(Units(S))
<1>1. IsFiniteSet(S)
  BY FS_Subset, OrdersAssumption
<1>2. IsFiniteSet(1..MaxPerOrder)
  BY FS_Interval, OrdersAssumption
<1>3. IsFiniteSet(S \X (1..MaxPerOrder))
  BY <1>1, <1>2, FS_Product
<1>4. Units(S) \in SUBSET (S \X (1..MaxPerOrder))
  BY DEF Units
<1> QED
  BY <1>3, <1>4, FS_Subset

(* So their tickets can be counted.                                        *)
LEMMA TicketsType ==
  ASSUME NEW S \in SUBSET Order
  PROVE  Tickets(S) \in Nat
BY UnitsFinite, FS_CardinalityType DEF Tickets

(* No orders, no tickets.                                                  *)
LEMMA TicketsEmpty == Tickets({}) = 0
<1>1. Units({}) = {}
  BY DEF Units
<1> QED
  BY <1>1, FS_EmptySet DEF Tickets

(* One order has the tickets of its quantity.                              *)
LEMMA TicketsOne ==
  ASSUME NEW o \in Order
  PROVE  Tickets({o}) = Qty[o]
<1>1. Qty[o] \in 1..MaxPerOrder /\ MaxPerOrder \in Nat
  BY OrdersAssumption
<1>2. IsFiniteSet(1..Qty[o]) /\ Cardinality(1..Qty[o]) = Qty[o]
  BY <1>1, FS_Interval
<1> DEFINE f == [i \in 1..Qty[o] |-> <<o, i>>]
<1>3. Units({o}) = {<<o, i>> : i \in 1..Qty[o]}
  BY <1>1 DEF Units
<1>4. f \in Bijection(1..Qty[o], Units({o}))
  <2>1. f \in [1..Qty[o] -> Units({o})]
    BY <1>3
  <2>2. \A i, j \in 1..Qty[o] : f[i] = f[j] => i = j
    OBVIOUS
  <2>3. \A u \in Units({o}) : \E i \in 1..Qty[o] : f[i] = u
    BY <1>3
  <2> QED
    BY <2>1, <2>2, <2>3 DEF Bijection, Injection, Surjection, IsInjective
<1>5. ExistsBijection(1..Qty[o], Units({o}))
  BY <1>4 DEF ExistsBijection
<1> QED
  BY <1>2, <1>5, FS_Bijection DEF Tickets

(* One more order adds its quantity,                                       *)
LEMMA TicketsAdd ==
  ASSUME NEW S \in SUBSET Order, NEW o \in Order, o \notin S
  PROVE  Tickets(S \cup {o}) = Tickets(S) + Qty[o]
<1>1. Units(S \cup {o}) = Units(S) \cup Units({o})
  BY DEF Units
<1>2. Units(S) \cap Units({o}) = {}
  BY DEF Units
<1>3. IsFiniteSet(Units(S)) /\ IsFiniteSet(Units({o}))
  BY UnitsFinite
<1>4. Cardinality(Units(S)) \in Nat /\ Cardinality(Units({o})) \in Nat
  BY <1>3, FS_CardinalityType
<1>5. Cardinality(Units(S) \cap Units({o})) = 0
  BY <1>2, FS_EmptySet
<1>6. Cardinality(Units(S) \cup Units({o}))
        = Cardinality(Units(S)) + Cardinality(Units({o}))
            - Cardinality(Units(S) \cap Units({o}))
  BY <1>3, FS_Union
<1>7. Cardinality(Units(S) \cup Units({o}))
        = Cardinality(Units(S)) + Cardinality(Units({o}))
  BY <1>4, <1>5, <1>6
<1> QED
  BY <1>1, <1>7, TicketsOne DEF Tickets

(* one less takes it away.                                                 *)
LEMMA TicketsRemove ==
  ASSUME NEW S \in SUBSET Order, NEW o \in S
  PROVE  Tickets(S \ {o}) = Tickets(S) - Qty[o]
<1> DEFINE R == S \ {o}
<1>1. S = R \cup {o} /\ o \notin R /\ R \in SUBSET Order /\ o \in Order
  OBVIOUS
<1>2. Tickets(R \cup {o}) = Tickets(R) + Qty[o]
  BY <1>1, TicketsAdd
<1>3. Tickets(R) \in Nat /\ Qty[o] \in Nat
  BY <1>1, TicketsType, OrdersAssumption
<1>4. Tickets(S) = Tickets(R) + Qty[o]
  BY <1>1, <1>2, Zenon
<1> HIDE DEF R
<1>5. Tickets(R) = Tickets(S) - Qty[o]
  BY <1>3, <1>4
<1> QED
  BY <1>5 DEF R

(* Fewer orders have no more tickets.                                      *)
LEMMA TicketsMono ==
  ASSUME NEW S \in SUBSET Order, NEW R \in SUBSET S
  PROVE  Tickets(R) <= Tickets(S)
<1>1. IsFiniteSet(Units(S))
  BY UnitsFinite
<1>2. Units(R) \in SUBSET Units(S)
  BY DEF Units
<1> QED
  BY <1>1, <1>2, FS_Subset DEF Tickets

-----------------------------------------------------------------------------
(* Constants of the sale, in the form the steps below use them.            *)
LEMMA ConstantTypes ==
  /\ \A o \in Order : Qty[o] \in Nat
  /\ \A b \in Bucket : Capacity[b] \in Nat
  /\ \A p \in Payment : PayFor[p] \in Order
  /\ NotCounting \notin Nat
BY OrdersAssumption, PaymentAssumption DEF NotCounting

(* The claimants of a bucket are orders, so they have a number of tickets. *)
LEMMA ClaimantsType ==
  ASSUME NEW b \in Bucket
  PROVE  Claimants(b) \in SUBSET Order /\ Tickets(Claimants(b)) \in Nat
BY TicketsType DEF Claimants

(* Giving one open hold back keeps the books.                              *)
LEMMA ReturnStockKeepsBooks ==
  ASSUME StockInv, NEW o \in Order, ReturnStock(o), UNCHANGED bucket
  PROVE  /\ available' \in [Bucket -> Nat]
         /\ hold' \in [Order -> HoldStatus]
         /\ Conservation'
<1> DEFINE c == bucket[o]
<1>1. c \in Bucket /\ hold[o] = "open"
  BY DEF StockInv, HoldShape, ReturnStock, Open
<1>2. /\ available \in [Bucket -> Nat]
      /\ hold \in [Order -> HoldStatus]
      /\ available' = [available EXCEPT ![c] = @ + Qty[o]]
      /\ hold' = [hold EXCEPT ![o] = "released"]
  BY DEF StockInv, DbTypeOK, ReturnStock, Open
<1>3. available' \in [Bucket -> Nat]
  BY <1>1, <1>2, ConstantTypes
<1>4. hold' \in [Order -> HoldStatus]
  BY <1>2 DEF HoldStatus
<1>5. Conservation'
  <2> SUFFICES ASSUME NEW b \in Bucket
               PROVE  available'[b] + Tickets(Claimants(b)') = Capacity[b]
    BY DEF Conservation
  <2>1. available[b] + Tickets(Claimants(b)) = Capacity[b]
    BY DEF StockInv, Conservation
  <2>2. available[b] \in Nat /\ Capacity[b] \in Nat /\ Qty[o] \in Nat
        /\ Tickets(Claimants(b)) \in Nat
    BY <1>2, ConstantTypes, ClaimantsType
  <2>3. CASE b = c
    <3>1. o \in Claimants(b) /\ Claimants(b) \in SUBSET Order
      BY <1>1, <2>3 DEF Claimants
    <3>2. Claimants(b)' = Claimants(b) \ {o}
      BY <1>2 DEF Claimants
    <3>3. Tickets(Claimants(b)') = Tickets(Claimants(b)) - Qty[o]
      BY <3>1, <3>2, TicketsRemove
    <3>4. available'[b] = available[b] + Qty[o]
      BY <1>2, <2>3
    <3> QED
      BY <2>1, <2>2, <3>3, <3>4
  <2>4. CASE b # c
    <3>1. Claimants(b)' = Claimants(b)
      BY <1>2, <2>4 DEF Claimants
    <3>2. available'[b] = available[b]
      BY <1>2, <2>4
    <3> QED
      BY <2>1, <3>1, <3>2
  <2> QED
    BY <2>3, <2>4
<1> QED
  BY <1>3, <1>4, <1>5

(* A step that moves no stock and opens, closes and moves no claim.        *)
LEMMA SameClaimsKeepBooks ==
  ASSUME Conservation, UNCHANGED <<available, bucket>>,
         \A o \in Order : (hold'[o] \in {"open", "consumed"})
                             <=> (hold[o] \in {"open", "consumed"})
  PROVE  Conservation'
<1> SUFFICES ASSUME NEW b \in Bucket
             PROVE  available'[b] + Tickets(Claimants(b)') = Capacity[b]
  BY DEF Conservation
<1>1. Claimants(b)' = Claimants(b)
  BY DEF Claimants
<1> QED
  BY <1>1 DEF Conservation

(* PersistHold takes from the bucket what its order claims.                *)
LEMMA CommitHoldKeepsBooks ==
  ASSUME StockInv, NEW o \in Order, NEW b \in Bucket, CommitHold(o, b)
  PROVE  available' \in [Bucket -> Nat] /\ Conservation'
<1>1. /\ available \in [Bucket -> Nat]
      /\ hold \in [Order -> HoldStatus]
      /\ bucket \in [Order -> Bucket \cup {NoBucket}]
      /\ hold[o] = "none"
  BY DEF StockInv, DbTypeOK, HoldShape, CommitHold
<1>2. /\ available[b] >= Qty[o]
      /\ available' = [available EXCEPT ![b] = @ - Qty[o]]
      /\ hold' = [hold EXCEPT ![o] = "open"]
      /\ bucket' = [bucket EXCEPT ![o] = b]
  BY DEF CommitHold, InStock
<1>3. available' \in [Bucket -> Nat]
  BY <1>1, <1>2, ConstantTypes
<1>4. Conservation'
  <2> SUFFICES ASSUME NEW c \in Bucket
               PROVE  available'[c] + Tickets(Claimants(c)') = Capacity[c]
    BY DEF Conservation
  <2>1. available[c] + Tickets(Claimants(c)) = Capacity[c]
    BY DEF StockInv, Conservation
  <2>2. available[c] \in Nat /\ Capacity[c] \in Nat /\ Qty[o] \in Nat
        /\ Tickets(Claimants(c)) \in Nat
    BY <1>1, ConstantTypes, ClaimantsType
  <2>3. CASE c = b
    <3>1. o \notin Claimants(c) /\ Claimants(c) \in SUBSET Order
      BY <1>1 DEF Claimants
    <3>2. Claimants(c)' = Claimants(c) \cup {o}
      BY <1>1, <1>2, <2>3 DEF Claimants
    <3>3. Tickets(Claimants(c)') = Tickets(Claimants(c)) + Qty[o]
      BY <3>1, <3>2, TicketsAdd
    <3>4. available'[c] = available[c] - Qty[o]
      BY <1>1, <1>2, <2>3
    <3> QED
      BY <2>1, <2>2, <3>3, <3>4
  <2>4. CASE c # b
    <3>1. Claimants(c)' = Claimants(c)
      BY <1>1, <1>2, <2>4 DEF Claimants
    <3>2. available'[c] = available[c]
      BY <1>1, <1>2, <2>4
    <3> QED
      BY <2>1, <3>1, <3>2
  <2> QED
    BY <2>3, <2>4
<1> QED
  BY <1>3, <1>4
-----------------------------------------------------------------------------
(* Before the first hold.                                                  *)
LEMMA DbInitInv == DbInit => DbInv
<1> SUFFICES ASSUME DbInit
             PROVE  DbInv
  OBVIOUS
<1> USE DEF DbInit
<1>1. DbTypeOK
  BY OrdersAssumption DEF DbTypeOK, OrderStatus, HoldStatus, PaymentStatus,
     NoPayment, PaymentRow, Txn
<1>2. Conservation
  <2> SUFFICES ASSUME NEW b \in Bucket
               PROVE  available[b] + Tickets(Claimants(b)) = Capacity[b]
    BY DEF Conservation
  <2>1. Claimants(b) = {}
    BY DEF Claimants
  <2> QED
    BY <2>1, TicketsEmpty, ConstantTypes
<1>3. HoldShape /\ HoldMatchesOrder /\ PaidAnnounced
  BY DEF HoldShape, HoldMatchesOrder, PaidAnnounced
<1>4. IssuedOnce
  BY DEF IssuedOnce
<1> QED
  BY <1>1, <1>2, <1>3, <1>4 DEF DbInv, StockInv

(* A message of the outbox has one of the routing keys.                    *)
LEMMA PublishType ==
  ASSUME DbTypeOK, NEW key \in RoutingKey, NEW o \in Order, Publish(key, o)
  PROVE  outbox' \subseteq [key : RoutingKey, order : Order]
BY DEF DbTypeOK, Publish, Msg

(* Every transaction writes values of the columns' types.                  *)
LEMMA DbStepType ==
  ASSUME StockInv, [DbNext]_dbVars
  PROVE  DbTypeOK'
<1> USE DEF OrderStatus, HoldStatus, PaymentStatus, Txn, PaymentRow,
            NoPayment, tables, Open, Expire, Issuable, ConsumeOpen
<1>0. DbTypeOK
  BY DEF StockInv
<1>1. ASSUME NEW o \in Order, CountQuota(o)
      PROVE  DbTypeOK'
  <2>1. Tickets(OrdersOf(Owner[o], QuotaOrderStatuses)) \in Nat
    BY TicketsType DEF OrdersOf
  <2> QED
    BY <1>0, <1>1, <2>1 DEF DbTypeOK, CountQuota
<1>2. ASSUME NEW o \in Order, NEW b \in Bucket, CommitHold(o, b)
      PROVE  DbTypeOK'
  <2>1. available' \in [Bucket -> Nat]
    BY <1>2, CommitHoldKeepsBooks
  <2> QED
    BY <1>0, <1>2, <2>1
       DEF DbTypeOK, CommitHold, Publish, Msg, RoutingKey
<1>3. ASSUME NEW o \in Order, RollbackHold(o)
      PROVE  DbTypeOK'
  BY <1>0, <1>3 DEF DbTypeOK, RollbackHold
<1>4. ASSUME NEW o \in Order, ReleaseHold(o)
      PROVE  DbTypeOK'
  <2>1. ReturnStock(o) /\ UNCHANGED bucket
    BY <1>4 DEF ReleaseHold
  <2>2. available' \in [Bucket -> Nat] /\ hold' \in [Order -> HoldStatus]
    BY <2>1, ReturnStockKeepsBooks
  <2> QED
    BY <1>0, <1>4, <2>2 DEF DbTypeOK, ReleaseHold
<1>5. ASSUME NEW o \in Order, CancelHold(o)
      PROVE  DbTypeOK'
  <2>1. ReturnStock(o) /\ UNCHANGED bucket
    BY <1>5 DEF CancelHold
  <2>2. available' \in [Bucket -> Nat] /\ hold' \in [Order -> HoldStatus]
    BY <2>1, ReturnStockKeepsBooks
  <2>3. outbox' \subseteq [key : RoutingKey, order : Order]
    BY <1>0, <1>5, PublishType DEF CancelHold, RoutingKey
  <2> QED
    BY <1>0, <1>5, <2>2, <2>3 DEF DbTypeOK, CancelHold
<1>6. ASSUME NEW p \in Payment, CreatePaymentAndMarkPending(p)
      PROVE  DbTypeOK'
  BY <1>0, <1>6 DEF DbTypeOK, CreatePaymentAndMarkPending
<1>7. ASSUME NEW p \in Payment, NEW txn \in {"initiated", "reported"},
             ProcessPaymentSuccessTx(p, txn)
      PROVE  DbTypeOK'
  BY <1>0, <1>7, ConstantTypes
     DEF DbTypeOK, ProcessPaymentSuccessTx, Publish, Msg, RoutingKey
<1>8. ASSUME NEW p \in Payment, NEW txn \in {"initiated", "reported"},
             ProcessPaymentFailedTx(p, txn)
      PROVE  DbTypeOK'
  BY <1>0, <1>8 DEF DbTypeOK, ProcessPaymentFailedTx
<1>9. ASSUME NEW o \in Order, ProcessOrderCancellationTx(o)
      PROVE  DbTypeOK'
  <2>1. payment' \in [Payment -> [status : PaymentStatus, txn : Txn]]
    BY <1>0, <1>9 DEF DbTypeOK, ProcessOrderCancellationTx, MovePayments
  <2>2. available' \in [Bucket -> Nat] /\ hold' \in [Order -> HoldStatus]
    <3>1. CASE hold[o] = "open"
      <4>1. ReturnStock(o) /\ UNCHANGED bucket
        BY <1>9, <3>1 DEF ProcessOrderCancellationTx
      <4> QED
        BY <4>1, ReturnStockKeepsBooks
    <3>2. CASE hold[o] # "open"
      BY <1>0, <1>9, <3>2 DEF DbTypeOK, ProcessOrderCancellationTx, KeepStock
    <3> QED
      BY <3>1, <3>2
  <2>3. outbox' \subseteq [key : RoutingKey, order : Order]
    BY <1>0, <1>9, PublishType DEF ProcessOrderCancellationTx, RoutingKey
  <2> QED
    BY <1>0, <1>9, <2>1, <2>2, <2>3 DEF DbTypeOK, ProcessOrderCancellationTx
<1>10. ASSUME NEW o \in Order, MarkOrderRefundingTx(o)
       PROVE  DbTypeOK'
  BY <1>0, <1>10 DEF DbTypeOK, MarkOrderRefundingTx
<1>11. ASSUME NEW o \in Order, ProcessRefundSuccessTx(o)
       PROVE  DbTypeOK'
  <2>1. payment' \in [Payment -> [status : PaymentStatus, txn : Txn]]
    BY <1>0, <1>11 DEF DbTypeOK, ProcessRefundSuccessTx, MovePayments
  <2> QED
    BY <1>0, <1>11, <2>1
       DEF DbTypeOK, ProcessRefundSuccessTx, Publish, Msg, RoutingKey
<1>12. ASSUME NEW o \in Order, IssueTicketsTx(o)
       PROVE  DbTypeOK'
  <2>1. hold' \in [Order -> HoldStatus]
    BY <1>0, <1>12 DEF DbTypeOK, IssueTicketsTx
  <2>2. tickets' \in [Order -> Nat]
    BY <1>0, <1>12, ConstantTypes DEF DbTypeOK, IssueTicketsTx
  <2> QED
    BY <1>0, <1>12, <2>1, <2>2
       DEF DbTypeOK, IssueTicketsTx, Publish, Msg, RoutingKey
<1>13. CASE UNCHANGED dbVars
  BY <1>0, <1>13 DEF DbTypeOK, dbVars
<1> QED
  BY <1>1, <1>2, <1>3, <1>4, <1>5, <1>6, <1>7, <1>8, <1>9, <1>10, <1>11,
     <1>12, <1>13
     DEF DbNext, HoldTx, PaymentTx, SettleTx

(* The four parts of the invariant that follow the stock.                  *)
LEMMA DbStepBooks ==
  ASSUME StockInv, [DbNext]_dbVars
  PROVE  Conservation'
<1> USE DEF tables, Open, Expire, InStock, Issuable, ConsumeOpen
<1>0. DbTypeOK /\ HoldShape /\ Conservation
  BY DEF StockInv
<1>1. ASSUME NEW o \in Order, NEW b \in Bucket, CommitHold(o, b)
      PROVE  Conservation'
  BY <1>1, CommitHoldKeepsBooks
<1>2. ASSUME NEW o \in Order, ReturnStock(o), UNCHANGED bucket
      PROVE  Conservation'
  BY <1>2, ReturnStockKeepsBooks
<1>3. ASSUME UNCHANGED <<available, hold, bucket>>
      PROVE  Conservation'
  BY <1>0, <1>3, SameClaimsKeepBooks
<1>4. ASSUME NEW o \in Order, IssueTicketsTx(o)
      PROVE  Conservation'
  <2>1. UNCHANGED <<available, bucket>>
    BY <1>4 DEF IssueTicketsTx
  <2>2. \A q \in Order : (hold'[q] \in {"open", "consumed"})
                             <=> (hold[q] \in {"open", "consumed"})
    BY <1>0, <1>4 DEF DbTypeOK, IssueTicketsTx
  <2> QED
    BY <1>0, <2>1, <2>2, SameClaimsKeepBooks
<1>5. ASSUME NEW o \in Order, HoldTx(o)
      PROVE  Conservation'
  BY <1>1, <1>2, <1>3, <1>5
     DEF HoldTx, CountQuota, RollbackHold, ReleaseHold, CancelHold
<1>6. ASSUME NEW p \in Payment, PaymentTx(p)
      PROVE  Conservation'
  BY <1>3, <1>6 DEF PaymentTx, CreatePaymentAndMarkPending,
                    ProcessPaymentSuccessTx, ProcessPaymentFailedTx
<1>7. ASSUME NEW o \in Order, SettleTx(o)
      PROVE  Conservation'
  BY <1>2, <1>3, <1>4, <1>7
     DEF SettleTx, ProcessOrderCancellationTx, KeepStock,
         MarkOrderRefundingTx, ProcessRefundSuccessTx
<1>8. CASE UNCHANGED dbVars
  BY <1>3, <1>8 DEF dbVars
<1> QED
  BY <1>5, <1>6, <1>7, <1>8 DEF DbNext

(* The parts that relate one order to its hold, payment and tickets.       *)
LEMMA DbStepShape ==
  ASSUME DbInv, [DbNext]_dbVars
  PROVE  HoldShape'
<1>0. DbTypeOK /\ HoldShape /\ HoldMatchesOrder /\ PaidAnnounced /\ IssuedOnce
  BY DEF DbInv, StockInv
<1> USE DEF Open, Expire, Issuable, ConsumeOpen, DbTypeOK, HoldShape
<1>1. ASSUME NEW o \in Order, CountQuota(o)
      PROVE  HoldShape'
  BY <1>0, <1>1 DEF CountQuota, tables
<1>2. ASSUME NEW o \in Order, NEW b \in Bucket, CommitHold(o, b)
      PROVE  HoldShape'
  BY <1>0, <1>2, ConstantTypes DEF CommitHold, Publish
<1>3. ASSUME NEW o \in Order, RollbackHold(o)
      PROVE  HoldShape'
  BY <1>0, <1>3 DEF RollbackHold, tables
<1>4. ASSUME NEW o \in Order, ReleaseHold(o)
      PROVE  HoldShape'
  BY <1>0, <1>4 DEF ReleaseHold, ReturnStock
<1>5. ASSUME NEW o \in Order, CancelHold(o)
      PROVE  HoldShape'
  BY <1>0, <1>5 DEF CancelHold, ReturnStock, Publish
<1>6. ASSUME NEW p \in Payment, CreatePaymentAndMarkPending(p)
      PROVE  HoldShape'
  BY <1>0, <1>6, ConstantTypes DEF CreatePaymentAndMarkPending
<1>7. ASSUME NEW p \in Payment, NEW txn, ProcessPaymentSuccessTx(p, txn)
      PROVE  HoldShape'
  BY <1>0, <1>7, ConstantTypes
     DEF ProcessPaymentSuccessTx, Publish, ActiveOrderStatuses
<1>8. ASSUME NEW p \in Payment, NEW txn, ProcessPaymentFailedTx(p, txn)
      PROVE  HoldShape'
  BY <1>0, <1>8 DEF ProcessPaymentFailedTx
<1>9. ASSUME NEW o \in Order, ProcessOrderCancellationTx(o)
      PROVE  HoldShape'
  BY <1>0, <1>9
     DEF ProcessOrderCancellationTx, ReturnStock, KeepStock, Publish
<1>10. ASSUME NEW o \in Order, MarkOrderRefundingTx(o)
      PROVE  HoldShape'
  BY <1>0, <1>10 DEF MarkOrderRefundingTx
<1>11. ASSUME NEW o \in Order, ProcessRefundSuccessTx(o)
      PROVE  HoldShape'
  BY <1>0, <1>11 DEF ProcessRefundSuccessTx, Publish, SettledOrderStatuses
<1>12. ASSUME NEW o \in Order, IssueTicketsTx(o)
      PROVE  HoldShape'
  BY <1>0, <1>12, ConstantTypes DEF IssueTicketsTx, Publish
<1>13. CASE UNCHANGED dbVars
  BY <1>0, <1>13 DEF dbVars
<1> QED
  BY <1>1, <1>2, <1>3, <1>4, <1>5, <1>6, <1>7, <1>8, <1>9, <1>10, <1>11,
     <1>12, <1>13
     DEF DbNext, HoldTx, PaymentTx, SettleTx


(* Every transaction keeps the hold of an order in line with its status,   *)
LEMMA DbStepMatches ==
  ASSUME DbInv, [DbNext]_dbVars
  PROVE  HoldMatchesOrder'
<1>0. DbTypeOK /\ HoldShape /\ HoldMatchesOrder /\ PaidAnnounced /\ IssuedOnce
  BY DEF DbInv, StockInv
<1> USE DEF Open, Expire, Issuable, ConsumeOpen, DbTypeOK, HoldShape,
            HoldMatchesOrder
<1>1. ASSUME NEW o \in Order, CountQuota(o)
      PROVE  HoldMatchesOrder'
  BY <1>0, <1>1 DEF CountQuota, tables
<1>2. ASSUME NEW o \in Order, NEW b \in Bucket, CommitHold(o, b)
      PROVE  HoldMatchesOrder'
  BY <1>0, <1>2, ConstantTypes DEF CommitHold, Publish
<1>3. ASSUME NEW o \in Order, RollbackHold(o)
      PROVE  HoldMatchesOrder'
  BY <1>0, <1>3 DEF RollbackHold, tables
<1>4. ASSUME NEW o \in Order, ReleaseHold(o)
      PROVE  HoldMatchesOrder'
  BY <1>0, <1>4 DEF ReleaseHold, ReturnStock
<1>5. ASSUME NEW o \in Order, CancelHold(o)
      PROVE  HoldMatchesOrder'
  BY <1>0, <1>5 DEF CancelHold, ReturnStock, Publish
<1>6. ASSUME NEW p \in Payment, CreatePaymentAndMarkPending(p)
      PROVE  HoldMatchesOrder'
  BY <1>0, <1>6, ConstantTypes DEF CreatePaymentAndMarkPending
<1>7. ASSUME NEW p \in Payment, NEW txn, ProcessPaymentSuccessTx(p, txn)
      PROVE  HoldMatchesOrder'
  BY <1>0, <1>7, ConstantTypes
     DEF ProcessPaymentSuccessTx, Publish, ActiveOrderStatuses
<1>8. ASSUME NEW p \in Payment, NEW txn, ProcessPaymentFailedTx(p, txn)
      PROVE  HoldMatchesOrder'
  BY <1>0, <1>8 DEF ProcessPaymentFailedTx
<1>9. ASSUME NEW o \in Order, ProcessOrderCancellationTx(o)
      PROVE  HoldMatchesOrder'
  <2>1. hold[o] \in {"open", "released"}
    BY <1>0, <1>9 DEF ProcessOrderCancellationTx, HoldStatus
  <2>2. hold' = [hold EXCEPT ![o] = "released"]
    BY <1>0, <1>9, <2>1
       DEF ProcessOrderCancellationTx, ReturnStock, KeepStock
  <2> QED
    BY <1>0, <1>9, <2>2 DEF ProcessOrderCancellationTx
<1>10. ASSUME NEW o \in Order, MarkOrderRefundingTx(o)
      PROVE  HoldMatchesOrder'
  BY <1>0, <1>10 DEF MarkOrderRefundingTx
<1>11. ASSUME NEW o \in Order, ProcessRefundSuccessTx(o)
      PROVE  HoldMatchesOrder'
  BY <1>0, <1>11 DEF ProcessRefundSuccessTx, Publish, SettledOrderStatuses
<1>12. ASSUME NEW o \in Order, IssueTicketsTx(o)
      PROVE  HoldMatchesOrder'
  BY <1>0, <1>12, ConstantTypes DEF IssueTicketsTx, Publish
<1>13. CASE UNCHANGED dbVars
  BY <1>0, <1>13 DEF dbVars
<1> QED
  BY <1>1, <1>2, <1>3, <1>4, <1>5, <1>6, <1>7, <1>8, <1>9, <1>10, <1>11,
     <1>12, <1>13
     DEF DbNext, HoldTx, PaymentTx, SettleTx


(* leaves the order.paid of a paid order in the outbox                     *)
LEMMA DbStepAnnounced ==
  ASSUME DbInv, [DbNext]_dbVars
  PROVE  PaidAnnounced'
<1>0. DbTypeOK /\ HoldShape /\ HoldMatchesOrder /\ PaidAnnounced /\ IssuedOnce
  BY DEF DbInv, StockInv
<1> USE DEF Open, Expire, Issuable, ConsumeOpen, DbTypeOK, PaidAnnounced
<1>1. ASSUME NEW o \in Order, CountQuota(o)
      PROVE  PaidAnnounced'
  BY <1>0, <1>1 DEF CountQuota, tables
<1>2. ASSUME NEW o \in Order, NEW b \in Bucket, CommitHold(o, b)
      PROVE  PaidAnnounced'
  BY <1>0, <1>2, ConstantTypes DEF CommitHold, Publish
<1>3. ASSUME NEW o \in Order, RollbackHold(o)
      PROVE  PaidAnnounced'
  BY <1>0, <1>3 DEF RollbackHold, tables
<1>4. ASSUME NEW o \in Order, ReleaseHold(o)
      PROVE  PaidAnnounced'
  BY <1>0, <1>4 DEF ReleaseHold, ReturnStock
<1>5. ASSUME NEW o \in Order, CancelHold(o)
      PROVE  PaidAnnounced'
  BY <1>0, <1>5 DEF CancelHold, ReturnStock, Publish
<1>6. ASSUME NEW p \in Payment, CreatePaymentAndMarkPending(p)
      PROVE  PaidAnnounced'
  BY <1>0, <1>6, ConstantTypes DEF CreatePaymentAndMarkPending
<1>7. ASSUME NEW p \in Payment, NEW txn, ProcessPaymentSuccessTx(p, txn)
      PROVE  PaidAnnounced'
  BY <1>0, <1>7, ConstantTypes
     DEF ProcessPaymentSuccessTx, Publish, ActiveOrderStatuses
<1>8. ASSUME NEW p \in Payment, NEW txn, ProcessPaymentFailedTx(p, txn)
      PROVE  PaidAnnounced'
  BY <1>0, <1>8 DEF ProcessPaymentFailedTx
<1>9. ASSUME NEW o \in Order, ProcessOrderCancellationTx(o)
      PROVE  PaidAnnounced'
  BY <1>0, <1>9
     DEF ProcessOrderCancellationTx, ReturnStock, KeepStock, Publish
<1>10. ASSUME NEW o \in Order, MarkOrderRefundingTx(o)
      PROVE  PaidAnnounced'
  BY <1>0, <1>10 DEF MarkOrderRefundingTx
<1>11. ASSUME NEW o \in Order, ProcessRefundSuccessTx(o)
      PROVE  PaidAnnounced'
  BY <1>0, <1>11 DEF ProcessRefundSuccessTx, Publish, SettledOrderStatuses
<1>12. ASSUME NEW o \in Order, IssueTicketsTx(o)
      PROVE  PaidAnnounced'
  BY <1>0, <1>12, ConstantTypes DEF IssueTicketsTx, Publish
<1>13. CASE UNCHANGED dbVars
  BY <1>0, <1>13 DEF dbVars
<1> QED
  BY <1>1, <1>2, <1>3, <1>4, <1>5, <1>6, <1>7, <1>8, <1>9, <1>10, <1>11,
     <1>12, <1>13
     DEF DbNext, HoldTx, PaymentTx, SettleTx


(* and issues no ticket twice.                                             *)
LEMMA DbStepIssued ==
  ASSUME DbInv, [DbNext]_dbVars
  PROVE  IssuedOnce'
<1>0. DbTypeOK /\ HoldShape /\ HoldMatchesOrder /\ PaidAnnounced /\ IssuedOnce
  BY DEF DbInv, StockInv
<1> USE DEF Open, Expire, Issuable, ConsumeOpen, DbTypeOK, PaidAnnounced,
            IssuedOnce
<1>1. ASSUME NEW o \in Order, CountQuota(o)
      PROVE  IssuedOnce'
  BY <1>0, <1>1 DEF CountQuota, tables
<1>2. ASSUME NEW o \in Order, NEW b \in Bucket, CommitHold(o, b)
      PROVE  IssuedOnce'
  BY <1>0, <1>2, ConstantTypes DEF CommitHold, Publish
<1>3. ASSUME NEW o \in Order, RollbackHold(o)
      PROVE  IssuedOnce'
  BY <1>0, <1>3 DEF RollbackHold, tables
<1>4. ASSUME NEW o \in Order, ReleaseHold(o)
      PROVE  IssuedOnce'
  BY <1>0, <1>4 DEF ReleaseHold, ReturnStock
<1>5. ASSUME NEW o \in Order, CancelHold(o)
      PROVE  IssuedOnce'
  BY <1>0, <1>5 DEF CancelHold, ReturnStock, Publish
<1>6. ASSUME NEW p \in Payment, CreatePaymentAndMarkPending(p)
      PROVE  IssuedOnce'
  BY <1>0, <1>6, ConstantTypes DEF CreatePaymentAndMarkPending
<1>7. ASSUME NEW p \in Payment, NEW txn, ProcessPaymentSuccessTx(p, txn)
      PROVE  IssuedOnce'
  BY <1>0, <1>7, ConstantTypes
     DEF ProcessPaymentSuccessTx, Publish, ActiveOrderStatuses
<1>8. ASSUME NEW p \in Payment, NEW txn, ProcessPaymentFailedTx(p, txn)
      PROVE  IssuedOnce'
  BY <1>0, <1>8 DEF ProcessPaymentFailedTx
<1>9. ASSUME NEW o \in Order, ProcessOrderCancellationTx(o)
      PROVE  IssuedOnce'
  BY <1>0, <1>9
     DEF ProcessOrderCancellationTx, ReturnStock, KeepStock, Publish
<1>10. ASSUME NEW o \in Order, MarkOrderRefundingTx(o)
      PROVE  IssuedOnce'
  BY <1>0, <1>10 DEF MarkOrderRefundingTx
<1>11. ASSUME NEW o \in Order, ProcessRefundSuccessTx(o)
      PROVE  IssuedOnce'
  BY <1>0, <1>11 DEF ProcessRefundSuccessTx, Publish, SettledOrderStatuses
<1>12. ASSUME NEW o \in Order, IssueTicketsTx(o)
      PROVE  IssuedOnce'
  BY <1>0, <1>12, ConstantTypes DEF IssueTicketsTx, Publish
<1>13. CASE UNCHANGED dbVars
  BY <1>0, <1>13 DEF dbVars
<1> QED
  BY <1>1, <1>2, <1>3, <1>4, <1>5, <1>6, <1>7, <1>8, <1>9, <1>10, <1>11,
     <1>12, <1>13
     DEF DbNext, HoldTx, PaymentTx, SettleTx

-----------------------------------------------------------------------------
(* The invariant of every reachable state of the tables.                   *)
LEMMA DbStepKeepsInv ==
  ASSUME DbInv, [DbNext]_dbVars
  PROVE  DbInv'
<1>1. StockInv
  BY DEF DbInv
<1>2. DbTypeOK' /\ Conservation' /\ HoldShape'
  BY <1>1, DbStepType, DbStepBooks, DbStepShape
<1>3. HoldMatchesOrder' /\ PaidAnnounced' /\ IssuedOnce'
  BY DbStepMatches, DbStepAnnounced, DbStepIssued
<1> QED
  BY <1>2, <1>3 DEF DbInv, StockInv

(* Whatever order the transactions of ticketing and payment commit in,     *)
(* DbInv holds: the stock is conserved, holds fit orders, paid orders are  *)
(* announced, tickets are issued once.                                     *)
THEOREM DbInvariant == DbSpec => []DbInv
<1>1. DbInit => DbInv
  BY DbInitInv
<1>2. DbInv /\ [DbNext]_dbVars => DbInv'
  BY DbStepKeepsInv
<1> QED
  BY <1>1, <1>2, PTL DEF DbSpec

(* Every transaction keeps the columns' types; in particular no counter of *)
(* ticket_inventory ever goes below zero (CHECK (available >= 0)).         *)
THEOREM DbTypes == DbSpec => []DbTypeOK
<1>1. DbInv => DbTypeOK
  BY DEF DbInv, StockInv
<1> QED
  BY <1>1, DbInvariant, PTL

(* BR-O1 and BR-O7 for any sale: counters and claims add up to the         *)
(* capacity of every bucket, however the transactions interleave.          *)
THEOREM StockIsConserved == DbSpec => []Conservation
<1>1. DbInv => Conservation
  BY DEF DbInv, StockInv
<1> QED
  BY <1>1, DbInvariant, PTL

(* A HELD order has its tickets set aside, an order that ended without a   *)
(* sale has given them back.                                               *)
THEOREM HoldsMatchOrders == DbSpec => []HoldMatchesOrder
<1>1. DbInv => HoldMatchesOrder
  BY DEF DbInv
<1> QED
  BY <1>1, DbInvariant, PTL

(* However often order.paid is delivered, an order gets one set of         *)
(* tickets, and only after it was paid.                                    *)
THEOREM TicketsIssuedOnce == DbSpec => []IssuedOnce
<1>1. DbInv => IssuedOnce
  BY DEF DbInv
<1> QED
  BY <1>1, DbInvariant, PTL

-----------------------------------------------------------------------------
(* The refinement.  The tickets the ledger calls taken are those of the    *)
(* claimants, so what it calls free is what the counter says.              *)
LEMMA LedgerVocabulary ==
  /\ Ledger!Bucket = Bucket
  /\ Ledger!NoBucket = NoBucket
  /\ \A S : Ledger!Tickets(S) = Tickets(S)
BY DEF Ledger!Bucket, Bucket, Ledger!NoBucket, NoBucket, Ledger!Tickets,
       Tickets, Ledger!Units, Units, Ledger!Cardinality, Cardinality

(* The ledger's words for the states of a hold.                            *)
LEMMA ClaimValues ==
  /\ ClaimOf("none") = "none"
  /\ ClaimOf("open") = "claimed"
  /\ ClaimOf("consumed") = "sold"
  /\ ClaimOf("released") = "returned"
BY DEF ClaimOf

(* What the ledger calls free is available of ticket_inventory.            *)
LEMMA FreeIsAvailable ==
  ASSUME StockInv, NEW b \in Bucket
  PROVE  Ledger!Free(b) = available[b]
<1>1. \A o \in Order : (ClaimOf(hold[o]) \in {"claimed", "sold"})
                          <=> (hold[o] \in {"open", "consumed"})
  BY ClaimValues DEF StockInv, DbTypeOK, HoldStatus
<1>2. Ledger!Taken(b) = Claimants(b)
  BY <1>1 DEF Ledger!Taken, Claimants
<1>3. available[b] + Tickets(Claimants(b)) = Capacity[b]
  BY DEF StockInv, Conservation
<1>4. available[b] \in Nat /\ Capacity[b] \in Nat
      /\ Tickets(Claimants(b)) \in Nat
  BY ConstantTypes, ClaimantsType DEF StockInv, DbTypeOK
<1>5. Ledger!Free(b) = Capacity[b] - Tickets(Claimants(b))
  BY <1>2, LedgerVocabulary DEF Ledger!Free
<1> QED
  BY <1>3, <1>4, <1>5

(* At first nothing is claimed.                                            *)
LEMMA LedgerInitial == DbInit => Ledger!LedgerInit
BY ClaimValues, LedgerVocabulary DEF DbInit, Ledger!LedgerInit

(* A step that gives one hold another status gives its claim the status it *)
(* stands for, and leaves the other claims alone.                          *)
LEMMA ClaimMoves ==
  ASSUME StockInv, NEW o \in Order, NEW h \in HoldStatus,
         hold' = [hold EXCEPT ![o] = h]
  PROVE  [q \in Order |-> ClaimOf(hold'[q])]
           = [[q \in Order |-> ClaimOf(hold[q])] EXCEPT ![o] = ClaimOf(h)]
<1>1. hold \in [Order -> HoldStatus]
  BY DEF StockInv, DbTypeOK
<1>2. hold'[o] = h /\ \A q \in Order : q # o => hold'[q] = hold[q]
  BY <1>1
<1> DEFINE old == [q \in Order |-> ClaimOf(hold[q])]
           new == [q \in Order |-> ClaimOf(hold'[q])]
<1>3. new[o] = ClaimOf(h) /\ \A q \in Order : q # o => new[q] = old[q]
  <2>1. \A q \in Order : new[q] = ClaimOf(hold'[q])
    OBVIOUS
  <2>2. \A q \in Order : old[q] = ClaimOf(hold[q])
    OBVIOUS
  <2> HIDE DEF old, new
  <2>3. \A q \in Order : q # o => new[q] = old[q]
    <3> SUFFICES ASSUME NEW q \in Order, q # o
                 PROVE  new[q] = old[q]
      OBVIOUS
    <3>1. hold'[q] = hold[q]
      BY <1>2
    <3>2. ClaimOf(hold'[q]) = ClaimOf(hold[q])
      BY <3>1, Zenon
    <3> QED
      BY <2>1, <2>2, <3>2
  <2>4. ClaimOf(hold'[o]) = ClaimOf(h)
    BY <1>2, Zenon
  <2> QED
    BY <2>1, <2>3, <2>4
<1>4. DOMAIN new = Order /\ DOMAIN old = Order
  OBVIOUS
<1>5. new = [q \in Order |-> new[q]] /\ old = [q \in Order |-> old[q]]
  OBVIOUS
<1> HIDE DEF old, new
<1>6. new = [old EXCEPT ![o] = ClaimOf(h)]
  BY <1>3, <1>4, <1>5
<1> QED
  BY <1>6 DEF old, new

(* A released hold is a claim that is returned.                            *)
LEMMA LedgerReturn ==
  ASSUME StockInv, NEW o \in Order, ReturnStock(o), UNCHANGED bucket
  PROVE  Ledger!Return(o)
<1>1. [q \in Order |-> ClaimOf(hold'[q])]
        = [[q \in Order |-> ClaimOf(hold[q])] EXCEPT ![o] = "returned"]
  BY ClaimMoves, ClaimValues DEF ReturnStock, Open, HoldStatus
<1> QED
  BY <1>1, ClaimValues DEF ReturnStock, Open, Ledger!Return

(* A transaction that leaves the holds alone is a stutter of the ledger.   *)
LEMMA LedgerStutter ==
  ASSUME UNCHANGED <<hold, bucket>>
  PROVE  UNCHANGED Ledger!ledgerVars
BY DEF Ledger!ledgerVars

(* PersistHold claims the tickets it takes from the counter.               *)
LEMMA CommitIsClaim ==
  ASSUME StockInv, NEW o \in Order, NEW b \in Bucket, CommitHold(o, b)
  PROVE  Ledger!Claim(o, b)
<1>1. hold[o] = "none" /\ hold' = [hold EXCEPT ![o] = "open"]
  BY DEF StockInv, HoldShape, CommitHold
<1>2. Ledger!Free(b) >= Qty[o]
  BY FreeIsAvailable DEF CommitHold, InStock
<1>3. [q \in Order |-> ClaimOf(hold'[q])]
        = [[q \in Order |-> ClaimOf(hold[q])] EXCEPT ![o] = "claimed"]
  BY <1>1, ClaimMoves, ClaimValues DEF HoldStatus
<1> QED
  BY <1>1, <1>2, <1>3, ClaimValues DEF CommitHold, Ledger!Claim

(* Every transaction is a claim, an end of a claim or a stutter.           *)
LEMMA LedgerStep ==
  ASSUME StockInv, [DbNext]_dbVars
  PROVE  [Ledger!LedgerNext]_(Ledger!ledgerVars)
<1> USE DEF tables, Open, Expire, InStock, Issuable, ConsumeOpen
<1>1. ASSUME NEW o \in Order, NEW b \in Bucket, CommitHold(o, b)
      PROVE  Ledger!Claim(o, b)
  BY <1>1, CommitIsClaim
<1>2. ASSUME NEW o \in Order, IssueTicketsTx(o)
      PROVE  Ledger!Sell(o) \/ UNCHANGED Ledger!ledgerVars
  <2>1. hold \in [Order -> HoldStatus] /\ UNCHANGED bucket
    BY <1>2 DEF StockInv, DbTypeOK, IssueTicketsTx
  <2>2. CASE hold[o] = "open"
    <3>1. hold' = [hold EXCEPT ![o] = "consumed"]
      BY <1>2, <2>2 DEF IssueTicketsTx
    <3>2. [q \in Order |-> ClaimOf(hold'[q])]
            = [[q \in Order |-> ClaimOf(hold[q])] EXCEPT ![o] = "sold"]
      BY <3>1, ClaimMoves, ClaimValues DEF HoldStatus
    <3> QED
      BY <2>1, <2>2, <3>2, ClaimValues DEF Ledger!Sell
  <2>3. CASE hold[o] # "open"
    <3>1. hold' = hold
      BY <1>2, <2>1, <2>3 DEF IssueTicketsTx
    <3> QED
      BY <2>1, <3>1, LedgerStutter
  <2> QED
    BY <2>2, <2>3
<1>3. ASSUME NEW o \in Order, HoldTx(o)
      PROVE  [Ledger!LedgerNext]_(Ledger!ledgerVars)
  <2>1. ASSUME NEW b \in Bucket, CommitHold(o, b)
        PROVE  Ledger!LedgerNext
    BY <1>1, <2>1, LedgerVocabulary DEF Ledger!LedgerNext
  <2>2. CASE ReleaseHold(o) \/ CancelHold(o)
    <3>1. ReturnStock(o) /\ UNCHANGED bucket
      BY <2>2 DEF ReleaseHold, CancelHold
    <3> QED
      BY <3>1, LedgerReturn DEF Ledger!LedgerNext
  <2>3. CASE CountQuota(o) \/ RollbackHold(o)
    BY <2>3, LedgerStutter DEF CountQuota, RollbackHold
  <2> QED
    BY <1>3, <2>1, <2>2, <2>3 DEF HoldTx
<1>4. ASSUME NEW p \in Payment, PaymentTx(p)
      PROVE  UNCHANGED Ledger!ledgerVars
  BY <1>4, LedgerStutter
     DEF PaymentTx, CreatePaymentAndMarkPending, ProcessPaymentSuccessTx,
         ProcessPaymentFailedTx
<1>5. ASSUME NEW o \in Order, SettleTx(o)
      PROVE  [Ledger!LedgerNext]_(Ledger!ledgerVars)
  <2>1. CASE ProcessOrderCancellationTx(o) /\ hold[o] = "open"
    <3>1. ReturnStock(o) /\ UNCHANGED bucket
      BY <2>1 DEF ProcessOrderCancellationTx
    <3> QED
      BY <3>1, LedgerReturn DEF Ledger!LedgerNext
  <2>2. CASE ProcessOrderCancellationTx(o) /\ hold[o] # "open"
    BY <2>2, LedgerStutter DEF ProcessOrderCancellationTx, KeepStock
  <2>3. CASE MarkOrderRefundingTx(o) \/ ProcessRefundSuccessTx(o)
    BY <2>3, LedgerStutter DEF MarkOrderRefundingTx, ProcessRefundSuccessTx
  <2>4. CASE IssueTicketsTx(o)
    BY <1>2, <2>4 DEF Ledger!LedgerNext
  <2> QED
    BY <1>5, <2>1, <2>2, <2>3, <2>4 DEF SettleTx
<1>6. CASE UNCHANGED dbVars
  BY <1>6, LedgerStutter DEF dbVars
<1> QED
  BY <1>3, <1>4, <1>5, <1>6 DEF DbNext

(* The tables of a sale implement the ledger.                              *)
THEOREM DatabaseImplementsLedger == DbSpec => ImplementsLedger
<1>1. DbInit => Ledger!LedgerInit
  BY LedgerInitial
<1>2. DbInv /\ [DbNext]_dbVars => [Ledger!LedgerNext]_(Ledger!ledgerVars)
  BY LedgerStep DEF DbInv
<1> QED
  BY <1>1, <1>2, DbInvariant, PTL
     DEF DbSpec, ImplementsLedger, Ledger!LedgerSpec
=============================================================================
