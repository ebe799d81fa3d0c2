------------------------- MODULE PaymentFlowProofs -------------------------
(***************************************************************************)
(* Proofs about the payment service, for every number of orders, payments  *)
(* and refunds, every assignment of gateways, and any number of attempts.  *)
(***************************************************************************)
EXTENDS PaymentFlow, SaleDatabaseProofs

HasRow(p) == payment[p].status # "none"
RowTxns == \A p \in Payment : HasRow(p) => payment[p].txn # "none"

(* Where the money is.  A refund that has passed MarkOrderRefundingTx has  *)
(* an order that went that far, and one that waits to be recorded was paid *)
(* by a gateway.                                                           *)
RefundShape ==
    /\ DOMAIN refunds = Order
    /\ \A r \in Refunder, o \in Order :
          /\ step[<<r, o>>].at \in {"marked", "refunded"} =>
                order[o] \in {"REFUNDING", "REFUNDED"}
          /\ step[<<r, o>>].at = "refunded" => refunds[o] # {}

(* Where payments come from: the transaction that makes the first row of   *)
(* an order moves it on from HELD, and whatever reports on a payment, its  *)
(* page included, comes after its row unless the gateway runs ahead.       *)
FromRow(p) == HasRow(p) \/ p \in Early

PageShape ==
    /\ \A p \in url : HasRow(p)
    /\ \A cb \in callbacks \cup asked : FromRow(cb.payment)
    /\ \A p \in replayed : inbox[p].state # "none"
    /\ \A p \in Payment :
          /\ inbox[p].state # "none" => FromRow(p)
          /\ initiating[p] # "idle" => p \notin Early
          /\ HasRow(p) /\ p \notin Early =>
                order[PayFor[p]] \notin {"none", "HELD"}

PayInv ==
    DbInv /\ PayTypeOK /\ RowTxns /\ RefundShape /\ RefundsMatch /\ PageShape

OneRow ==
    \A p, q \in Payment :
        HasRow(p) /\ HasRow(q) /\ PayFor[p] = PayFor[q] => p = q

(* What is on its way to the inbox, and what is in it, are successes.      *)
InboxShape ==
    /\ \A cb \in saving : cb.status = "SUCCEEDED"
    /\ \A p \in Payment :
          inbox[p] # NoRow =>
             inbox[p].state # "none" /\ inbox[p].status = "SUCCEEDED"

-----------------------------------------------------------------------------
(* What the service does to the tables are transactions of SaleDatabase:   *)
(* those of the ticketing service, the first row of a payment a customer   *)
(* starts, what a gateway reports, and the refunds.                        *)
RecordTx(p) ==
    \E txn \in Txn \ {"none"} :
        ProcessPaymentSuccessTx(p, txn) \/ ProcessPaymentFailedTx(p, txn)

OrderTx(o) ==
    HoldTx(o) \/ IssueTicketsTx(o) \/ ProcessOrderCancellationTx(o)

PaymentStep ==
    \/ \E p \in Payment : StartPayment(p) /\ CreatePaymentAndMarkPending(p)
    \/ \E p \in Payment : FromRow(p) /\ RecordTx(p)

(* Every gateway of the code reports a transaction id of its own.          *)
LEMMA KnownTxns ==
  /\ \A p \in Payment : ReportedTxn(p) \in Txn \ {"none"}
  /\ Txn \ {"none"} = {"initiated", "reported"}
BY PaymentFlowAssumption
   DEF ReportedTxn, SandboxTxn, VNPayTxn, MoMoTxn, StripeTxn, Gateways, Txn

(* Every step of payment commits at most one transaction, and only a refund*)
(* touches the refunds.                                                    *)
LEMMA PayStepTx ==
  ASSUME PayTypeOK, PageShape, [PayNext]_vars
  PROVE  \/ \E r \in Refunder, o \in Order : Refund(r, o)
         \/ /\ UNCHANGED <<step, refunds>>
            /\ \/ \E o \in Order : OrderTx(o)
               \/ PaymentStep
               \/ UNCHANGED dbVars
<1>0. \A cb \in callbacks \cup saving \cup asked :
         /\ cb.payment \in Payment /\ FromRow(cb.payment)
         /\ PayFor[cb.payment] \in Order /\ cb.txn \in Txn \ {"none"}
  BY ConstantTypes DEF PayTypeOK, Callbacks, PageShape
<1> USE DEF PaymentStep
<1>1. ASSUME NEW o \in Order, Sale(o) \/ GrowOld(o) \/ AskGateway(o)
      PROVE  /\ UNCHANGED <<step, refunds>>
             /\ OrderTx(o) \/ UNCHANGED dbVars
  BY <1>1 DEF Sale, GrowOld, AskGateway, ReconcileUnchanged, payVars,
              OrderTx, HoldTx
<1>2. ASSUME NEW p \in Payment, NEW s, NEW txn \in Txn \ {"none"},
             Record(p, s, txn), FromRow(p)
      PROVE  PaymentStep \/ UNCHANGED dbVars
  BY <1>2 DEF Record, RecordTx
<1>3. ASSUME NEW p \in Payment, Checkout(p)
      PROVE  /\ UNCHANGED <<step, refunds>>
             /\ PaymentStep \/ UNCHANGED dbVars
  <2>1. CASE StartPayment(p)
    BY <2>1 DEF StartPayment, RestUnchanged
  <2>2. CASE ReplayApply(p)
    <3>1. FromRow(p)
      BY <2>2 DEF ReplayApply, Pending, PageShape
    <3> QED
      BY <1>2, <2>2, <3>1, KnownTxns DEF ReplayApply, ReplayUnchanged
  <2> QED
    BY <1>3, <2>1, <2>2
       DEF Checkout, CheckOrder, ResumePayment, Pay, RestUnchanged,
           MarkPaymentInboxProcessed, ReplayUnchanged
<1>4. ASSUME NEW cb \in callbacks \cup saving, Webhook(cb)
      PROVE  /\ UNCHANGED <<step, refunds>>
             /\ PaymentStep \/ UNCHANGED dbVars
  BY <1>0, <1>2, <1>4
     DEF Webhook, WebhookRecorded, WebhookEarly, SavePaymentInbox,
         WebhookUnchanged
<1>5. ASSUME NEW a \in asked, ApplyAnswer(a) \/ DropAnswer(a)
      PROVE  /\ UNCHANGED <<step, refunds>>
             /\ \/ OrderTx(PayFor[a.payment])
                \/ PaymentStep
                \/ UNCHANGED dbVars
  BY <1>0, <1>2, <1>5
     DEF ApplyAnswer, DropAnswer, Heal, HealCancelled, ReconcileUnchanged,
         OrderTx
<1>6. CASE Deploy \/ UNCHANGED vars
  BY <1>6 DEF Deploy, vars, payVars
<1> QED
  BY <1>0, <1>1, <1>3, <1>4, <1>5, <1>6 DEF PayNext

(* That transaction is one of SaleDatabase.                                *)
LEMMA PayStepIsDbStep ==
  ASSUME PayTypeOK, PageShape, [PayNext]_vars
  PROVE  [DbNext]_dbVars
<1>1. ASSUME NEW r \in Refunder, NEW o \in Order, Refund(r, o)
      PROVE  [DbNext]_dbVars
  BY <1>1 DEF Refund, ListOrder, MarkRefunding, RefundPayment, RecordRefund,
              AbandonRefund, DbNext, SettleTx
<1>2. CASE PaymentStep
  BY <1>2, KnownTxns DEF PaymentStep, RecordTx, DbNext, PaymentTx
<1>3. ASSUME NEW o \in Order, OrderTx(o)
      PROVE  [DbNext]_dbVars
  BY <1>3 DEF OrderTx, DbNext, SettleTx
<1> QED
  BY <1>1, <1>2, <1>3, PayStepTx

-----------------------------------------------------------------------------
(* Types, actor by actor; those of the tables are proved with them.        *)
LEMMA AskKeepsTypes ==
  ASSUME PayTypeOK, RowTxns, DbTypeOK', NEW o \in Order, AskGateway(o)
  PROVE  PayTypeOK'
<1>1. ASSUME NEW p \in PaymentOf(o)
      PROVE  Callback(p, Answer(p), payment[p].txn) \in Callbacks
  <2>1. p \in Payment /\ HasRow(p)
    BY <1>1 DEF PaymentOf, PaymentsOf, HasRow
  <2>2. payment[p].txn \in Txn \ {"none"}
    BY <2>1 DEF PayTypeOK, DbTypeOK, RowTxns
  <2>3. Answer(p) \in {"SUCCEEDED", "FAILED"}
    BY DEF Answer, SandboxAnswer
  <2> QED
    BY <2>1, <2>2, <2>3 DEF Callback, Callbacks
<1> QED
  BY <1>1 DEF AskGateway, ReconcileUnchanged, PayTypeOK

(* initiate_payment.go and the gateway keep the types,                     *)
LEMMA CheckoutKeepsTypes ==
  ASSUME PayTypeOK, DbTypeOK', NEW p \in Payment, Checkout(p)
  PROVE  PayTypeOK'
<1> USE DEF PayTypeOK
<1>1. CASE CheckOrder(p) \/ StartPayment(p) \/ ResumePayment(p)
  BY <1>1 DEF CheckOrder, StartPayment, ResumePayment, RestUnchanged
<1>2. CASE Pay(p)
  <2>1. ReportedTxn(p) \in Txn \ {"none"}
    BY KnownTxns
  <2>2. \A s \in {"SUCCEEDED", "FAILED"} :
           Callback(p, s, ReportedTxn(p)) \in Callbacks
    BY <2>1 DEF Callback, Callbacks
  <2> QED
    BY <1>2, <2>2 DEF Pay
<1>3. CASE ReplayApply(p)
  <2>1. CASE inbox' = inbox /\ replayed' = replayed \cup {p}
    BY <1>3, <2>1 DEF ReplayApply, ReplayUnchanged
  <2>2. CASE /\ inbox' = [inbox EXCEPT ![p].attempts = @ + 1]
             /\ replayed' = replayed
    <3>1. inbox[p].attempts \in 0..MaxAttempts
          /\ inbox[p].attempts < MaxAttempts
      BY <1>3 DEF ReplayApply, Pending
    <3>2. inbox[p].attempts + 1 \in 0..MaxAttempts
      BY <3>1, PaymentFlowAssumption
    <3> QED
      BY <1>3, <2>2, <3>2 DEF ReplayApply, ReplayUnchanged
  <2> QED
    BY <1>3, <2>1, <2>2 DEF ReplayApply
<1>4. CASE MarkPaymentInboxProcessed(p)
  BY <1>4 DEF MarkPaymentInboxProcessed, ReplayUnchanged
<1> QED
  BY <1>1, <1>2, <1>3, <1>4 DEF Checkout

(* so do process_webhook.go                                                *)
LEMMA WebhookKeepsTypes ==
  ASSUME PayTypeOK, DbTypeOK', NEW cb \in callbacks \cup saving, Webhook(cb)
  PROVE  PayTypeOK'
<1>1. cb \in callbacks /\ cb.payment \in Payment
      /\ cb.status \in {"SUCCEEDED", "FAILED"}
  BY DEF PayTypeOK, Callbacks
<1> USE DEF PayTypeOK
<1>2. CASE WebhookRecorded(cb) \/ WebhookEarly(cb)
  BY <1>1, <1>2 DEF WebhookRecorded, WebhookEarly, WebhookUnchanged, Answered
<1>3. CASE SavePaymentInbox(cb)
  <2>1. InboxRow("waiting", cb.status) \in
           [state : {"none", "waiting", "processed"},
            status : {"SUCCEEDED", "FAILED"}, attempts : 0..MaxAttempts]
    BY <1>1, PaymentFlowAssumption DEF InboxRow
  <2> QED
    BY <1>1, <1>3, <2>1 DEF SavePaymentInbox, WebhookUnchanged, Answered
<1> QED
  BY <1>2, <1>3 DEF Webhook

(* and refund_event.go,                                                    *)
LEMMA RefundKeepsTypes ==
  ASSUME PayTypeOK, DbTypeOK', NEW r \in Refunder, NEW o \in Order,
         Refund(r, o)
  PROVE  PayTypeOK'
<1> USE DEF PayTypeOK, RefundUnchanged
<1>0. ASSUME NEW where \in {"idle", "listed", "marked", "refunded"},
             At(r, o, where)
      PROVE  step' \in [Refunder \X Order ->
                           [at : {"idle", "listed", "marked", "refunded"},
                            by : Gateways]]
  BY <1>0 DEF At
<1>1. CASE ListOrder(r, o)
  <2>1. GatewaysOf(o) \subseteq Gateways
    BY PaymentFlowAssumption DEF GatewaysOf, PaymentsOf
  <2> QED
    BY <1>1, <2>1 DEF ListOrder
<1>2. CASE MarkRefunding(r, o) \/ RecordRefund(r, o) \/ AbandonRefund(r, o)
  BY <1>0, <1>2 DEF MarkRefunding, RecordRefund, AbandonRefund
<1>3. CASE RefundPayment(r, o)
  BY <1>0, <1>3 DEF RefundPayment, AfterRefusal
<1> QED
  BY <1>1, <1>2, <1>3 DEF Refund

(* and every other step.                                                   *)
LEMMA PayStepTypes ==
  ASSUME PayTypeOK, RowTxns, DbTypeOK', [PayNext]_vars
  PROVE  PayTypeOK'
<1>1. ASSUME NEW o \in Order, Sale(o) \/ GrowOld(o)
      PROVE  PayTypeOK'
  BY <1>1 DEF Sale, GrowOld, payVars, PayTypeOK
<1>2. ASSUME NEW a \in asked, ApplyAnswer(a) \/ DropAnswer(a)
      PROVE  PayTypeOK'
  BY <1>2 DEF ApplyAnswer, DropAnswer, ReconcileUnchanged, PayTypeOK
<1>3. CASE Deploy \/ UNCHANGED vars
  BY <1>3 DEF Deploy, vars, payVars, PayTypeOK
<1> QED
  BY <1>1, <1>2, <1>3, AskKeepsTypes, CheckoutKeepsTypes, WebhookKeepsTypes,
     RefundKeepsTypes DEF PayNext

-----------------------------------------------------------------------------
(* What any transaction leaves of orders and payments: an order that has   *)
(* been paid never is a customer's to pay again, and one that is given     *)
(* back stays so.                                                          *)
LEMMA OrderMoves ==
  ASSUME DbTypeOK, [DbNext]_dbVars, NEW o \in Order
  PROVE  /\ order[o] \in {"REFUNDING", "REFUNDED"} =>
               order'[o] \in {"REFUNDING", "REFUNDED"}
         /\ order[o] = "REFUNDED" => order'[o] = "REFUNDED"
         /\ order[o] \in SettledOrderStatuses =>
               order'[o] \in SettledOrderStatuses \cup {"REFUNDED"}
         /\ order[o] \notin {"none", "HELD"} =>
               order'[o] \notin {"none", "HELD"}
<1> USE DEF DbTypeOK, SettledOrderStatuses
<1>1. ASSUME NEW q \in Order, HoldTx(q)
      PROVE  \/ order' = order
             \/ order[q] = "none" /\ order' = [order EXCEPT ![q] = "HELD"]
             \/ order' = [order EXCEPT ![q] = Expire(@)]
             \/ order[q] = "HELD" /\ order' = [order EXCEPT ![q] = "CANCELLED"]
  BY <1>1 DEF HoldTx, CountQuota, CommitHold, RollbackHold, ReleaseHold,
              CancelHold, tables
<1>2. ASSUME NEW p \in Payment, PaymentTx(p)
      PROVE  \/ order' = order
             \/ /\ order[PayFor[p]] \in {"HELD", "PAYMENT_PENDING"}
                /\ \E s \in {"PAYMENT_PENDING", "PAID"} :
                      order' = [order EXCEPT ![PayFor[p]] = s]
  BY <1>2 DEF PaymentTx, CreatePaymentAndMarkPending,
              ProcessPaymentSuccessTx, ProcessPaymentFailedTx,
              ActiveOrderStatuses
<1>3. ASSUME NEW q \in Order, SettleTx(q)
      PROVE  \/ /\ order[q] = "PAYMENT_PENDING"
                /\ order' = [order EXCEPT ![q] = "CANCELLED"]
             \/ /\ order[q] \in {"PAID", "ISSUED"}
                /\ \E s \in {"ISSUED", "REFUNDING"} :
                      order' = [order EXCEPT ![q] = s]
             \/ /\ order[q] \in SettledOrderStatuses
                /\ order' = [order EXCEPT ![q] = "REFUNDED"]
  BY <1>3 DEF SettleTx, ProcessOrderCancellationTx, MarkOrderRefundingTx,
              ProcessRefundSuccessTx, IssueTicketsTx, Issuable
<1>4. CASE \E q \in Order : HoldTx(q)
  BY <1>1, <1>4 DEF Expire
<1>5. CASE \E p \in Payment : PaymentTx(p)
  <2>1. PICK p \in Payment : PaymentTx(p)
    BY <1>5
  <2>2. PayFor[p] \in Order
    BY ConstantTypes
  <2> QED
    BY <1>2, <2>1, <2>2
<1>6. CASE \E q \in Order : SettleTx(q)
  BY <1>3, <1>6
<1> QED
  BY <1>4, <1>5, <1>6 DEF DbNext, dbVars

(* A payment says SUCCEEDED or REFUNDED with its order.                    *)
PaymentsMatch ==
    \A p \in Payment :
        /\ payment[p].status = "SUCCEEDED" =>
              order[PayFor[p]] \in SettledOrderStatuses
        /\ payment[p].status = "REFUNDED" => order[PayFor[p]] = "REFUNDED"

(* An UPDATE of the payments of one order changes their status and nothing *)
(* else.                                                                   *)
LEMMA MovePaymentsRows ==
  ASSUME DbTypeOK, RowTxns, NEW o \in Order, NEW from \in SUBSET PaymentStatus,
         "none" \notin from, NEW to \in PaymentStatus \ {"none"},
         MovePayments(o, from, to)
  PROVE  /\ RowTxns'
         /\ \A p \in Payment :
               /\ HasRow(p)' <=> HasRow(p)
               /\ payment'[p].status =
                     IF PayFor[p] = o /\ payment[p].status \in from
                     THEN to ELSE payment[p].status
               /\ payment'[p].txn = payment[p].txn
<1>1. ASSUME NEW p \in Payment
      PROVE  /\ payment'[p].status =
                   IF PayFor[p] = o /\ payment[p].status \in from
                   THEN to ELSE payment[p].status
             /\ payment'[p].txn = payment[p].txn
  BY DEF MovePayments, PaymentsOf, PaymentRow
<1> QED
  BY <1>1 DEF RowTxns, HasRow

(* Rows of payments stay, and a transaction keeps them in step with their  *)
(* order.                                                                  *)
LEMMA PaymentMoves ==
  ASSUME DbTypeOK, RowTxns, PaymentsMatch, [DbNext]_dbVars
  PROVE  /\ RowTxns' /\ PaymentsMatch'
         /\ \A p \in Payment : HasRow(p) => HasRow(p)'
<1>0. \A p \in Payment : PayFor[p] \in Order
  BY ConstantTypes
<1> USE <1>0 DEF DbTypeOK
<1>1. \A o \in Order :
         /\ order[o] = "REFUNDED" => order'[o] = "REFUNDED"
         /\ order[o] \in SettledOrderStatuses =>
               order'[o] \in SettledOrderStatuses \cup {"REFUNDED"}
  BY OrderMoves
<1>2. CASE /\ payment' = payment
           /\ \A o \in Order : order[o] \in SettledOrderStatuses =>
                                  order'[o] # "REFUNDED"
  BY <1>1, <1>2 DEF RowTxns, PaymentsMatch, HasRow
<1>3. ASSUME NEW q \in Order, HoldTx(q)
      PROVE  /\ payment' = payment
             /\ \A o \in Order : order[o] \in SettledOrderStatuses =>
                                    order'[o] # "REFUNDED"
  BY <1>3 DEF HoldTx, CountQuota, CommitHold, RollbackHold, ReleaseHold,
              CancelHold, tables, Expire, SettledOrderStatuses
<1>4. ASSUME NEW p \in Payment, PaymentTx(p)
      PROVE  /\ RowTxns' /\ PaymentsMatch'
             /\ \A q \in Payment : HasRow(q) => HasRow(q)'
  <2>1. PICK s \in {"PENDING", "SUCCEEDED", "FAILED"}, txn \in Txn \ {"none"} :
           payment' = [payment EXCEPT ![p] = PaymentRow(s, txn)]
    BY <1>4 DEF PaymentTx, CreatePaymentAndMarkPending, Txn,
                ProcessPaymentSuccessTx, ProcessPaymentFailedTx
  <2>2. /\ payment'[p] = PaymentRow(s, txn)
        /\ \A q \in Payment : q # p => payment'[q] = payment[q]
    BY <2>1
  <2>3. \/ order' = order /\ s # "SUCCEEDED"
        \/ /\ order[PayFor[p]] \in ActiveOrderStatuses
           /\ \/ /\ order' = [order EXCEPT ![PayFor[p]] = "PAYMENT_PENDING"]
                 /\ s = "PENDING"
              \/ order' = [order EXCEPT ![PayFor[p]] = "PAID"]
    <3>1. CASE CreatePaymentAndMarkPending(p)
      BY <3>1, <2>2
         DEF CreatePaymentAndMarkPending, PaymentRow, ActiveOrderStatuses
    <3>2. ASSUME NEW t, ProcessPaymentFailedTx(p, t)
          PROVE  order' = order /\ s # "SUCCEEDED"
      BY <3>2, <2>2 DEF ProcessPaymentFailedTx, PaymentRow
    <3>3. ASSUME NEW t, ProcessPaymentSuccessTx(p, t)
          PROVE  /\ order[PayFor[p]] \in ActiveOrderStatuses
                 /\ order' = [order EXCEPT ![PayFor[p]] = "PAID"]
      BY <3>3 DEF ProcessPaymentSuccessTx
    <3> QED
      BY <1>4, <3>1, <3>2, <3>3 DEF PaymentTx
  <2>4. PaymentsMatch'
    BY <1>1, <2>2, <2>3
       DEF PaymentsMatch, PaymentRow, ActiveOrderStatuses,
           SettledOrderStatuses
  <2> QED
    BY <2>2, <2>4 DEF RowTxns, HasRow, PaymentRow
<1>5. ASSUME NEW o \in Order, ProcessOrderCancellationTx(o)
      PROVE  /\ RowTxns' /\ PaymentsMatch'
             /\ \A q \in Payment : HasRow(q) => HasRow(q)'
  <2> DEFINE from == {"PENDING"}
  <2>1. MovePayments(o, from, "FAILED")
    BY <1>5 DEF ProcessOrderCancellationTx
  <2>2. /\ from \in SUBSET PaymentStatus /\ "none" \notin from
        /\ "FAILED" \in PaymentStatus \ {"none"}
    BY DEF PaymentStatus
  <2>3. /\ RowTxns'
        /\ \A p \in Payment :
              /\ HasRow(p)' <=> HasRow(p)
              /\ payment'[p].status =
                    IF PayFor[p] = o /\ payment[p].status \in from
                    THEN "FAILED" ELSE payment[p].status
    <3> HIDE DEF from, DbTypeOK
    <3> QED
      BY <2>1, <2>2, MovePaymentsRows
  <2>4. /\ order[o] = "PAYMENT_PENDING"
        /\ order' = [order EXCEPT ![o] = "CANCELLED"]
    BY <1>5 DEF ProcessOrderCancellationTx
  <2> QED
    BY <2>3, <2>4 DEF PaymentsMatch, SettledOrderStatuses
<1>6. ASSUME NEW o \in Order, ProcessRefundSuccessTx(o)
      PROVE  /\ RowTxns' /\ PaymentsMatch'
             /\ \A q \in Payment : HasRow(q) => HasRow(q)'
  <2>1. /\ RowTxns'
        /\ \A p \in Payment :
              /\ HasRow(p)' <=> HasRow(p)
              /\ payment'[p].status =
                    IF /\ PayFor[p] = o
                       /\ payment[p].status \in PaymentStatus \ {"none"}
                    THEN "REFUNDED" ELSE payment[p].status
    <3>1. MovePayments(o, PaymentStatus \ {"none"}, "REFUNDED")
      BY <1>6 DEF ProcessRefundSuccessTx
    <3>2. "REFUNDED" \in PaymentStatus \ {"none"}
      BY DEF PaymentStatus
    <3>3. PaymentStatus \ {"none"} \in SUBSET PaymentStatus
      OBVIOUS
    <3>4. "none" \notin PaymentStatus \ {"none"}
      OBVIOUS
    <3> HIDE DEF DbTypeOK
    <3> QED
      BY <3>1, <3>2, <3>3, <3>4, MovePaymentsRows
  <2>2. order' = [order EXCEPT ![o] = "REFUNDED"]
    BY <1>6 DEF ProcessRefundSuccessTx
  <2> QED
    BY <2>1, <2>2 DEF PaymentsMatch, SettledOrderStatuses, PaymentStatus
<1>7. ASSUME NEW o \in Order, MarkOrderRefundingTx(o) \/ IssueTicketsTx(o)
      PROVE  /\ payment' = payment
             /\ \A q \in Order : order[q] \in SettledOrderStatuses =>
                                    order'[q] # "REFUNDED"
  BY <1>7 DEF MarkOrderRefundingTx, IssueTicketsTx, SettledOrderStatuses
<1>8. CASE UNCHANGED dbVars
  BY <1>8 DEF dbVars, RowTxns, PaymentsMatch, HasRow
<1> QED
  BY <1>2, <1>3, <1>4, <1>5, <1>6, <1>7, <1>8 DEF DbNext, SettleTx

-----------------------------------------------------------------------------
(* Refunds.  Only RecordRefund makes an order REFUNDED.                    *)
LEMMA OthersDoNotRefund ==
  ASSUME DbTypeOK,
         \/ \E o \in Order : OrderTx(o) \/ MarkOrderRefundingTx(o)
         \/ PaymentStep
         \/ UNCHANGED dbVars,
         NEW o \in Order, order'[o] = "REFUNDED"
  PROVE  order[o] = "REFUNDED"
<1> USE DEF DbTypeOK
<1>1. ASSUME NEW q \in Order, OrderTx(q) \/ MarkOrderRefundingTx(q)
      PROVE  order[o] = "REFUNDED"
  BY <1>1 DEF OrderTx, HoldTx, CountQuota, CommitHold, RollbackHold,
              ReleaseHold, CancelHold, tables, Expire, IssueTicketsTx,
              ProcessOrderCancellationTx, MarkOrderRefundingTx
<1>2. CASE PaymentStep
  BY <1>2, ConstantTypes
     DEF PaymentStep, RecordTx, CreatePaymentAndMarkPending,
         ProcessPaymentSuccessTx, ProcessPaymentFailedTx
<1>3. CASE UNCHANGED dbVars
  BY <1>3 DEF dbVars
<1> QED
  BY <1>1, <1>2, <1>3

RefundedPaid == \A o \in Order : order[o] = "REFUNDED" => refunds[o] # {}

(* RefundsMatch in the three parts its proof treats one by one.            *)
LEMMA RefundsMatchParts ==
  RefundsMatch <=> MoneyBackEndsOrder /\ RefundedPaid /\ PaymentsMatch
BY DEF RefundsMatch, RefundedPaid, PaymentsMatch

(* The steps of refund_event.go: mark the order, ask the gateway, record.  *)
LEMMA RefundStepKeepsShape ==
  ASSUME DbTypeOK, PayTypeOK, RefundShape, MoneyBackEndsOrder, RefundedPaid,
         [DbNext]_dbVars, NEW r \in Refunder, NEW o \in Order, Refund(r, o)
  PROVE  RefundShape' /\ MoneyBackEndsOrder' /\ RefundedPaid'
<1>0. \A q \in Order :
         /\ order[q] \in {"REFUNDING", "REFUNDED"} =>
               order'[q] \in {"REFUNDING", "REFUNDED"}
         /\ order[q] = "REFUNDED" => order'[q] = "REFUNDED"
  BY OrderMoves
<1>1. /\ order \in [Order -> OrderStatus] /\ DOMAIN refunds = Order
      /\ step \in [Refunder \X Order ->
                     [at : {"idle", "listed", "marked", "refunded"},
                      by : Gateways]]
  BY DEF DbTypeOK, PayTypeOK, RefundShape
<1> USE <1>0, <1>1 DEF RefundShape, MoneyBackEndsOrder, RefundedPaid
<1>2. CASE ListOrder(r, o)
  <2>1. order' = order /\ refunds' = refunds
    BY <1>2 DEF ListOrder, dbVars
  <2>2. \E g \in GatewaysOf(o) :
           step' = [step EXCEPT ![<<r, o>>] =
              [at |-> IF order[o] = "REFUNDING" THEN "marked" ELSE "listed",
               by |-> g]]
    BY <1>2 DEF ListOrder
  <2> QED
    BY <2>1, <2>2
<1>3. ASSUME NEW where \in {"idle", "marked", "refunded"}, At(r, o, where)
      PROVE  /\ step'[<<r, o>>].at = where
             /\ \A u \in Refunder, q \in Order :
                   <<u, q>> # <<r, o>> => step'[<<u, q>>] = step[<<u, q>>]
  BY <1>3 DEF At
<1>4. CASE MarkRefunding(r, o)
  <2>1. order'[o] \in {"REFUNDING", "REFUNDED"}
    BY <1>4 DEF MarkRefunding, MarkOrderRefundingTx, dbVars
  <2>2. \A q \in Order : order'[q] = "REFUNDED" => order[q] = "REFUNDED"
    BY <1>4, OthersDoNotRefund DEF MarkRefunding
  <2> QED
    BY <1>3, <1>4, <2>1, <2>2 DEF MarkRefunding
<1>5. CASE RefundPayment(r, o)
  <2>1. order' = order
    BY <1>5 DEF RefundPayment, dbVars
  <2>2. CASE At(r, o, "idle") /\ refunds' = refunds
    BY <1>3, <2>1, <2>2
  <2>3. ASSUME NEW id, refunds' = [refunds EXCEPT ![o] = @ \cup {id}],
               At(r, o, "refunded")
        PROVE  RefundShape' /\ MoneyBackEndsOrder' /\ RefundedPaid'
    <3>0. /\ DOMAIN refunds' = Order /\ refunds'[o] = refunds[o] \cup {id}
          /\ \A q \in Order : q # o => refunds'[q] = refunds[q]
      BY <2>3
    <3>1. refunds'[o] # {}
      BY <3>0
    <3>2. order[o] \in {"REFUNDING", "REFUNDED"}
      BY <1>5 DEF RefundPayment
    <3>3. MoneyBackEndsOrder' /\ RefundedPaid'
      BY <2>1, <3>0, <3>1, <3>2
    <3>4. RefundShape'
      <4> SUFFICES ASSUME NEW u \in Refunder, NEW q \in Order
                   PROVE  /\ step'[<<u, q>>].at \in {"marked", "refunded"} =>
                                order'[q] \in {"REFUNDING", "REFUNDED"}
                          /\ step'[<<u, q>>].at = "refunded" =>
                                refunds'[q] # {}
        BY <3>0
      <4>1. refunds[q] # {} => refunds'[q] # {}
        BY <3>0, <3>1
      <4>2. CASE <<u, q>> = <<r, o>>
        BY <1>3, <2>1, <2>3, <3>1, <3>2, <4>2
      <4>3. CASE <<u, q>> # <<r, o>>
        BY <1>3, <2>1, <2>3, <4>1, <4>3
      <4> QED
        BY <4>2, <4>3
    <3> QED
      BY <3>3, <3>4
  <2> QED
    BY <1>5, <2>2, <2>3 DEF RefundPayment, AfterRefusal
<1>6. CASE RecordRefund(r, o)
  <2>1. /\ refunds' = refunds /\ refunds[o] # {} /\ At(r, o, "idle")
        /\ order' = order \/ order' = [order EXCEPT ![o] = "REFUNDED"]
    BY <1>6 DEF RecordRefund, ProcessRefundSuccessTx, dbVars
  <2> QED
    BY <1>3, <2>1
<1>7. CASE AbandonRefund(r, o)
  BY <1>3, <1>7 DEF AbandonRefund, dbVars
<1> QED
  BY <1>2, <1>4, <1>5, <1>6, <1>7 DEF Refund

(* Every step keeps the refunds in line with orders and payments.          *)
LEMMA PayStepRefunds ==
  ASSUME DbTypeOK, PayTypeOK, RowTxns, PageShape, RefundShape, RefundsMatch,
         [PayNext]_vars
  PROVE  RowTxns' /\ RefundShape' /\ RefundsMatch'
<1>1. [DbNext]_dbVars
  BY PayStepIsDbStep
<1>2. MoneyBackEndsOrder /\ RefundedPaid /\ PaymentsMatch
  BY RefundsMatchParts
<1>3. RowTxns' /\ PaymentsMatch'
  BY <1>1, <1>2, PaymentMoves
<1>4. RefundShape' /\ MoneyBackEndsOrder' /\ RefundedPaid'
  <2>1. CASE \E r \in Refunder, o \in Order : Refund(r, o)
    BY <1>1, <1>2, <2>1, RefundStepKeepsShape
  <2>2. CASE /\ UNCHANGED <<step, refunds>>
             /\ \/ \E o \in Order : OrderTx(o)
                \/ PaymentStep
                \/ UNCHANGED dbVars
    <3>1. \A o \in Order : order'[o] = "REFUNDED" => order[o] = "REFUNDED"
      BY <2>2, OthersDoNotRefund
    <3>2. \A o \in Order : order[o] \in {"REFUNDING", "REFUNDED"} =>
                              order'[o] \in {"REFUNDING", "REFUNDED"}
      BY <1>1, OrderMoves
    <3> QED
      BY <1>2, <2>2, <3>1, <3>2
         DEF RefundShape, MoneyBackEndsOrder, RefundedPaid
  <2> QED
    BY <2>1, <2>2, PayStepTx
<1> QED
  BY <1>3, <1>4 DEF RefundsMatch, RefundedPaid, PaymentsMatch

-----------------------------------------------------------------------------
(* Payments and their pages.  A payment without a row gets one when its    *)
(* request commits, or when a gateway that runs ahead reports it.          *)
LEMMA MovePaymentsMakesNoRow ==
  ASSUME DbTypeOK, NEW o \in Order, NEW from, NEW to, "none" \notin from,
         MovePayments(o, from, to), NEW p \in Payment, HasRow(p)'
  PROVE  HasRow(p)
BY DEF MovePayments, HasRow

(* A row of payments appears only in CreatePaymentAndMarkPending.          *)
LEMMA RowMoves ==
  ASSUME DbTypeOK, PayTypeOK, PageShape, [PayNext]_vars,
         NEW p \in Payment, HasRow(p)'
  PROVE  \/ FromRow(p)
         \/ /\ initiating[p] = "checked"
            /\ CreatePaymentAndMarkPending(p)
<1> USE DEF FromRow
<1>1. ASSUME NEW o \in Order, ProcessOrderCancellationTx(o)
      PROVE  HasRow(p)
  <2>1. MovePayments(o, {"PENDING"}, "FAILED")
    BY <1>1 DEF ProcessOrderCancellationTx
  <2>2. "none" \notin {"PENDING"}
    OBVIOUS
  <2> QED
    BY <2>1, <2>2, MovePaymentsMakesNoRow
<1>2. ASSUME NEW o \in Order, ProcessRefundSuccessTx(o)
      PROVE  HasRow(p)
  <2>1. MovePayments(o, PaymentStatus \ {"none"}, "REFUNDED")
    BY <1>2 DEF ProcessRefundSuccessTx
  <2> QED
    BY <2>1, MovePaymentsMakesNoRow
<1>3. payment' = payment => HasRow(p)
  BY DEF HasRow
<1>4. ASSUME NEW r \in Refunder, NEW o \in Order, Refund(r, o)
      PROVE  HasRow(p)
  <2>1. payment' = payment \/ ProcessRefundSuccessTx(o)
    BY <1>4 DEF Refund, ListOrder, MarkRefunding, MarkOrderRefundingTx,
                RefundPayment, RecordRefund, AbandonRefund, dbVars
  <2> QED
    BY <1>2, <1>3, <2>1
<1>5. ASSUME NEW o \in Order, OrderTx(o)
      PROVE  HasRow(p)
  <2>1. payment' = payment \/ ProcessOrderCancellationTx(o)
    BY <1>5 DEF OrderTx, HoldTx, CountQuota, CommitHold, RollbackHold,
                ReleaseHold, CancelHold, IssueTicketsTx, tables
  <2> QED
    BY <1>1, <1>3, <2>1
<1>6. ASSUME NEW q \in Payment, p # q, PaymentTx(q)
      PROVE  HasRow(p)
  BY <1>6 DEF PaymentTx, CreatePaymentAndMarkPending, HasRow,
              ProcessPaymentSuccessTx, ProcessPaymentFailedTx, DbTypeOK
<1>7. CASE PaymentStep
  BY <1>6, <1>7, KnownTxns
     DEF PaymentStep, RecordTx, PaymentTx, StartPayment
<1>8. CASE UNCHANGED dbVars
  BY <1>3, <1>8 DEF dbVars
<1> QED
  BY <1>4, <1>5, <1>7, <1>8, PayStepTx

(* A page that can be paid belongs to the initiation that asked for it.    *)
LEMMA PayStepPages ==
  ASSUME DbTypeOK, PayTypeOK, PayTypeOK', RowTxns, PaymentsMatch, PageShape,
         [PayNext]_vars
  PROVE  PageShape'
<1>0. [DbNext]_dbVars
  BY PayStepIsDbStep
<1>1. \A p \in Payment : HasRow(p) => HasRow(p)'
  BY <1>0, PaymentMoves
<1>2. \A p \in Payment : FromRow(p) => FromRow(p)'
  BY <1>1 DEF FromRow
<1>3. \A o \in Order : order[o] \notin {"none", "HELD"} =>
                          order'[o] \notin {"none", "HELD"}
  BY <1>0, OrderMoves
<1>4. ASSUME NEW p \in Payment, HasRow(p)', p \notin Early
      PROVE  order'[PayFor[p]] \notin {"none", "HELD"}
  <2>1. PayFor[p] \in Order
    BY ConstantTypes
  <2>2. CASE HasRow(p)
    BY <1>3, <1>4, <2>1, <2>2 DEF PageShape
  <2>3. CASE CreatePaymentAndMarkPending(p)
    BY <2>1, <2>3 DEF CreatePaymentAndMarkPending, DbTypeOK
  <2> QED
    BY <1>4, <2>2, <2>3, RowMoves DEF FromRow
<1> DEFINE Pages ==
      /\ \A p \in url : HasRow(p)
      /\ \A cb \in callbacks \cup asked : FromRow(cb.payment)
      /\ \A p \in replayed : inbox[p].state # "none"
      /\ \A p \in Payment :
            /\ inbox[p].state # "none" => FromRow(p)
            /\ initiating[p] # "idle" => p \notin Early
<1>5. /\ Pages
      /\ url \subseteq Payment /\ replayed \subseteq Payment
      /\ saving \subseteq callbacks
      /\ \A cb \in callbacks \cup asked : cb.payment \in Payment
      /\ initiating \in [Payment -> {"idle", "checked", "done"}]
      /\ inbox \in [Payment -> [state : {"none", "waiting", "processed"},
                                status : {"SUCCEEDED", "FAILED"},
                                attempts : 0..MaxAttempts]]
  BY DEF PageShape, PayTypeOK, Callbacks
<1> USE <1>1, <1>2, <1>5
<1>6. ASSUME UNCHANGED <<url, callbacks, inbox, replayed, initiating>>,
             \A a \in asked' : a \in asked \/ FromRow(a.payment)'
      PROVE  Pages'
  BY <1>6
<1>7. ASSUME NEW o \in Order, Sale(o) \/ GrowOld(o) \/ AskGateway(o)
      PROVE  Pages'
  <2>1. UNCHANGED <<url, callbacks, inbox, replayed, initiating>>
    BY <1>7 DEF Sale, GrowOld, AskGateway, ReconcileUnchanged, payVars
  <2>2. \A a \in asked' : a \in asked \/ FromRow(a.payment)'
    <3>1. CASE AskGateway(o)
      BY <3>1 DEF AskGateway, PaymentOf, PaymentsOf, Callback, HasRow,
                  FromRow, dbVars
    <3>2. CASE asked' = asked
      BY <3>2
    <3> QED
      BY <1>7, <3>1, <3>2 DEF Sale, GrowOld, payVars
  <2> QED
    BY <1>6, <2>1, <2>2
<1>8. ASSUME NEW p \in Payment, Checkout(p)
      PROVE  Pages'
  <2>1. CASE CheckOrder(p) \/ StartPayment(p)
    <3>1. UNCHANGED <<callbacks, asked, inbox, replayed>>
      BY <2>1 DEF CheckOrder, StartPayment, RestUnchanged
    <3>2. /\ p \notin Early
          /\ initiating' \in {[initiating EXCEPT ![p] = "checked"],
                              [initiating EXCEPT ![p] = "done"]}
      BY <2>1 DEF CheckOrder, StartPayment
    <3>3. \/ url' = url
          \/ url' = url \cup {p} /\ HasRow(p)'
      <4>1. CreatePaymentAndMarkPending(p) => HasRow(p)'
        BY DEF CreatePaymentAndMarkPending, HasRow, PaymentRow, DbTypeOK
      <4> QED
        BY <2>1, <4>1 DEF CheckOrder, StartPayment
    <3> QED
      BY <3>1, <3>2, <3>3
  <2>2. CASE ResumePayment(p)
    BY <2>2 DEF ResumePayment, RestUnchanged, HasRow, dbVars
  <2>3. CASE Pay(p)
    <3>1. FromRow(p)
      BY <2>3 DEF Pay, FromRow
    <3>2. \A cb \in callbacks' : cb \in callbacks \/ cb.payment = p
      BY <2>3 DEF Pay, Callback
    <3> QED
      BY <2>3, <3>1, <3>2 DEF Pay
  <2>4. CASE ReplayApply(p) \/ MarkPaymentInboxProcessed(p)
    <3>1. UNCHANGED <<url, callbacks, asked, initiating>>
      BY <2>4 DEF ReplayApply, MarkPaymentInboxProcessed, ReplayUnchanged
    <3>2. /\ inbox[p].state # "none"
          /\ replayed' \subseteq replayed \cup {p}
      BY <2>4 DEF ReplayApply, MarkPaymentInboxProcessed, Pending
    <3>3. \A q \in Payment : inbox'[q].state = "none" <=>
                                inbox[q].state = "none"
      BY <2>4, <3>2 DEF ReplayApply, MarkPaymentInboxProcessed
    <3> QED
      BY <3>1, <3>2, <3>3
  <2> QED
    BY <1>8, <2>1, <2>2, <2>3, <2>4 DEF Checkout
<1>9. ASSUME NEW cb \in callbacks \cup saving, Webhook(cb)
      PROVE  Pages'
  <2>1. UNCHANGED <<url, callbacks, asked, replayed, initiating>>
    BY <1>9 DEF Webhook, WebhookRecorded, WebhookEarly, SavePaymentInbox,
                WebhookUnchanged
  <2>2. \A p \in Payment :
           \/ inbox'[p] = inbox[p]
           \/ p = cb.payment /\ inbox'[p].state # "none"
    <3>1. InboxRow("waiting", cb.status).state # "none"
      BY DEF InboxRow
    <3> QED
      BY <1>9, <3>1 DEF Webhook, WebhookRecorded, WebhookEarly,
                        SavePaymentInbox
  <2> QED
    BY <2>1, <2>2
<1>10. ASSUME NEW a \in asked, ApplyAnswer(a) \/ DropAnswer(a)
       PROVE  Pages'
  BY <1>10 DEF ApplyAnswer, DropAnswer, ReconcileUnchanged
<1>11. ASSUME NEW r \in Refunder, NEW o \in Order, Refund(r, o)
       PROVE  Pages'
  <2>1. UNCHANGED <<url, callbacks, inbox, replayed, initiating, asked>>
    BY <1>11 DEF Refund, ListOrder, MarkRefunding, RefundPayment,
                 RecordRefund, AbandonRefund, RefundUnchanged
  <2> QED
    BY <1>6, <2>1
<1>12. CASE Deploy \/ UNCHANGED vars
  <2>1. UNCHANGED <<url, callbacks, inbox, replayed, initiating, asked>>
    BY <1>12 DEF Deploy, vars, payVars
  <2>2. Pages'
    BY <1>6, <2>1
  <2> QED
    BY <1>4, <2>2 DEF PageShape
<1>13. Pages' \/ Deploy \/ UNCHANGED vars
  BY <1>7, <1>8, <1>9, <1>10, <1>11 DEF PayNext
<1> QED
  BY <1>4, <1>12, <1>13 DEF PageShape

-----------------------------------------------------------------------------
(* The invariant of the service, whatever its gateways do.                 *)
LEMMA PayInitially == PayInit => PayInv
<1> SUFFICES ASSUME PayInit PROVE PayInv
  OBVIOUS
<1>1. DbInv
  BY DbInitInv DEF PayInit
<1>2. PayTypeOK
  <2>1. NoRow \in [state : {"none", "waiting", "processed"},
                   status : {"SUCCEEDED", "FAILED"},
                   attempts : 0..MaxAttempts]
    BY PaymentFlowAssumption DEF NoRow, InboxRow
  <2>2. Idle \in [at : {"idle", "listed", "marked", "refunded"},
                  by : Gateways]
    BY PaymentFlowAssumption DEF Idle
  <2> QED
    BY <1>1, <2>1, <2>2 DEF PayInit, PayTypeOK, DbInv, StockInv
<1>3. RowTxns /\ RefundShape /\ RefundsMatch /\ PageShape
  BY ConstantTypes
     DEF PayInit, DbInit, RowTxns, RefundShape, RefundsMatch, PageShape,
         MoneyBackEndsOrder, NoPayment, PaymentRow, HasRow, NoRow, InboxRow,
         Idle
<1> QED
  BY <1>1, <1>2, <1>3 DEF PayInv

(* The invariant is inductive, and every step is one of the tables.        *)
LEMMA PayStep ==
  ASSUME PayInv, [PayNext]_vars
  PROVE  PayInv' /\ [DbNext]_dbVars
<1>0. /\ DbInv /\ PayTypeOK /\ RowTxns /\ RefundShape /\ RefundsMatch
      /\ PageShape /\ DbTypeOK /\ PaymentsMatch
  BY RefundsMatchParts DEF PayInv, DbInv, StockInv
<1>1. [DbNext]_dbVars
  BY <1>0, PayStepIsDbStep
<1>2. DbInv' /\ DbTypeOK'
  BY <1>0, <1>1, DbStepKeepsInv DEF DbInv, StockInv
<1>3. PayTypeOK'
  BY <1>0, <1>2, PayStepTypes
<1>4. RowTxns' /\ RefundShape' /\ RefundsMatch'
  BY <1>0, PayStepRefunds
<1>5. PageShape'
  BY <1>0, <1>3, PayStepPages
<1> QED
  BY <1>1, <1>2, <1>3, <1>4, <1>5 DEF PayInv

(* Through initiations, callbacks, reconciliation, replays and refunds in  *)
(* any order, PayInv holds: types, rows that keep their transaction id,    *)
(* refunds that match, pages that belong to their initiation.              *)
THEOREM PayInvariant == PaySpec => []PayInv
<1>1. PayInit => PayInv
  BY PayInitially
<1>2. PayInv /\ [PayNext]_vars => PayInv'
  BY PayStep
<1> QED
  BY <1>1, <1>2, PTL DEF PaySpec

(* Rows, callbacks and the gateways' answers keep their types.             *)
THEOREM PayTypes == PaySpec => []PayTypeOK
<1>1. PayInv => PayTypeOK
  BY DEF PayInv
<1> QED
  BY <1>1, PayInvariant, PTL

(* The payment service touches the tables by its transactions only, so all *)
(* that is proved of SaleDatabase holds while it runs.                     *)
THEOREM PaymentImplementsDb == PaySpec => DbSpec
<1>1. PayInit => DbInit
  BY DEF PayInit
<1>2. PayInv /\ [PayNext]_vars => [DbNext]_dbVars
  BY PayStep
<1> QED
  BY <1>1, <1>2, PayInvariant, PTL DEF PaySpec, DbSpec

(* Money goes back only for orders that say so, and an order says REFUNDED *)
(* only when a gateway paid, however many refunds of however many orders   *)
(* overlap, are refused, crash or are repeated.                            *)
THEOREM RefundsMatchOrders == PaySpec => []RefundsMatch
<1>1. PayInv => RefundsMatch
  BY DEF PayInv
<1> QED
  BY <1>1, PayInvariant, PTL

-----------------------------------------------------------------------------
(* One page to pay on.  A gateway that runs ahead of the tables reports on *)
(* the one payment of its order: EarlyAlone.                               *)
EarlyAlone ==
    \A p \in Early, q \in Payment : PayFor[p] = PayFor[q] => p = q

(* A second row of payments for an order would need it to be HELD again.   *)
LEMMA PayStepOneRow ==
  ASSUME EarlyAlone, PayInv, OneRow, [PayNext]_vars
  PROVE  OneRow'
<1>0. DbTypeOK /\ PayTypeOK /\ PageShape
  BY DEF PayInv, DbInv, StockInv
<1> SUFFICES ASSUME NEW p \in Payment, NEW q \in Payment,
                    HasRow(p)', HasRow(q)', PayFor[p] = PayFor[q]
             PROVE  p = q
  BY DEF OneRow
<1>1. CASE p \in Early \/ q \in Early
  BY <1>1 DEF EarlyAlone
<1>2. CASE HasRow(p) /\ HasRow(q)
  BY <1>2 DEF OneRow
<1>3. ASSUME NEW u \in Payment, NEW v \in Payment, PayFor[u] = PayFor[v],
             u \notin Early, v \notin Early, HasRow(u),
             CreatePaymentAndMarkPending(v)
      PROVE  FALSE
  BY <1>0, <1>3 DEF CreatePaymentAndMarkPending, PageShape
<1>4. ASSUME CreatePaymentAndMarkPending(p), CreatePaymentAndMarkPending(q)
      PROVE  p = q
  <2>1. payment'[p] # payment[p] /\ payment'[q] # payment[q]
    BY <1>4, HasRow(p)', HasRow(q)'
       DEF CreatePaymentAndMarkPending, HasRow
  <2>2. payment' = [payment EXCEPT ![p] = PaymentRow("PENDING", "initiated")]
    BY <1>4 DEF CreatePaymentAndMarkPending
  <2> QED
    BY <2>1, <2>2
<1> QED
  BY <1>0, <1>1, <1>2, <1>3, <1>4, RowMoves DEF FromRow

(* However many requests start a payment for one order, and whatever       *)
(* gateways, tickers and refunds do meanwhile, customers get one page.     *)
THEOREM OnePageToPay ==
  ASSUME EarlyAlone
  PROVE  PaySpec => []OnePayable
<1>1. PayInit => OneRow
  BY DEF PayInit, DbInit, OneRow, HasRow, NoPayment, PaymentRow
<1>2. PayInv /\ OneRow /\ [PayNext]_vars => OneRow'
  BY PayStepOneRow
<1>3. PayInv /\ OneRow => OnePayable
  BY DEF PayInv, PayTypeOK, PageShape, OneRow, OnePayable
<1> QED
  BY <1>1, <1>2, <1>3, PayInvariant, PTL DEF PaySpec

-----------------------------------------------------------------------------
(* What was answered 200.                                                  *)
LEMMA PayStepInbox ==
  ASSUME PayInv, InboxShape, [PayNext]_vars
  PROVE  InboxShape'
<1>0. /\ PageShape /\ PayTypeOK /\ saving \subseteq callbacks
      /\ \A cb \in callbacks : cb.payment \in Payment
      /\ inbox \in [Payment -> [state : {"none", "waiting", "processed"},
                                status : {"SUCCEEDED", "FAILED"},
                                attempts : 0..MaxAttempts]]
  BY DEF PayInv, PayTypeOK, Callbacks
<1> USE <1>0 DEF InboxShape
<1>1. ASSUME UNCHANGED <<saving, inbox>>
      PROVE  InboxShape'
  BY <1>1 DEF NoRow, InboxRow
<1>2. ASSUME NEW p \in Payment, ReplayApply(p) \/ MarkPaymentInboxProcessed(p)
      PROVE  InboxShape'
  <2>1. UNCHANGED saving
    BY <1>2 DEF ReplayApply, MarkPaymentInboxProcessed, ReplayUnchanged
  <2>2. /\ inbox[p].state # "none"
        /\ \/ inbox' = inbox
           \/ inbox' = [inbox EXCEPT ![p].attempts = @ + 1]
           \/ inbox' = [inbox EXCEPT ![p].state = "processed"]
    BY <1>2 DEF ReplayApply, MarkPaymentInboxProcessed, Pending, PageShape
  <2>3. \A q \in Payment : \/ inbox'[q] = inbox[q]
                           \/ /\ inbox[q].state # "none"
                              /\ inbox'[q].state # "none"
                              /\ inbox'[q].status = inbox[q].status
    BY <2>2
  <2> QED
    BY <2>1, <2>3 DEF NoRow, InboxRow
<1>3. ASSUME NEW cb \in callbacks \cup saving, Webhook(cb)
      PROVE  InboxShape'
  <2>1. CASE WebhookRecorded(cb)
    BY <1>1, <2>1 DEF WebhookRecorded
  <2>2. CASE WebhookEarly(cb)
    BY <2>2 DEF WebhookEarly, NoRow, InboxRow
  <2>3. CASE SavePaymentInbox(cb)
    <3>1. cb.status = "SUCCEEDED" /\ saving' \subseteq saving
      BY <2>3 DEF SavePaymentInbox
    <3>2. /\ InboxRow("waiting", cb.status).state # "none"
          /\ InboxRow("waiting", cb.status).status = cb.status
      BY DEF InboxRow
    <3>3. \A q \in Payment : \/ inbox'[q] = inbox[q]
                             \/ /\ inbox'[q].state # "none"
                                /\ inbox'[q].status = cb.status
      BY <2>3, <3>2 DEF SavePaymentInbox
    <3>4. NoRow' = NoRow
      BY DEF NoRow, InboxRow
    <3> QED
      BY <3>1, <3>3, <3>4
  <2> QED
    BY <1>3, <2>1, <2>2, <2>3 DEF Webhook
<1>4. ASSUME \/ \E o \in Order : Sale(o) \/ GrowOld(o) \/ AskGateway(o)
             \/ \E p \in Payment : \/ CheckOrder(p) \/ StartPayment(p)
                                   \/ ResumePayment(p) \/ Pay(p)
             \/ \E a \in asked : ApplyAnswer(a) \/ DropAnswer(a)
             \/ \E r \in Refunder, o \in Order : Refund(r, o)
             \/ Deploy \/ UNCHANGED vars
      PROVE  UNCHANGED <<saving, inbox>>
  BY <1>4 DEF Sale, GrowOld, AskGateway, ReconcileUnchanged, CheckOrder,
              StartPayment, ResumePayment, RestUnchanged, Pay, ApplyAnswer,
              DropAnswer, Refund, ListOrder, MarkRefunding, RefundPayment,
              RecordRefund, AbandonRefund, RefundUnchanged, Deploy, vars,
              payVars
<1> QED
  BY <1>1, <1>2, <1>3, <1>4 DEF PayNext, Checkout

(* What is in the inbox stays there, under its verdict.                    *)
LEMMA InboxKeeps ==
  ASSUME PayTypeOK, PageShape, [PayNext]_vars, NEW p \in Payment,
         inbox[p].state # "none"
  PROVE  inbox'[p].state # "none" /\ inbox'[p].status = inbox[p].status
<1>0. inbox \in [Payment -> [state : {"none", "waiting", "processed"},
                             status : {"SUCCEEDED", "FAILED"},
                             attempts : 0..MaxAttempts]]
  BY DEF PayTypeOK
<1>1. ASSUME NEW q \in Payment, ReplayApply(q) \/ MarkPaymentInboxProcessed(q)
      PROVE  \/ inbox' = inbox
             \/ inbox' = [inbox EXCEPT ![q].attempts = @ + 1]
             \/ inbox' = [inbox EXCEPT ![q].state = "processed"]
  BY <1>1 DEF ReplayApply, MarkPaymentInboxProcessed
<1>2. ASSUME NEW cb \in callbacks \cup saving, Webhook(cb)
      PROVE  inbox'[p] = inbox[p]
  <2>1. cb.payment \in Payment
    BY DEF PayTypeOK, Callbacks
  <2>2. inbox[p] # NoRow
    BY DEF NoRow, InboxRow
  <2> QED
    BY <1>0, <1>2, <2>1, <2>2
       DEF Webhook, WebhookRecorded, WebhookEarly, SavePaymentInbox
<1>3. ASSUME \/ \E o \in Order : Sale(o) \/ GrowOld(o) \/ AskGateway(o)
             \/ \E q \in Payment : \/ CheckOrder(q) \/ StartPayment(q)
                                   \/ ResumePayment(q) \/ Pay(q)
             \/ \E a \in asked : ApplyAnswer(a) \/ DropAnswer(a)
             \/ \E r \in Refunder, o \in Order : Refund(r, o)
             \/ Deploy \/ UNCHANGED vars
      PROVE  inbox' = inbox
  BY <1>3 DEF Sale, GrowOld, AskGateway, ReconcileUnchanged, CheckOrder,
              StartPayment, ResumePayment, RestUnchanged, Pay, ApplyAnswer,
              DropAnswer, Refund, ListOrder, MarkRefunding, RefundPayment,
              RecordRefund, AbandonRefund, RefundUnchanged, Deploy, vars,
              payVars
<1> QED
  BY <1>0, <1>1, <1>2, <1>3 DEF PayNext, Checkout

(* A callback is acknowledged after its success is in a table, and no later*)
(* step takes it out.                                                      *)
LEMMA PayStepAcked ==
  ASSUME PayInv, InboxShape, AckedIsRecorded, [PayNext]_vars
  PROVE  AckedIsRecorded'
<1>0. /\ DbTypeOK /\ PayTypeOK /\ PageShape /\ PaymentsMatch
      /\ acked \subseteq callbacks /\ saving \subseteq callbacks
      /\ \A cb \in callbacks :
            /\ cb.payment \in Payment /\ PayFor[cb.payment] \in Order
            /\ cb.txn \in Txn \ {"none"}
  BY RefundsMatchParts, ConstantTypes
     DEF PayInv, DbInv, StockInv, PayTypeOK, Callbacks
<1>1. [DbNext]_dbVars
  BY PayStep
<1>2. ASSUME NEW cb \in callbacks, Recorded(cb.payment)
      PROVE  Recorded(cb.payment)'
  BY <1>0, <1>1, <1>2, OrderMoves, InboxKeeps DEF Recorded
<1>3. ASSUME NEW cb \in callbacks, cb.status = "SUCCEEDED",
             WebhookRecorded(cb)
      PROVE  Recorded(cb.payment)'
  <2>1. CASE ProcessPaymentSuccessTx(cb.payment, cb.txn)
    <3>1. order'[PayFor[cb.payment]] = "PAID"
      BY <1>0, <2>1 DEF ProcessPaymentSuccessTx, DbTypeOK
    <3> QED
      BY <3>1 DEF Recorded, SettledOrderStatuses
  <2>2. CASE SuccessKnown(cb.payment, cb.txn) /\ UNCHANGED dbVars
    <3>1. order[PayFor[cb.payment]] \in SettledOrderStatuses
      BY <1>0, <2>2 DEF SuccessKnown, PaymentsMatch, PaymentRow,
                        SettledOrderStatuses
    <3> QED
      BY <1>0, <1>1, <3>1, OrderMoves DEF Recorded
  <2> QED
    BY <1>3, <2>1, <2>2 DEF WebhookRecorded, Record
<1>4. ASSUME NEW cb \in saving, cb.status = "SUCCEEDED",
             SavePaymentInbox(cb), acked' # acked
      PROVE  Recorded(cb.payment)'
  <2>1. inbox' = [inbox EXCEPT ![cb.payment] =
                     IF @ = NoRow THEN InboxRow("waiting", cb.status) ELSE @]
    BY <1>4 DEF SavePaymentInbox
  <2>2. inbox \in [Payment -> [state : {"none", "waiting", "processed"},
                               status : {"SUCCEEDED", "FAILED"},
                               attempts : 0..MaxAttempts]]
    BY <1>0 DEF PayTypeOK
  <2>3. CASE inbox[cb.payment] = NoRow
    BY <1>0, <1>4, <2>1, <2>2, <2>3 DEF Recorded, InboxRow
  <2>4. CASE inbox[cb.payment] # NoRow
    <3>1. /\ inbox[cb.payment].state # "none"
          /\ inbox[cb.payment].status = "SUCCEEDED"
      BY <1>0, <2>4 DEF InboxShape
    <3>2. inbox'[cb.payment] = inbox[cb.payment]
      BY <1>0, <2>1, <2>2, <2>4
    <3> QED
      BY <3>1, <3>2 DEF Recorded
  <2> QED
    BY <2>3, <2>4
<1>5. acked' = acked \/ \E cb \in callbacks \cup saving :
         /\ cb.status = "SUCCEEDED" /\ acked' = acked \cup {cb}
         /\ WebhookRecorded(cb) \/ SavePaymentInbox(cb)
  <2>1. ASSUME NEW cb \in callbacks \cup saving, Webhook(cb), acked' # acked
        PROVE  /\ cb.status = "SUCCEEDED" /\ acked' = acked \cup {cb}
               /\ WebhookRecorded(cb) \/ SavePaymentInbox(cb)
    BY <2>1 DEF Webhook, WebhookRecorded, WebhookEarly, SavePaymentInbox,
                Answered
  <2>2. ASSUME ~ \E cb \in callbacks \cup saving : Webhook(cb)
        PROVE  acked' = acked
    BY <2>2
       DEF PayNext, Checkout, Sale, GrowOld, AskGateway, ReconcileUnchanged,
           CheckOrder, StartPayment, ResumePayment, RestUnchanged, Pay,
           ReplayApply, MarkPaymentInboxProcessed, ReplayUnchanged,
           ApplyAnswer, DropAnswer, Refund, ListOrder, MarkRefunding,
           RefundPayment, RecordRefund, AbandonRefund, RefundUnchanged,
           Deploy, vars, payVars
  <2> QED
    BY <2>1, <2>2
<1>6. ASSUME NEW cb \in acked'
      PROVE  Recorded(cb.payment)'
  <2>1. CASE cb \in acked
    BY <1>0, <1>2, <2>1 DEF AckedIsRecorded
  <2>2. CASE cb \notin acked
    BY <1>0, <1>3, <1>4, <1>5, <2>2 DEF SavePaymentInbox
  <2> QED
    BY <2>1, <2>2
<1> QED
  BY <1>6 DEF AckedIsRecorded

(* A gateway that was answered 200 for a success has its report in the     *)
(* tables or in the inbox, for any gateways that report before the order   *)
(* exists, any that let a declined card try again, and those that do both. *)
THEOREM AcksAreKept == PaySpec => []AckedIsRecorded
<1>1. PayInit => InboxShape /\ AckedIsRecorded
  BY DEF PayInit, InboxShape, AckedIsRecorded, NoRow, InboxRow
<1>2. PayInv /\ InboxShape /\ AckedIsRecorded /\ [PayNext]_vars
        => InboxShape' /\ AckedIsRecorded'
  BY PayStepInbox, PayStepAcked
<1> QED
  BY <1>1, <1>2, PayInvariant, PTL DEF PaySpec
-----------------------------------------------------------------------------
(* One charge.  A gateway charges on a page only, or ahead of the tables.  *)
ChargedOnPage ==
    \A p \in Payment : session[p] # "open" => p \in url \cup Early

(* Pages and early gateways stay.                                          *)
LEMMA PayStepCharges ==
  ASSUME PayTypeOK, ChargedOnPage, [PayNext]_vars
  PROVE  ChargedOnPage'
<1> USE DEF ChargedOnPage
<1>0. session \in [Payment -> {"open", "charged", "declined"}]
  BY DEF PayTypeOK
<1>1. ASSUME UNCHANGED session, url \subseteq url'
      PROVE  ChargedOnPage'
  BY <1>1
<1>2. ASSUME NEW p \in Payment, Checkout(p)
      PROVE  ChargedOnPage'
  <2>1. CASE Pay(p)
    <3>1. /\ p \in url \cup Early /\ url' = url
          /\ \E result : session' = [session EXCEPT ![p] = result]
      BY <2>1 DEF Pay
    <3> QED
      BY <1>0, <3>1
  <2>2. CASE CheckOrder(p) \/ StartPayment(p) \/ ResumePayment(p)
    BY <1>1, <2>2 DEF CheckOrder, StartPayment, ResumePayment, RestUnchanged
  <2>3. CASE ReplayApply(p) \/ MarkPaymentInboxProcessed(p)
    BY <1>1, <2>3 DEF ReplayApply, MarkPaymentInboxProcessed, ReplayUnchanged
  <2> QED
    BY <1>2, <2>1, <2>2, <2>3 DEF Checkout
<1>3. ASSUME \/ \E o \in Order : Sale(o) \/ GrowOld(o) \/ AskGateway(o)
             \/ \E cb \in callbacks \cup saving : Webhook(cb)
             \/ \E a \in asked : ApplyAnswer(a) \/ DropAnswer(a)
             \/ \E r \in Refunder, o \in Order : Refund(r, o)
             \/ Deploy \/ UNCHANGED vars
      PROVE  UNCHANGED <<session, url>>
  BY <1>3 DEF Sale, GrowOld, AskGateway, ReconcileUnchanged, ApplyAnswer,
              DropAnswer, Webhook, WebhookRecorded, WebhookEarly,
              SavePaymentInbox, WebhookUnchanged, Refund, ListOrder,
              MarkRefunding, RefundPayment, RecordRefund, AbandonRefund,
              RefundUnchanged, Deploy, vars, payVars
<1> QED
  BY <1>1, <1>2, <1>3 DEF PayNext

(* Nobody is charged by two gateways, or twice by one, for one order:      *)
(* what OnePayable is for (initiate_payment.go, repository.go of payment). *)
ChargedOnce ==
    \A p, q \in Payment :
        session[p] = "charged" /\ session[q] = "charged"
              /\ PayFor[p] = PayFor[q]
            => p = q

(* However many requests start and resume payments of an order, and        *)
(* whatever becomes of their answers, one payment of it is charged.        *)
THEOREM OneCharge ==
  ASSUME EarlyAlone
  PROVE  PaySpec => []ChargedOnce
<1>1. PayInit => ChargedOnPage
  BY DEF PayInit, ChargedOnPage
<1>2. PayTypeOK /\ ChargedOnPage /\ [PayNext]_vars => ChargedOnPage'
  BY PayStepCharges
<1>3. ChargedOnPage /\ OnePayable => ChargedOnce
  BY DEF ChargedOnPage, OnePayable, EarlyAlone, ChargedOnce
<1> QED
  BY <1>1, <1>2, <1>3, PayTypes, OnePageToPay, PTL DEF PaySpec

-----------------------------------------------------------------------------
(* One refund.  Where every payment is of one provider that derives the    *)
(* refund's id from the order's, repeated and overlapping refunds of an    *)
(* order are one refund to it.                                             *)
OneKeyedProvider ==
    /\ Default \in {"stripe", "sandbox"}
    /\ \A p \in Payment : Gateway[p] = Default

OfTheOrder == [by |-> Default, id |-> "of order"]
SameProvider ==
    /\ \A r \in Refunder, o \in Order : step[<<r, o>>].by = Default
    /\ \A o \in Order : refunds[o] \subseteq {OfTheOrder}

(* No refunder turns to another provider, or another key, midway.          *)
LEMMA PayStepSameProvider ==
  ASSUME OneKeyedProvider, PayInv, SameProvider, [PayNext]_vars
  PROVE  SameProvider'
<1>0. /\ PayTypeOK /\ PageShape
      /\ DOMAIN refunds = Order /\ DOMAIN step = Refunder \X Order
  BY DEF PayInv, RefundShape, PayTypeOK
<1> USE DEF SameProvider
<1>1. ASSUME UNCHANGED <<step, refunds>>
      PROVE  SameProvider'
  BY <1>1
<1>2. ASSUME NEW r \in Refunder, NEW o \in Order, Refund(r, o)
      PROVE  SameProvider'
  <2>0. ASSUME NEW where,
               step' = [step EXCEPT ![<<r, o>>] =
                          [at |-> where, by |-> Default]]
        PROVE  \A x \in Refunder, y \in Order : step'[<<x, y>>].by = Default
    BY <1>0, <2>0
  <2>1. ASSUME NEW where, At(r, o, where)
        PROVE  \A x \in Refunder, y \in Order : step'[<<x, y>>].by = Default
    BY <2>0, <2>1 DEF At
  <2>2. CASE ListOrder(r, o)
    <3>1. \A g \in GatewaysOf(o) : g = Default
      BY DEF GatewaysOf, OneKeyedProvider, PaymentsOf
    <3>2. UNCHANGED refunds
      BY <2>2 DEF ListOrder
    <3>3. \E where : step' = [step EXCEPT ![<<r, o>>] =
                                [at |-> where, by |-> Default]]
      BY <2>2, <3>1 DEF ListOrder
    <3> QED
      BY <2>0, <3>2, <3>3
  <2>3. CASE MarkRefunding(r, o) \/ RecordRefund(r, o) \/ AbandonRefund(r, o)
    BY <2>1, <2>3 DEF MarkRefunding, RecordRefund, AbandonRefund
  <2>4. CASE RefundPayment(r, o)
    <3>1. CASE At(r, o, AfterRefusal) /\ UNCHANGED refunds
      BY <2>1, <3>1
    <3>2. ASSUME NEW id \in Refunds(step[<<r, o>>].by, o),
                 refunds' = [refunds EXCEPT ![o] = @ \cup {id}],
                 At(r, o, "refunded")
          PROVE  SameProvider'
      <4>1. id = OfTheOrder
        BY DEF Refunds, KeyedRefund, OneKeyedProvider, OfTheOrder
      <4>2. \A y \in Order : refunds'[y] \subseteq {OfTheOrder}
        BY <1>0, <3>2, <4>1
      <4> QED
        BY <2>1, <3>2, <4>2
    <3> QED
      BY <2>4, <3>1, <3>2 DEF RefundPayment
  <2> QED
    BY <1>2, <2>2, <2>3, <2>4 DEF Refund
<1> QED
  BY <1>0, <1>1, <1>2, PayStepTx

(* refund_event.go:41 for such a deployment: an order is refunded once,    *)
(* whatever crash or retry falls between the gateway's refund and its      *)
(* record, and however many refunds of the event run.                      *)
THEOREM RefundsAreKeyed ==
  ASSUME OneKeyedProvider
  PROVE  PaySpec => []RefundedOnce
<1>1. PayInit => SameProvider
  BY DEF PayInit, SameProvider, Idle
<1>2. PayInv /\ SameProvider /\ [PayNext]_vars => SameProvider'
  BY PayStepSameProvider
<1>3. ASSUME SameProvider, NEW o \in Order
      PROVE  Cardinality(refunds[o]) <= 1
  <2>1. IsFiniteSet({OfTheOrder}) /\ Cardinality({OfTheOrder}) = 1
    BY FS_Singleton
  <2>2. refunds[o] \subseteq {OfTheOrder}
    BY <1>3 DEF SameProvider
  <2> QED
    BY <2>1, <2>2, FS_Subset
<1>4. SameProvider => RefundedOnce
  BY <1>3 DEF RefundedOnce
<1> QED
  BY <1>1, <1>2, <1>4, PayInvariant, PTL DEF PaySpec
=============================================================================
