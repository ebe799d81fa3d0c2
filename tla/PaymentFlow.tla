---------------------------- MODULE PaymentFlow ----------------------------
(***************************************************************************)
(* The payment service around the tables: customers start payments, the    *)
(* gateways charge them and call back (late, twice, out of order or never),*)
(* a ticker asks the gateways about orders that wait too long, another one *)
(* replays callbacks that came before their order, and operators refund an *)
(* event.  Gateways are never called inside a transaction, so each of      *)
(* these is two steps or more, and any instance may die between them.      *)
(***************************************************************************)
EXTENDS SaleDatabase

CONSTANTS
    Gateway,      \* Gateway[p]: payments.provider, one of Gateways
    Early,        \* payments whose gateway may call before the order exists
    Retried,      \* payments whose gateway lets a declined card try again
    MaxAttempts,  \* replay_inbox.go: maxAttempts
    Refunder,     \* refunds of the event that run at the same time
    Modes,        \* modes the sandbox gateway is deployed with
    Default       \* the registry's default provider

Gateways == {"vnpay", "momo", "stripe", "sandbox"}

ASSUME PaymentFlowAssumption ==
    /\ Gateway \in [Payment -> Gateways]
    /\ Default \in Gateways
    /\ Early \subseteq Payment /\ Retried \subseteq Payment
    /\ MaxAttempts \in Nat \ {0}
    /\ Modes \subseteq {"success", "fail", "delay"} /\ Modes # {}

VARIABLES
    age,         \* age[o]: hold valid, past expires_at, or 15 minutes old
    initiating,  \* initiating[p]: how far the request InitiatePayment got
    url,         \* payments whose redirect URL a customer has
    renewed,     \* sandbox payments initiated again, under a new id
    session,     \* session[p]: what the gateway did with the customer's money
    callbacks,   \* callbacks the gateways have sent and may send again
    acked,       \* callbacks of a success that were answered 200
    saving,      \* callbacks whose order was not found a moment ago
    inbox,       \* inbox[p]: the row of payment_inbox
    replayed,    \* inbox rows applied and not yet marked processed
    asked,       \* answers of gateways a reconciler is about to apply
    step,        \* step[r, o]: how far refund r got with order o, and where
    refunds,     \* refunds[o]: ids of the refunds a gateway made
    mode         \* mode of the sandbox

payVars == <<age, initiating, url, renewed, session, callbacks, acked, saving,
             inbox, replayed, asked, step, refunds, mode>>
vars == <<dbVars, payVars>>

Callback(p, status, txn) == [payment |-> p, status |-> status, txn |-> txn]
Callbacks == [payment : Payment, status : {"SUCCEEDED", "FAILED"},
              txn : Txn \ {"none"}]
InboxRow(state, status) ==
    [state |-> state, status |-> status, attempts |-> 0]
NoRow == InboxRow("none", "FAILED")

-----------------------------------------------------------------------------
(* The adapters.  All but the sandbox derive the transaction id of a       *)
(* session from the payment's id; VNPay and MoMo report another one later. *)
SandboxTxn(p) == IF p \in renewed THEN "reported" ELSE "initiated"
VNPayTxn == "reported"
MoMoTxn == "reported"
StripeTxn == "initiated"

ReportedTxn(p) ==
    CASE Gateway[p] = "sandbox" -> SandboxTxn(p)
      [] Gateway[p] = "vnpay" -> VNPayTxn
      [] Gateway[p] = "momo" -> MoMoTxn
      [] Gateway[p] = "stripe" -> StripeTxn

(* VNPay's order id is a sentence (vnp_OrderInfo) that is no uuid.         *)
NamesOrder(p) == Gateway[p] # "vnpay"

(* Only the sandbox can refuse.                                            *)
Refuses(p) == Gateway[p] = "sandbox" /\ mode = "fail"

(* QueryPayment echoes the transaction id it is asked for.                 *)
SandboxAnswer == IF mode = "fail" THEN "FAILED" ELSE "SUCCEEDED"
Answer(p) == IF Gateway[p] = "sandbox" THEN SandboxAnswer ELSE "SUCCEEDED"

(* RefundPayment: Stripe and the sandbox make the refund's id of the       *)
(* order's; VNPay and MoMo draw a new one for every call.                  *)
KeyedRefund(g, o) == {[by |-> g, id |-> "of order"]}
FreshRefund(g, o) == {[by |-> g, id |-> i] : i \in {1, 2}} \ refunds[o]

Refunds(g, o) ==
    IF g \in {"stripe", "sandbox"} THEN KeyedRefund(g, o)
                                   ELSE FreshRefund(g, o)

-----------------------------------------------------------------------------
(* The ticketing service's side of the orders.                             *)
Sale(o) ==
    /\ \/ CountQuota(o)
       \/ \E b \in Bucket : CommitHold(o, b)
       \/ RollbackHold(o)
       \/ age[o] # "fresh" /\ ReleaseHold(o)
       \/ CancelHold(o)
       \/ Msg("order.paid", o) \in outbox /\ IssueTicketsTx(o)
    /\ UNCHANGED payVars

GrowOld(o) ==
    /\ order[o] # "none"
    /\ \/ age[o] = "fresh" /\ age' = [age EXCEPT ![o] = "expired"]
       \/ age[o] = "expired" /\ age' = [age EXCEPT ![o] = "stale"]
    /\ UNCHANGED <<dbVars, initiating, url, renewed, session, callbacks, acked,
                   saving, inbox, replayed, asked, step, refunds, mode>>

Deploy ==
    /\ mode' \in Modes \ {mode}
    /\ UNCHANGED <<dbVars, age, initiating, url, renewed, session, callbacks,
                   acked, saving, inbox, replayed, asked, step, refunds>>

-----------------------------------------------------------------------------
(* InitiatePayment reads the order, asks the adapter for a session and     *)
(* then writes; the customer gets the URL if the answer arrives.           *)
RestUnchanged == UNCHANGED <<age, session, callbacks, acked, saving, inbox,
                             replayed, asked, step, refunds, mode>>

CheckOrder(p) ==
    /\ p \notin Early
    /\ initiating[p] = "idle"
    /\ order[PayFor[p]] = "HELD"
    /\ age[PayFor[p]] = "fresh"
    /\ initiating' = [initiating EXCEPT ![p] = "checked"]
    /\ UNCHANGED <<dbVars, url, renewed>> /\ RestUnchanged

StartPayment(p) ==
    /\ initiating[p] = "checked"
    /\ initiating' = [initiating EXCEPT ![p] = "done"]
    /\ \/ ~Refuses(p) /\ CreatePaymentAndMarkPending(p)
          /\ url' \in {url, url \cup {p}}
       \/ UNCHANGED <<dbVars, url>>
    /\ UNCHANGED renewed /\ RestUnchanged

(* An order that is being paid gets a session for the payment it has.      *)
ResumePayment(p) ==
    /\ order[PayFor[p]] = "PAYMENT_PENDING"
    /\ payment[p].status # "none"
    /\ ~Refuses(p)
    /\ url' = url \cup {p}
    /\ renewed' = IF Gateway[p] = "sandbox" THEN renewed \cup {p} ELSE renewed
    /\ UNCHANGED <<dbVars, initiating>> /\ RestUnchanged

(* The customer, at the gateway.                                           *)
Pay(p) ==
    /\ p \in url \cup Early
    /\ \/ session[p] = "open"
       \/ session[p] = "declined" /\ p \in Retried
    /\ \E result \in {"charged", "declined"} :
          /\ session' = [session EXCEPT ![p] = result]
          /\ callbacks' = callbacks \cup
                {Callback(p, IF result = "charged" THEN "SUCCEEDED"
                                                   ELSE "FAILED",
                          ReportedTxn(p))}
    /\ UNCHANGED <<dbVars, age, initiating, url, renewed, acked, saving, inbox,
                   replayed, asked, step, refunds, mode>>

-----------------------------------------------------------------------------
(* A webhook.  Success is known already when this transaction was recorded *)
(* or the order is PAID; for an order in any other state but the two       *)
(* active ones the call fails, and the gateway is not answered 200.        *)
EndedKnown(p, txn) ==   \* mutant: an order that has ended is no error
    \/ payment[p] = PaymentRow("SUCCEEDED", txn)
    \/ order[PayFor[p]] \notin ActiveOrderStatuses \cup {"none"}
SuccessKnown(p, txn) ==
    \/ payment[p] = PaymentRow("SUCCEEDED", txn)
    \/ order[PayFor[p]] = "PAID"

Record(p, status, txn) ==
    \/ /\ status = "SUCCEEDED"
       /\ \/ ProcessPaymentSuccessTx(p, txn)
          \/ SuccessKnown(p, txn) /\ UNCHANGED dbVars
    \/ status = "FAILED" /\ ProcessPaymentFailedTx(p, txn)

(* The 200 may be lost on its way; one for a failure matters to nobody.    *)
Answered(cb) ==
    \/ UNCHANGED acked
    \/ cb.status = "SUCCEEDED" /\ acked' = acked \cup {cb}
WebhookUnchanged == UNCHANGED <<age, initiating, url, renewed, session,
                                callbacks, replayed, asked, step, refunds,
                                mode>>

WebhookRecorded(cb) ==
    /\ cb \in callbacks /\ NamesOrder(cb.payment)
    /\ Record(cb.payment, cb.status, cb.txn)
    /\ Answered(cb)
    /\ UNCHANGED <<saving, inbox>> /\ WebhookUnchanged

(* Without the order only a success is kept.  A failure cannot be inserted *)
(* (foreign key), which ends the transaction with an error that is not     *)
(* ErrOrderNotFound: it is answered 500 and no step here.                  *)
WebhookEarly(cb) ==
    /\ cb \in callbacks /\ NamesOrder(cb.payment)
    /\ cb.status = "SUCCEEDED"
    /\ order[PayFor[cb.payment]] = "none"
    /\ saving' = saving \cup {cb}
    /\ UNCHANGED <<dbVars, acked, inbox>> /\ WebhookUnchanged

(* By now the order may exist.  A row that is there already stays.         *)
SavePaymentInbox(cb) ==
    /\ cb \in saving
    /\ saving' = saving \ {cb}
    /\ \/ /\ inbox' = [inbox EXCEPT ![cb.payment] =
                   IF @ = NoRow THEN InboxRow("waiting", cb.status) ELSE @]
          /\ Answered(cb)
       \/ UNCHANGED <<inbox, acked>>
    /\ UNCHANGED dbVars /\ WebhookUnchanged

-----------------------------------------------------------------------------
(* Replaying the inbox.  Whatever fails, the order that is still missing   *)
(* included, costs the row one attempt; a success is marked in a call of   *)
(* its own, and until then the row is replayed again.                      *)
Untried(row) ==   \* mutant: attempts = 0
    row.state = "waiting" /\ row.attempts = 0
Pending(row) == row.state = "waiting" /\ row.attempts < MaxAttempts
ReplayUnchanged == UNCHANGED <<age, initiating, url, renewed, session,
                               callbacks, acked, saving, asked, step, refunds,
                               mode>>

ReplayApply(p) ==
    /\ Pending(inbox[p])
    /\ \/ /\ Record(p, inbox[p].status, ReportedTxn(p))
          /\ replayed' = replayed \cup {p}
          /\ UNCHANGED inbox
       \/ /\ inbox' = [inbox EXCEPT ![p].attempts = @ + 1]
          /\ UNCHANGED <<dbVars, replayed>>
    /\ ReplayUnchanged

MarkPaymentInboxProcessed(p) ==
    /\ p \in replayed
    /\ replayed' = replayed \ {p}
    /\ inbox' \in {inbox, [inbox EXCEPT ![p].state = "processed"]}
    /\ UNCHANGED dbVars /\ ReplayUnchanged

-----------------------------------------------------------------------------
(* The reconciler lists orders that have been PAYMENT_PENDING for long,    *)
(* asks the gateway of their last payment, and applies the answer.         *)
PaymentOf(o) == {p \in PaymentsOf(o) : payment[p].status # "none"}
ReconcileUnchanged == UNCHANGED <<age, initiating, url, renewed, session,
                                  callbacks, acked, saving, inbox, replayed,
                                  step, refunds, mode>>

AskGateway(o) ==
    /\ order[o] = "PAYMENT_PENDING"
    /\ age[o] = "stale"
    /\ \E p \in PaymentOf(o) :
          asked' = asked \cup {Callback(p, Answer(p), payment[p].txn)}
    /\ UNCHANGED dbVars /\ ReconcileUnchanged

HealCancelled(a) ==
    \/ ProcessOrderCancellationTx(PayFor[a.payment])
    \/ order[PayFor[a.payment]] # "PAYMENT_PENDING" /\ UNCHANGED dbVars

HealNever(a) ==   \* mutant: no cancellation
    a.status = "SUCCEEDED" /\ Record(a.payment, "SUCCEEDED", a.txn)
Heal(a) ==
    \/ a.status = "SUCCEEDED" /\ Record(a.payment, "SUCCEEDED", a.txn)
    \/ a.status = "FAILED" /\ HealCancelled(a)

ApplyAnswer(a) ==
    /\ a \in asked
    /\ Heal(a)
    /\ asked' = asked \ {a}
    /\ ReconcileUnchanged

(* An error, or the end of the process: the next tick asks again.          *)
DropAnswer(a) ==
    /\ a \in asked
    /\ asked' = asked \ {a}
    /\ UNCHANGED dbVars /\ ReconcileUnchanged

-----------------------------------------------------------------------------
(* Refunding an event: list its orders, mark each REFUNDING, have the      *)
(* gateway pay back, record it.                                            *)
Idle == [at |-> "idle", by |-> Default]
RefundUnchanged == UNCHANGED <<age, initiating, url, renewed, session,
                               callbacks, acked, saving, inbox, replayed,
                               asked, mode>>
At(r, o, where) ==
    step' = [step EXCEPT ![<<r, o>>] = [at |-> where, by |-> @.by]]

(* LEFT JOIN with the payments that succeeded.                             *)
GatewaysOf(o) ==
    LET good == {p \in PaymentsOf(o) :
                    payment[p].status \in {"SUCCEEDED", "REFUNDED"}}
    IN IF good = {} THEN {Default} ELSE {Gateway[p] : p \in good}

ListOrder(r, o) ==
    /\ step[<<r, o>>].at = "idle"
    /\ order[o] \in SettledOrderStatuses
    /\ \E g \in GatewaysOf(o) :
          step' = [step EXCEPT ![<<r, o>>] =
              [at |-> IF order[o] = "REFUNDING" THEN "marked" ELSE "listed",
               by |-> g]]
    /\ UNCHANGED <<dbVars, refunds>> /\ RefundUnchanged

MarkRefunding(r, o) ==
    /\ step[<<r, o>>].at = "listed"
    /\ \/ MarkOrderRefundingTx(o)
       \/ order[o] \in {"REFUNDING", "REFUNDED"} /\ UNCHANGED dbVars
    /\ At(r, o, "marked")
    /\ UNCHANGED refunds /\ RefundUnchanged

(* A refusal leaves the order REFUNDING, for the next run.                 *)
RefuseAnyway == "refunded"   \* mutant: the refusal is not looked at
AfterRefusal == "idle"

RefundPayment(r, o) ==
    /\ step[<<r, o>>].at = "marked"
    /\ IF step[<<r, o>>].by = "sandbox" /\ mode = "fail"
       THEN At(r, o, AfterRefusal) /\ UNCHANGED refunds
       ELSE /\ \E id \in Refunds(step[<<r, o>>].by, o) :
                  refunds' = [refunds EXCEPT ![o] = @ \cup {id}]
            /\ At(r, o, "refunded")
    /\ UNCHANGED dbVars /\ RefundUnchanged

RecordRefund(r, o) ==
    /\ step[<<r, o>>].at = "refunded"
    /\ \/ ProcessRefundSuccessTx(o)
       \/ order[o] = "REFUNDED" /\ UNCHANGED dbVars
    /\ At(r, o, "idle")
    /\ UNCHANGED refunds /\ RefundUnchanged

AbandonRefund(r, o) ==
    /\ step[<<r, o>>].at # "idle"
    /\ At(r, o, "idle")
    /\ UNCHANGED <<dbVars, refunds>> /\ RefundUnchanged

-----------------------------------------------------------------------------
PayInit ==
    /\ DbInit
    /\ age = [o \in Order |-> "fresh"]
    /\ initiating = [p \in Payment |-> "idle"]
    /\ url = {} /\ renewed = {}
    /\ session = [p \in Payment |-> "open"]
    /\ callbacks = {} /\ acked = {} /\ saving = {}
    /\ inbox = [p \in Payment |-> NoRow]
    /\ replayed = {} /\ asked = {}
    /\ step = [x \in Refunder \X Order |-> Idle]
    /\ refunds = [o \in Order |-> {}]
    /\ mode \in Modes

Checkout(p) ==
    \/ CheckOrder(p)
    \/ StartPayment(p)
    \/ ResumePayment(p)
    \/ Pay(p)
    \/ ReplayApply(p)
    \/ MarkPaymentInboxProcessed(p)

Webhook(cb) ==
    \/ WebhookRecorded(cb)
    \/ WebhookEarly(cb)
    \/ SavePaymentInbox(cb)

Refund(r, o) ==
    \/ ListOrder(r, o)
    \/ MarkRefunding(r, o)
    \/ RefundPayment(r, o)
    \/ RecordRefund(r, o)
    \/ AbandonRefund(r, o)

PayNext ==
    \/ \E o \in Order : Sale(o) \/ GrowOld(o) \/ AskGateway(o)
    \/ \E p \in Payment : Checkout(p)
    \/ \E cb \in callbacks \cup saving : Webhook(cb)
    \/ \E a \in asked : ApplyAnswer(a) \/ DropAnswer(a)
    \/ \E r \in Refunder, o \in Order : Refund(r, o)
    \/ Deploy

PaySpec == PayInit /\ [][PayNext]_vars

(* The two tickers of main.go go on; a call that is made again and again   *)
(* does not fail for ever.                                                 *)
TickerFairness ==
    /\ \A o \in Order :
          /\ SF_vars(AskGateway(o))
          /\ SF_vars(\E a \in asked : PayFor[a.payment] = o /\ ApplyAnswer(a))
    /\ \A p \in Payment : WF_vars(ReplayApply(p))

FairPaySpec == PaySpec /\ TickerFairness

-----------------------------------------------------------------------------
PayTypeOK ==
    /\ DbTypeOK
    /\ age \in [Order -> {"fresh", "expired", "stale"}]
    /\ initiating \in [Payment -> {"idle", "checked", "done"}]
    /\ url \subseteq Payment /\ renewed \subseteq url
    /\ session \in [Payment -> {"open", "charged", "declined"}]
    /\ callbacks \subseteq Callbacks
    /\ acked \subseteq callbacks /\ saving \subseteq callbacks
    /\ inbox \in [Payment -> [state : {"none", "waiting", "processed"},
                              status : {"SUCCEEDED", "FAILED"},
                              attempts : 0..MaxAttempts]]
    /\ replayed \subseteq Payment
    /\ asked \subseteq Callbacks
    /\ step \in [Refunder \X Order ->
                   [at : {"idle", "listed", "marked", "refunded"},
                    by : Gateways]]
    /\ mode \in Modes

(* However many requests start a payment for one order at the same time,   *)
(* only one of them gets a page to pay on, so nobody is charged twice: the *)
(* UPDATE of CreatePaymentAndMarkPending asks for HELD, and a later        *)
(* request gets the session of the payment that is there.                  *)
OnePayable ==
    \A p, q \in url : PayFor[p] = PayFor[q] => p = q

(* A gateway that was answered 200 does not call again, so by then what it *)
(* reported must be in the tables: the order is paid, or the success is in *)
(* the inbox, although the order may appear between the two (BR-O6).       *)
Recorded(p) ==
    \/ order[PayFor[p]] \in SettledOrderStatuses \cup {"REFUNDED"}
    \/ inbox[p].state # "none" /\ inbox[p].status = "SUCCEEDED"

AckedIsRecorded == \A cb \in acked : Recorded(cb.payment)

(* Money goes back only for orders that are REFUNDING or REFUNDED: nobody  *)
(* is issued tickets for an order whose money was paid back, whichever     *)
(* refunds, retries and late order.paid messages overlap.                  *)
MoneyBackEndsOrder ==
    \A o \in Order :
        refunds[o] # {} => order[o] \in {"REFUNDING", "REFUNDED"}

(* Besides, an order is REFUNDED only after a gateway paid back, and a     *)
(* payment says REFUNDED or SUCCEEDED only with the order it belongs to,   *)
(* after whatever late callbacks.                                          *)
RefundsMatch ==
    /\ MoneyBackEndsOrder
    /\ \A o \in Order : order[o] = "REFUNDED" => refunds[o] # {}
    /\ \A p \in Payment :
          /\ payment[p].status = "SUCCEEDED" =>
                order[PayFor[p]] \in SettledOrderStatuses
          /\ payment[p].status = "REFUNDED" => order[PayFor[p]] = "REFUNDED"

(* docs/09-ke-hoach-hoan-thien-backend.md:164: no order hangs in           *)
(* PAYMENT_PENDING for more than 15 minutes (and the reconciler's round),  *)
(* whatever happens to callbacks, answers and the gateway's mode.          *)
PendingEnds ==
    \A o \in Order :
        (order[o] = "PAYMENT_PENDING" /\ age[o] = "stale")
            ~> order[o] # "PAYMENT_PENDING"

(* BR-O6: a callback that came before its order is replayed: once the      *)
(* order can be paid, it is, or it ends, or the attempts are used up.      *)
EarlyIsReplayed ==
    \A p \in Payment :
        (/\ inbox[p].state = "waiting" /\ inbox[p].status = "SUCCEEDED"
         /\ order[PayFor[p]] = "HELD")
            ~> (order[PayFor[p]] # "HELD" \/ inbox[p].attempts = MaxAttempts)

-----------------------------------------------------------------------------
(* What comments and docs say and the code does not keep (README, 4).      *)

(* refund_event.go:41: an order is refunded once only, whatever crash or   *)
(* retry falls between the gateway's refund and its record.                *)
RefundedOnce == \A o \in Order : Cardinality(refunds[o]) <= 1

(* domain/payment.go:43: a payment that succeeded has ended.               *)
TerminalKept ==
    [][\A p \in Payment :
          payment[p].status = "SUCCEEDED"
              => payment'[p].status \in {"SUCCEEDED", "REFUNDED"}]_vars

(* docs/05-Dac_ta_yeu_cau_cua_du_an.md:37: an order is paid only if the    *)
(* gateway says so: reconciliation takes no unpaid one for paid.           *)
PaidOnlyIfCharged ==
    \A p \in Payment :
        payment[p].status = "SUCCEEDED" => session[p] = "charged"
=============================================================================
