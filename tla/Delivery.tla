------------------------------ MODULE Delivery ------------------------------
(***************************************************************************)
(* From a payment to the e-mail and to the door of the event.  Payment and *)
(* ticketing write their messages to outbox_events in the transaction that *)
(* changes the order; relays read the table and publish to RabbitMQ; one   *)
(* consumer issues the tickets, another notifies the customer; scanners    *)
(* check the tickets in.  Everything is delivered at least once: relays,   *)
(* consumers and their connections may stop between any two steps.  An     *)
(* order has one ticket here.  hold.released and ticketing.hold.* have no  *)
(* consumer (only the sink queues take them) and are left out.             *)
(***************************************************************************)
EXTENDS Integers, SequencesExt, BagsExt

CONSTANTS
    Order,
    Relay,        \* instances of an outbox relay
    Serves,       \* Serves[r]: the routing keys of r's service
    Batch,        \* OutboxRelayConfig.Batch
    Consumer,     \* consumers, each handles one delivery at a time
    Reads,        \* Reads[c]: the queue of c, "issue" or "notify"
    Manual,       \* calls of POST /v1/notifications/send
    Scanner,      \* devices at the door
    MaxAttempts,  \* ConsumerConfig.MaxAttempts
    Faults,       \* the kinds of failure that may occur
    MaxFaults     \* bound: how many failures occur

RoutingKey == {"order.paid", "ticketing.ticket.issued", "payment.refunded"}
QueueName == {"issue", "notify"}
FaultKind == {"unpublished", "unconfirmed", "relay_crash", "crash",
              "db_down", "lost_commit", "smtp_down", "lost_receipt"}

ASSUME DeliveryAssumption ==
    /\ Serves \in [Relay -> SUBSET RoutingKey]
    /\ Reads \in [Consumer -> QueueName]
    /\ Batch \in Nat \ {0} /\ MaxAttempts \in Nat \ {0} /\ MaxFaults \in Nat
    /\ Faults \subseteq FaultKind
    /\ Consumer \cap Manual = {}

VARIABLES
    order,      \* order[o]: orders.status
    ticket,     \* ticket[o]: tickets.status, "none" before the row exists
    outbox,     \* outbox_events: the messages in the order of their ids
    published,  \* ids of the rows with a published_at
    batch,      \* batch[r]: rows r has locked: still to publish, and marked
    queue,      \* queue[q]: the copies ready for delivery, with their attempt
    dlq,        \* what was sent to a dead-letter queue, and from where
    hand,       \* hand[p]: the delivery or the call p is handling
    dedup,      \* dedupRecords of the notification process
    sent,       \* sent[k]: how often e-mail or SMS k left the house
    asked,      \* history: the messages operators sent by hand
    expired,    \* orders whose expires_at, the hold's deadline, has passed
    scan,       \* scan[s]: the order whose ticket s has just verified
    entered,    \* entered[o]: how many people came in with o's ticket
    faults      \* faults[f]: how often f has happened

saleVars == <<order, ticket, outbox>>
relayVars == <<published, batch>>
brokerVars == <<queue, dlq>>
mailVars == <<dedup, sent, asked>>
doorVars == <<expired, scan, entered>>
vars == <<saleVars, relayVars, brokerVars, hand, mailVars, doorVars, faults>>

Msg(key, o) == [key |-> key, order |-> o]
Message == [key : RoutingKey, order : Order]
Channel == {"email", "sms"}
Mail == [msg : Message, channel : Channel]
Process == Consumer \cup Manual

NoFault == UNCHANGED faults
FailuresSoFar == FoldFunction(+, 0, faults)
Fault(f) ==
    /\ f \in Faults
    /\ FailuresSoFar < MaxFaults
    /\ faults' = [faults EXCEPT ![f] = @ + 1]

-----------------------------------------------------------------------------
(* The transactions that write to the outbox.                              *)
Write(key, o) == outbox' = Append(outbox, Msg(key, o))

Pay(o) ==
    /\ order[o] = "PAYMENT_PENDING"
    /\ order' = [order EXCEPT ![o] = "PAID"]
    /\ Write("order.paid", o)
    /\ UNCHANGED ticket

MarkRefunding(o) ==
    /\ order[o] \in {"PAID", "ISSUED"}
    /\ order' = [order EXCEPT ![o] = "REFUNDING"]
    /\ UNCHANGED <<ticket, outbox>>

RefundTicket(status) ==
    IF status \in {"none", "VOID"} THEN status ELSE "REFUNDED"

Refund(o) ==
    /\ order[o] = "REFUNDING"
    /\ order' = [order EXCEPT ![o] = "REFUNDED"]
    /\ ticket' = [ticket EXCEPT ![o] = RefundTicket(@)]
    /\ Write("payment.refunded", o)

IssueTickets(o) ==
    /\ order[o] = "PAID"
    /\ order' = [order EXCEPT ![o] = "ISSUED"]
    /\ ticket' = [ticket EXCEPT ![o] = "ISSUED"]
    /\ Write("ticketing.ticket.issued", o)

SaleTx(o) ==
    /\ Pay(o) \/ MarkRefunding(o) \/ Refund(o) \/ IssueTickets(o)
    /\ UNCHANGED <<relayVars, brokerVars, hand, mailVars, doorVars, faults>>

-----------------------------------------------------------------------------
(* The relays: SELECT ... ORDER BY id LIMIT n FOR UPDATE SKIP LOCKED.      *)
NoBatch == [todo |-> {}, marked |-> {}]

Locked == UNION {batch[r].todo \cup batch[r].marked : r \in Relay}

NotLocked(id) == id \notin published \cup Locked

Due(r) ==
    {id \in DOMAIN outbox : NotLocked(id) /\ outbox[id].key \in Serves[r]}

Oldest(ids) ==
    {id \in ids : Cardinality({j \in ids : j <= id}) <= Batch}

ReadBatch(r) ==
    /\ batch[r] = NoBatch
    /\ Due(r) # {}
    /\ batch' = [batch EXCEPT ![r].todo = Oldest(Due(r))]
    /\ NoFault
    /\ UNCHANGED <<saleVars, published, brokerVars, hand, mailVars, doorVars>>

Bindings(key) == IF key = "order.paid" THEN QueueName ELSE {"notify"}

Copy(m, n) == [msg |-> m, attempt |-> n]

Route(m) ==
    queue' = [q \in QueueName |->
        IF q \in Bindings(m.key) THEN BagAdd(queue[q], Copy(m, 1))
                                 ELSE queue[q]]

IsNext(r, id) ==
    /\ id \in batch[r].todo
    /\ \A other \in batch[r].todo : id <= other

Publish(r) == \E id \in DOMAIN outbox :
    /\ IsNext(r, id)
    /\ Route(outbox[id])
    /\ batch' = [batch EXCEPT ![r] = [todo |-> @.todo \ {id},
                                     marked |-> @.marked \cup {id}]]
    /\ NoFault
    /\ UNCHANGED <<saleVars, published, dlq, hand, mailVars, doorVars>>

(* Publish returns an error, because the broker refused or because its     *)
(* confirmation did not come in time: the batch ends here, and what was    *)
(* published before is committed.                                          *)
MarkedToo(r) ==   \* mutant: the row is marked before it is published
    batch[r].marked \cup {id \in DOMAIN outbox : IsNext(r, id)}
Marked(r) == batch[r].marked

StopBatch(r) == \E id \in DOMAIN outbox, f \in {"unpublished", "unconfirmed"} :
    /\ IsNext(r, id)
    /\ Fault(f)
    /\ IF f = "unconfirmed" THEN Route(outbox[id]) ELSE UNCHANGED queue
    /\ published' = published \cup Marked(r)
    /\ batch' = [batch EXCEPT ![r] = NoBatch]
    /\ UNCHANGED <<saleVars, dlq, hand, mailVars, doorVars>>

CommitBatch(r) ==
    /\ batch[r].todo = {} /\ batch[r].marked # {}
    /\ published' = published \cup Marked(r)
    /\ batch' = [batch EXCEPT ![r] = NoBatch]
    /\ NoFault
    /\ UNCHANGED <<saleVars, brokerVars, hand, mailVars, doorVars>>

(* The process or its database connection ends, or COMMIT fails.           *)
RelayCrash(r) ==
    /\ batch[r] # NoBatch
    /\ Fault("relay_crash")
    /\ batch' = [batch EXCEPT ![r] = NoBatch]
    /\ UNCHANGED <<saleVars, published, brokerVars, hand, mailVars, doorVars>>

-----------------------------------------------------------------------------
(* mq.Consume: a delivery stays the broker's until it is acknowledged.     *)
Idle == [at |-> "idle"]

Work(m, n, at, left) ==
    [at |-> at, msg |-> m, attempt |-> n, left |-> left]

Take(c) ==
    /\ hand[c] = Idle
    /\ \E k \in BagToSet(queue[Reads[c]]) :
          /\ queue' = [queue EXCEPT ![Reads[c]] = BagRemove(@, k)]
          /\ hand' = [hand EXCEPT
                 ![c] = Work(k.msg, k.attempt, "handle", <<"email">>)]
    /\ NoFault
    /\ UNCHANGED <<saleVars, relayVars, dlq, mailVars, doorVars>>

Serving(p) == IF p \in Manual THEN "notify" ELSE Reads[p]

Return(p, result) == hand' = [hand EXCEPT ![p].at = result]

(* decide: which copy of a failed delivery is published, and where to.     *)
GivesUpEarly(c) ==   \* mutant: attempt + 1 >= maxAttempts
    hand[c].at = "permanent" \/ hand[c].attempt + 1 >= MaxAttempts
GivesUp(c) == hand[c].at = "permanent" \/ hand[c].attempt >= MaxAttempts

Forward(c) ==
    /\ hand[c].at \in {"failed", "permanent"}
    /\ IF GivesUp(c)
       THEN /\ dlq' = dlq \cup {[from |-> Reads[c], msg |-> hand[c].msg]}
            /\ UNCHANGED queue
       ELSE /\ queue' = [queue EXCEPT ![Reads[c]] =
                   BagAdd(@, Copy(hand[c].msg, hand[c].attempt + 1))]
            /\ UNCHANGED dlq
    /\ Return(c, "done")
    /\ NoFault
    /\ UNCHANGED <<saleVars, relayVars, mailVars, doorVars>>

Ack(c) ==
    /\ hand[c].at = "done"
    /\ hand' = [hand EXCEPT ![c] = Idle]
    /\ NoFault
    /\ UNCHANGED <<saleVars, relayVars, brokerVars, mailVars, doorVars>>

(* The process or its channel ends, or the copy cannot be published: the   *)
(* broker delivers the message again, with the attempt it had.  What the   *)
(* notification process remembers was in its memory only.                  *)
Crash(c) ==
    /\ hand[c] # Idle
    /\ Fault("crash")
    /\ queue' = [queue EXCEPT ![Reads[c]] =
           BagAdd(@, Copy(hand[c].msg, hand[c].attempt))]
    /\ IF Reads[c] = "notify"
       THEN /\ dedup' = [k \in Mail |-> "none"]
            /\ hand' = [p \in Process |->
                   IF p \in Manual \/ p = c THEN Idle ELSE hand[p]]
       ELSE /\ hand' = [hand EXCEPT ![c] = Idle]
            /\ UNCHANGED dedup
    /\ UNCHANGED <<saleVars, relayVars, dlq, sent, asked, doorVars>>

-----------------------------------------------------------------------------
(* OrderPaidHandler: tickets are issued once, whoever issues them; an      *)
(* order that is not paid any more is a permanent error.                   *)
Handling(c, q) == Reads[c] = q /\ hand[c].at = "handle"

Verdict(o) == IF order[o] = "ISSUED" THEN "done" ELSE "permanent"

HandleOrderPaid(c) ==
    /\ Handling(c, "issue")
    /\ LET o == hand[c].msg.order IN
       \/ IF order[o] = "PAID"
          THEN IssueTickets(o) /\ Return(c, "done") /\ NoFault
          ELSE UNCHANGED saleVars /\ Return(c, Verdict(o)) /\ NoFault
       \/ \E f \in {"db_down", "lost_commit"} :
             /\ Fault(f)
             /\ IF f = "lost_commit" /\ order[o] = "PAID"
                THEN IssueTickets(o) ELSE UNCHANGED saleVars
             /\ Return(c, "failed")
    /\ UNCHANGED <<relayVars, brokerVars, mailVars, doorVars>>

-----------------------------------------------------------------------------
(* The notification use cases: per channel, CheckOrSetDedup, then send,    *)
(* then MarkSent or MarkFailed.                                            *)
MailOf(p) == [msg |-> hand[p].msg, channel |-> Head(hand[p].left)]

Advance(p) ==
    LET rest == Tail(hand[p].left) IN
    hand' = [hand EXCEPT ![p].left = rest,
                         ![p].at = IF rest = <<>> THEN "done" ELSE "handle"]

OnlyPending(status) == status = "PENDING"   \* mutant: SENT is not looked at
AlreadyProcessed(status) == status \in {"SENT", "PENDING"}

AtUseCase(p) ==
    /\ hand[p].at = "handle"
    /\ Serving(p) = "notify"

CheckOrSetDedup(p) ==
    /\ AtUseCase(p)
    /\ IF AlreadyProcessed(dedup[MailOf(p)])
       THEN Advance(p) /\ UNCHANGED dedup
       ELSE /\ dedup' = [dedup EXCEPT ![MailOf(p)] = "PENDING"]
            /\ Return(p, "send")
    /\ NoFault
    /\ UNCHANGED <<saleVars, relayVars, brokerVars, sent, asked, doorVars>>

(* RecipientDirectory.Lookup fails: nothing has been done yet.             *)
LookupFails(c) ==
    /\ Handling(c, "notify")
    /\ Fault("db_down")
    /\ Return(c, "failed")
    /\ UNCHANGED <<saleVars, relayVars, brokerVars, mailVars, doorVars>>

Leaves(k) == sent' = [sent EXCEPT ![k] = @ + 1]

MarkFailed(k) == [dedup EXCEPT ![k] = "FAILED"]

Send(p) ==
    /\ hand[p].at = "send"
    /\ Leaves(MailOf(p))
    /\ dedup' = [dedup EXCEPT ![MailOf(p)] = "SENT"]
    /\ Advance(p)
    /\ NoFault
    /\ UNCHANGED <<saleVars, relayVars, brokerVars, asked, doorVars>>

SendFails(p) ==
    /\ hand[p].at = "send"
    /\ \E f \in {"smtp_down", "lost_receipt"} :
          /\ Fault(f)
          /\ IF f = "lost_receipt" THEN Leaves(MailOf(p)) ELSE UNCHANGED sent
    /\ dedup' = MarkFailed(MailOf(p))
    /\ Return(p, "failed")
    /\ UNCHANGED <<saleVars, relayVars, brokerVars, asked, doorVars>>

(* An operator sends a notification by hand; the answer ends the call.     *)
ManualSend(m) ==
    /\ hand[m] = Idle
    /\ \E x \in ToSet(outbox) :
          /\ hand' = [hand EXCEPT
                 ![m] = Work(x, 0, "handle", <<"email", "sms">>)]
          /\ asked' = asked \cup {x}
    /\ NoFault
    /\ UNCHANGED <<saleVars, relayVars, brokerVars, dedup, sent, doorVars>>

ManualAnswer(m) ==
    /\ hand[m].at \in {"done", "failed"}
    /\ hand' = [hand EXCEPT ![m] = Idle]
    /\ NoFault
    /\ UNCHANGED <<saleVars, relayVars, brokerVars, mailVars, doorVars>>

-----------------------------------------------------------------------------
(* The door.  VerifyTicket reads, UpdateTicketStatus writes.  The QR code  *)
(* carries orders.expires_at as its own expiry.                            *)
NotAtTheDoor == "none"

Verifies(o) == o \notin expired /\ ticket[o] = "ISSUED"

VerifyTicket(s, o) ==
    /\ scan[s] = NotAtTheDoor
    /\ Verifies(o)
    /\ scan' = [scan EXCEPT ![s] = o]
    /\ NoFault
    /\ UNCHANGED <<saleVars, relayVars, brokerVars, hand, mailVars, expired,
                   entered>>

StillThere(o) == ticket[o] # "none"   \* mutant: AND status = $4 dropped
StillIssued(o) == ticket[o] = "ISSUED"

CheckIn(s) ==
    /\ scan[s] # NotAtTheDoor
    /\ IF StillIssued(scan[s])
       THEN /\ ticket' = [ticket EXCEPT ![scan[s]] = "CHECKED_IN"]
            /\ entered' = [entered EXCEPT ![scan[s]] = @ + 1]
       ELSE UNCHANGED <<ticket, entered>>
    /\ scan' = [scan EXCEPT ![s] = NotAtTheDoor]
    /\ NoFault
    /\ UNCHANGED <<order, outbox, relayVars, brokerVars, hand, mailVars,
                   expired>>

Expire(o) ==
    /\ o \notin expired
    /\ expired' = expired \cup {o}
    /\ NoFault
    /\ UNCHANGED <<saleVars, relayVars, brokerVars, hand, mailVars, scan,
                   entered>>

-----------------------------------------------------------------------------
DeliveryInit ==
    /\ order = [o \in Order |-> "PAYMENT_PENDING"]
    /\ ticket = [o \in Order |-> "none"]
    /\ outbox = <<>>
    /\ published = {}
    /\ batch = [r \in Relay |-> NoBatch]
    /\ queue = [q \in QueueName |-> EmptyBag]
    /\ dlq = {}
    /\ hand = [p \in Process |-> Idle]
    /\ dedup = [k \in Mail |-> "none"]
    /\ sent = [k \in Mail |-> 0]
    /\ asked = {}
    /\ expired = {}
    /\ scan = [s \in Scanner |-> NotAtTheDoor]
    /\ entered = [o \in Order |-> 0]
    /\ faults = [f \in Faults |-> 0]

RelayStep(r) == ReadBatch(r) \/ Publish(r) \/ CommitBatch(r)
NotifyStep(p) == CheckOrSetDedup(p) \/ Send(p)
Settle(c) == Forward(c) \/ Ack(c)
ConsumeStep(c) == HandleOrderPaid(c) \/ NotifyStep(c) \/ Settle(c)

DeliveryNext ==
    \/ \E o \in Order : SaleTx(o) \/ Expire(o)
    \/ \E r \in Relay : RelayStep(r) \/ StopBatch(r) \/ RelayCrash(r)
    \/ \E c \in Consumer :
          Take(c) \/ ConsumeStep(c) \/ LookupFails(c) \/ Crash(c)
    \/ \E p \in Process : SendFails(p)
    \/ \E m \in Manual : ManualSend(m) \/ NotifyStep(m) \/ ManualAnswer(m)
    \/ \E s \in Scanner :
          (\E o \in Order : VerifyTicket(s, o)) \/ CheckIn(s)

DeliverySpec == DeliveryInit /\ [][DeliveryNext]_vars

(* The relays' tickers and the consumers' loops run for ever.              *)
FairDeliverySpec ==
    /\ DeliverySpec
    /\ \A r \in Relay : WF_vars(RelayStep(r))
    /\ \A c \in Consumer : WF_vars(Take(c)) /\ WF_vars(ConsumeStep(c))

-----------------------------------------------------------------------------
TicketStatus == {"none", "ISSUED", "CHECKED_IN", "VOID", "REFUNDED"}

DeliveryTypeOK ==
    /\ order \in [Order -> {"PAYMENT_PENDING", "PAID", "ISSUED",
                            "REFUNDING", "REFUNDED"}]
    /\ ticket \in [Order -> TicketStatus]
    /\ outbox \in Seq(Message) /\ IsInjective(outbox)
    /\ published \subseteq DOMAIN outbox
    /\ Locked \subseteq DOMAIN outbox \ published
    /\ \A q \in QueueName : \A k \in BagToSet(queue[q]) :
          k.attempt \in 1..MaxAttempts /\ k.msg \in ToSet(outbox)
    /\ \A d \in dlq : d.msg \in ToSet(outbox)
    /\ dedup \in [Mail -> {"none", "PENDING", "SENT", "FAILED"}]
    /\ sent \in [Mail -> Nat] /\ entered \in [Order -> Nat]
    /\ expired \subseteq Order
    /\ scan \in [Scanner -> Order \cup {NotAtTheDoor}]

(* At least once, end to end: a row with a published_at has reached every  *)
(* queue bound to its key, and there it waits, or somebody works on it, or *)
(* it was dead-lettered, or its work is done: the tickets are issued or    *)
(* not due any more, the e-mail is out.  The relay's commit after the      *)
(* publish, the consumer's acknowledgement after its work or after the     *)
(* copy for the retry queue, and both crashing anywhere keep this.  A      *)
(* message somebody also sent by hand is excepted: see NothingLostByHand.  *)
Served(q, m) ==
    \/ \E k \in BagToSet(queue[q]) : k.msg = m
    \/ \E p \in Process :
          hand[p] # Idle /\ hand[p].msg = m /\ Serving(p) = q
    \/ [from |-> q, msg |-> m] \in dlq
    \/ q = "issue" /\ order[m.order] # "PAID"
    \/ q = "notify" /\ sent[[msg |-> m, channel |-> "email"]] > 0

NothingLost ==
    \A id \in published : \A q \in Bindings(outbox[id].key) :
        Served(q, outbox[id]) \/ (q = "notify" /\ outbox[id] \in asked)

(* memory_store.go:37 says of a notification somebody else is sending that *)
(* it "was processed" ("da thanh cong hoac dang pending xu ly -> da xu     *)
(* ly"): the delivery is acknowledged, and it is lost when that somebody   *)
(* fails.                                                                  *)
NothingLostByHand ==
    \A id \in published : \A q \in Bindings(outbox[id].key) :
        Served(q, outbox[id])

(* Redelivered, retried and published twice as it may be, a notification   *)
(* goes out once more than it should only for each time the notification   *)
(* process lost its memory or the mail server's receipt got lost.          *)
Count(f) == IF f \in Faults THEN faults[f] ELSE 0

SentOncePerLoss ==
    \A k \in Mail : sent[k] <= 1 + Count("crash") + Count("lost_receipt")

(* BR-O8: nobody enters twice on one ticket however many scanners verify   *)
(* it at the same time, and a refund, whenever it falls between issuing,   *)
(* verifying and checking in, leaves no ticket of the order usable.        *)
OneEntry ==
    \A o \in Order :
        /\ entered[o] <= 1
        /\ order[o] = "REFUNDED" => ticket[o] \in {"none", "VOID", "REFUNDED"}

(* The customer has paid: the tickets are issued unless the order is being *)
(* refunded, and then announced by e-mail (unless somebody sent it by hand *)
(* meanwhile), with fewer failures than the consumers have attempts.       *)
PaidGetsTickets ==
    \A o \in Order : LET m == Msg("ticketing.ticket.issued", o) IN
        /\ order[o] = "PAID" ~> order[o] # "PAID"
        /\ order[o] = "ISSUED" ~>
              m \in asked \/ sent[[msg |-> m, channel |-> "email"]] > 0

(* libs/go/authx/qr.go:38 calls the QR code's expiry the end of the time   *)
(* to enter ("Unix timestamp het han vao cua"): a ticket that was issued   *)
(* and not used, voided or refunded is verified at the door.               *)
UnusedTicketOpens ==
    \A o \in Order : ticket[o] = "ISSUED" => Verifies(o)
=============================================================================
