--------------------------- MODULE DeliveryProofs ---------------------------
(***************************************************************************)
(* Proofs about the way from a payment to the e-mail and to the door, for  *)
(* every number of orders, relays, consumers, batches and failures; and,   *)
(* at the end, about the key store, which does for the requests of clients *)
(* what the way does for messages: what comes twice is done once.          *)
(***************************************************************************)
EXTENDS Delivery, IdemStore, TLAPS

OrderStatus == {"PAYMENT_PENDING", "PAID", "ISSUED", "REFUNDING", "REFUNDED"}
MailStatus == {"none", "PENDING", "SENT", "FAILED"}
Left == {<<"email", "sms">>, <<"sms">>, <<"email">>, <<>>}

Busy == [at : {"handle", "send", "failed", "permanent", "done"},
         msg : Message, attempt : Nat, left : Left]

(* What a process has in hand: consumers of the broker send e-mail only,   *)
(* and what an operator sends is a message somebody asked for.             *)
HandShape ==
    /\ hand \in [Process -> {Idle} \cup Busy]
    /\ \A p \in Process : hand[p] # Idle =>
          /\ hand[p].at \in {"handle", "send"} => hand[p].left # <<>>
          /\ hand[p].at = "send" => Serving(p) = "notify"
          /\ p \in Manual => hand[p].msg \in asked
          /\ p \in Consumer => hand[p].left \in {<<"email">>, <<>>}

RelayShape ==
    /\ outbox \in Seq(Message)
    /\ published \subseteq DOMAIN outbox
    /\ batch \in [Relay -> [todo : SUBSET Nat, marked : SUBSET Nat]]
    /\ \A r \in Relay :
          batch[r].todo \cup batch[r].marked \subseteq DOMAIN outbox

QueueShape ==
    /\ queue = [q \in QueueName |-> queue[q]]
    /\ \A q \in QueueName :
          BagToSet(queue[q]) \subseteq [msg : Message, attempt : Nat]

MailShape ==
    /\ dedup \in [Mail -> MailStatus]
    /\ sent \in [Mail -> Nat]
    /\ asked \subseteq Message
    /\ faults \in [Faults -> Nat]

Shape ==
    /\ order \in [Order -> OrderStatus]
    /\ RelayShape /\ QueueShape /\ MailShape /\ HandShape

-----------------------------------------------------------------------------
(* Adding to a bag adds to its set,                                        *)
LEMMA AddToBag ==
  ASSUME NEW B, NEW x
  PROVE  BagToSet(BagAdd(B, x)) = BagToSet(B) \cup {x}
BY DEF BagToSet, BagAdd

(* and removing from it removes at most that.                              *)
LEMMA RemoveFromBag ==
  ASSUME NEW B, NEW x
  PROVE  /\ BagToSet(BagRemove(B, x)) \subseteq BagToSet(B)
         /\ BagToSet(B) \subseteq BagToSet(BagRemove(B, x)) \cup {x}
BY DEF BagToSet, BagRemove

(* Every message is for some queue.                                        *)
LEMMA BindingsType ==
  ASSUME NEW key
  PROVE  Bindings(key) \subseteq QueueName
BY DEF Bindings, QueueName

(* A transaction adds at most one message to the outbox.                   *)
LEMMA SaleWrites ==
  ASSUME Shape, NEW o \in Order,
         \/ Pay(o) \/ MarkRefunding(o) \/ Refund(o) \/ IssueTickets(o)
         \/ UNCHANGED saleVars
  PROVE  /\ order' \in [Order -> OrderStatus]
         /\ outbox' \in Seq(Message)
         /\ DOMAIN outbox \subseteq DOMAIN outbox'
         /\ \A id \in DOMAIN outbox : outbox'[id] = outbox[id]
<1>1. order' \in [Order -> OrderStatus]
  BY DEF Shape, OrderStatus, Pay, MarkRefunding, Refund, IssueTickets, saleVars
<1>2. CASE UNCHANGED outbox
  BY <1>1, <1>2 DEF Shape, RelayShape
<1>3. ASSUME NEW m \in Message, outbox' = Append(outbox, m)
      PROVE  /\ outbox' \in Seq(Message)
             /\ DOMAIN outbox \subseteq DOMAIN outbox'
             /\ \A id \in DOMAIN outbox : outbox'[id] = outbox[id]
  BY <1>3 DEF Shape, RelayShape
<1>4. \A key \in RoutingKey : Msg(key, o) \in Message
  BY DEF Msg, Message
<1> QED
  BY <1>1, <1>2, <1>3, <1>4
  DEF Pay, MarkRefunding, Refund, IssueTickets, Write, saleVars, RoutingKey

-----------------------------------------------------------------------------
(* What one process may come to have in hand.                              *)
HandOf(p, w) ==
    w # Idle =>
      /\ w.at \in {"handle", "send"} => w.left # <<>>
      /\ w.at = "send" => Serving(p) = "notify"
      /\ p \in Manual => w.msg \in asked'
      /\ p \in Consumer => w.left \in {<<"email">>, <<>>}

(* A process takes something into its hand, or puts it down.               *)
LEMMA Grasp ==
  ASSUME HandShape, asked \subseteq asked',
         NEW p \in Process, NEW w \in {Idle} \cup Busy, HandOf(p, w),
         hand' = [hand EXCEPT ![p] = w]
  PROVE  HandShape'
<1>1. hand' \in [Process -> {Idle} \cup Busy]
  BY DEF HandShape
<1>2. ASSUME NEW x \in Process, hand'[x] # Idle
      PROVE  /\ hand'[x].at \in {"handle", "send"} => hand'[x].left # <<>>
             /\ hand'[x].at = "send" => Serving(x) = "notify"
             /\ x \in Manual => hand'[x].msg \in asked'
             /\ x \in Consumer => hand'[x].left \in {<<"email">>, <<>>}
  BY <1>2 DEF HandShape, HandOf
<1> QED
  BY <1>1, <1>2 DEF HandShape, Serving

(* A process that is not idle goes on.                                     *)
LEMMA GoOn ==
  ASSUME HandShape, UNCHANGED asked,
         NEW p \in Process, hand[p] # Idle,
         NEW at \in {"handle", "send", "failed", "permanent", "done"},
         at = "handle" => hand[p].left # <<>>,
         at = "send" => hand[p].left # <<>> /\ Serving(p) = "notify",
         Return(p, at)
  PROVE  HandShape'
<1>1. hand[p] \in Busy
  BY DEF HandShape
<1>2. PICK w : w = [hand[p] EXCEPT !.at = at]
  OBVIOUS
<1>3. w \in Busy /\ w.at = at /\ w.msg = hand[p].msg /\ w.left = hand[p].left
  BY <1>1, <1>2 DEF Busy
<1>4. hand' = [hand EXCEPT ![p] = w]
  BY <1>2 DEF Return, HandShape
<1>5. HandOf(p, w)
  BY <1>3 DEF HandOf, HandShape
<1> QED
  BY <1>3, <1>4, <1>5, Grasp

(* What is left of the channels after the first of them.                   *)
LEMMA Tails ==
  /\ Tail(<<"email", "sms">>) = <<"sms">>
  /\ Tail(<<"sms">>) = <<>> /\ Tail(<<"email">>) = <<>>
  /\ Head(<<"email">>) = "email"
OBVIOUS

(* A channel is done: what is left is shorter.                             *)
LEMMA NextChannel ==
  ASSUME HandShape, UNCHANGED asked,
         NEW p \in Process, hand[p].at \in {"handle", "send"}, Advance(p)
  PROVE  /\ HandShape'
         /\ p \in Consumer => hand'[p].at = "done"
         /\ hand'[p].at # "send" /\ hand'[p].msg = hand[p].msg
         /\ \A x \in Process : x # p => hand'[x] = hand[x]
<1>1. hand[p] \in Busy /\ hand[p] # Idle /\ hand[p].left # <<>>
  BY DEF HandShape, Idle
<1>2. PICK rest : rest = Tail(hand[p].left)
  OBVIOUS
<1>3. rest \in Left /\ (p \in Consumer => rest = <<>>)
  <2>1. hand[p].left \in Left
    BY <1>1 DEF Busy
  <2>2. p \in Consumer => hand[p].left = <<"email">>
    BY <1>1 DEF HandShape
  <2> QED
    BY <1>1, <1>2, <2>1, <2>2, Tails DEF Left
<1>4. PICK w : w = [hand[p] EXCEPT
          !.left = rest, !.at = IF rest = <<>> THEN "done" ELSE "handle"]
  OBVIOUS
<1>5. /\ w \in Busy /\ w.msg = hand[p].msg /\ w.left = rest
      /\ w.at = IF rest = <<>> THEN "done" ELSE "handle"
  BY <1>1, <1>3, <1>4 DEF Busy
<1>6. hand' = [hand EXCEPT ![p] = w]
  BY <1>2, <1>4 DEF Advance, HandShape
<1>7. HandOf(p, w)
  BY <1>1, <1>3, <1>5 DEF HandOf, HandShape
<1>8. HandShape'
  BY <1>5, <1>6, <1>7, Grasp
<1> QED
  BY <1>3, <1>5, <1>6, <1>8 DEF HandShape

(* Every step keeps what processes have in hand in order.                  *)
LEMMA StepHands ==
  ASSUME Shape, [DeliveryNext]_vars
  PROVE  HandShape'
<1>0. HandShape /\ MailShape /\ QueueShape /\ RelayShape
  BY DEF Shape
<1>1. CASE UNCHANGED <<hand, asked>>
  BY <1>0, <1>1 DEF HandShape, Serving
<1>2. ASSUME NEW c \in Consumer, Take(c)
      PROVE  HandShape'
  <2>1. c \in Process /\ c \notin Manual /\ Reads[c] \in QueueName
    BY DeliveryAssumption DEF Process
  <2>2. PICK k \in BagToSet(queue[Reads[c]]) :
            hand' = [hand EXCEPT
                ![c] = Work(k.msg, k.attempt, "handle", <<"email">>)]
    BY <1>2 DEF Take
  <2>3. k \in [msg : Message, attempt : Nat]
    BY <1>0, <2>1, <2>2 DEF QueueShape
  <2>4. PICK w : w = Work(k.msg, k.attempt, "handle", <<"email">>)
    OBVIOUS
  <2>5. w \in Busy /\ w.at = "handle" /\ w.left = <<"email">>
    BY <2>3, <2>4 DEF Work, Busy, Left
  <2>6. HandOf(c, w)
    BY <2>1, <2>5 DEF HandOf
  <2>7. UNCHANGED asked
    BY <1>2 DEF Take, mailVars
  <2> QED
    BY <1>0, <2>1, <2>2, <2>4, <2>5, <2>6, <2>7, Grasp
<1>3. ASSUME NEW c \in Consumer, HandleOrderPaid(c) \/ LookupFails(c)
      PROVE  HandShape'
  <2>1. PICK at \in {"done", "permanent", "failed"} : Return(c, at)
    BY <1>3 DEF HandleOrderPaid, LookupFails, Verdict
  <2>2. hand[c] # Idle /\ UNCHANGED asked
    BY <1>3 DEF HandleOrderPaid, LookupFails, Handling, Idle, mailVars
  <2> QED
    BY <1>0, <2>1, <2>2, GoOn DEF Process
<1>4. ASSUME NEW p \in Process, NotifyStep(p)
      PROVE  HandShape'
  <2>1. hand[p].at \in {"handle", "send"} /\ UNCHANGED asked
    BY <1>4 DEF NotifyStep, CheckOrSetDedup, AtUseCase, Send
  <2>2. CASE Advance(p)
    BY <1>0, <2>1, <2>2, NextChannel
  <2>3. CASE Return(p, "send") /\ AtUseCase(p)
    <3>1. hand[p] # Idle /\ hand[p].left # <<>> /\ Serving(p) = "notify"
      BY <1>0, <2>3 DEF AtUseCase, HandShape, Idle
    <3> QED
      BY <1>0, <2>1, <2>3, <3>1, GoOn
  <2> QED
    BY <1>4, <2>2, <2>3 DEF NotifyStep, CheckOrSetDedup, Send
<1>5. ASSUME NEW p \in Process, SendFails(p)
      PROVE  HandShape'
  <2>1. hand[p] # Idle /\ UNCHANGED asked /\ Return(p, "failed")
    BY <1>5 DEF SendFails, Idle
  <2> QED
    BY <1>0, <2>1, GoOn
<1>6. ASSUME NEW c \in Consumer, Forward(c)
      PROVE  HandShape'
  <2>1. hand[c] # Idle /\ UNCHANGED asked /\ Return(c, "done")
    BY <1>6 DEF Forward, Idle, mailVars
  <2> QED
    BY <1>0, <2>1, GoOn DEF Process
<1>7. ASSUME NEW p \in Process, hand' = [hand EXCEPT ![p] = Idle],
             UNCHANGED asked
      PROVE  HandShape'
  BY <1>0, <1>7, Grasp DEF HandOf
<1>8. ASSUME NEW c \in Consumer, Crash(c)
      PROVE  HandShape'
  <2>1. UNCHANGED asked
    BY <1>8 DEF Crash
  <2>2. CASE hand' = [p \in Process |->
                 IF p \in Manual \/ p = c THEN Idle ELSE hand[p]]
    BY <1>0, <2>1, <2>2 DEF HandShape, Serving
  <2> QED
    BY <1>7, <1>8, <2>1, <2>2 DEF Crash, Process
<1>9. ASSUME NEW m \in Manual, ManualSend(m)
      PROVE  HandShape'
  <2>1. m \in Process /\ m \notin Consumer
    BY DeliveryAssumption DEF Process
  <2>2. PICK x \in ToSet(outbox) :
            /\ hand' = [hand EXCEPT
                   ![m] = Work(x, 0, "handle", <<"email", "sms">>)]
            /\ asked' = asked \cup {x}
    BY <1>9 DEF ManualSend
  <2>3. x \in Message
    BY <1>0, <2>2 DEF RelayShape, ToSet
  <2>4. PICK w : w = Work(x, 0, "handle", <<"email", "sms">>)
    OBVIOUS
  <2>5. /\ w \in Busy /\ w.at = "handle" /\ w.msg = x
        /\ w.left = <<"email", "sms">>
    BY <2>3, <2>4 DEF Work, Busy, Left
  <2>6. HandOf(m, w)
    BY <2>1, <2>2, <2>5 DEF HandOf
  <2> QED
    BY <1>0, <2>1, <2>2, <2>4, <2>5, <2>6, Grasp
<1>10. ASSUME NEW o \in Order, SaleTx(o) \/ Expire(o)
       PROVE  UNCHANGED <<hand, asked>>
  BY <1>10 DEF SaleTx, Expire, mailVars
<1>11. ASSUME NEW r \in Relay, RelayStep(r) \/ StopBatch(r) \/ RelayCrash(r)
       PROVE  UNCHANGED <<hand, asked>>
  BY <1>11 DEF RelayStep, ReadBatch, Publish, CommitBatch, StopBatch,
               RelayCrash, mailVars
<1>12. ASSUME NEW s \in Scanner,
              (\E o \in Order : VerifyTicket(s, o)) \/ CheckIn(s)
       PROVE  UNCHANGED <<hand, asked>>
  BY <1>12 DEF VerifyTicket, CheckIn, mailVars
<1>13. ASSUME NEW c \in Consumer, Ack(c)
       PROVE  HandShape'
  BY <1>7, <1>13 DEF Ack, mailVars, Process
<1>14. ASSUME NEW m \in Manual, ManualAnswer(m)
       PROVE  HandShape'
  BY <1>7, <1>14 DEF ManualAnswer, mailVars, Process
<1>15. CASE UNCHANGED vars
  BY <1>1, <1>15 DEF vars, mailVars
<1> QED
  BY <1>1, <1>2, <1>3, <1>4, <1>5, <1>6, <1>8, <1>9, <1>10, <1>11, <1>12,
     <1>13, <1>14, <1>15
  DEF DeliveryNext, ConsumeStep, Settle, Process

-----------------------------------------------------------------------------
(* Only four transactions write to the outbox, and to the orders.          *)
OrderTx(o) == Pay(o) \/ MarkRefunding(o) \/ Refund(o) \/ IssueTickets(o)

(* A step that is none of the four leaves orders and outbox alone.         *)
LEMMA SaleMoves ==
  ASSUME Shape, [DeliveryNext]_vars
  PROVE  (\E o \in Order : OrderTx(o)) \/ UNCHANGED <<order, outbox>>
<1> USE DEF OrderTx
<1>2. ASSUME NEW o \in Order, SaleTx(o)
      PROVE  Pay(o) \/ MarkRefunding(o) \/ Refund(o) \/ IssueTickets(o)
  BY <1>2 DEF SaleTx
<1>3. ASSUME NEW c \in Consumer, HandleOrderPaid(c)
      PROVE  \/ \E o \in Order : IssueTickets(o)
             \/ UNCHANGED saleVars
  <2>1. c \in Process /\ hand[c] # Idle
    BY <1>3 DEF HandleOrderPaid, Handling, Idle, Process
  <2>2. hand[c].msg.order \in Order
    BY <2>1 DEF Shape, HandShape, Busy, Message
  <2> QED
    BY <1>3, <2>2 DEF HandleOrderPaid
<1>4. ASSUME NEW r \in Relay, RelayStep(r) \/ StopBatch(r) \/ RelayCrash(r)
      PROVE  UNCHANGED <<order, outbox>>
  BY <1>4 DEF RelayStep, ReadBatch, Publish, CommitBatch, StopBatch,
              RelayCrash, saleVars
<1>5. ASSUME NEW c \in Consumer, Take(c) \/ Settle(c) \/ LookupFails(c)
                                    \/ Crash(c)
      PROVE  UNCHANGED <<order, outbox>>
  BY <1>5 DEF Take, Settle, Forward, Ack, LookupFails, Crash, saleVars
<1>6. ASSUME NEW p \in Process, NotifyStep(p) \/ SendFails(p)
      PROVE  UNCHANGED <<order, outbox>>
  BY <1>6 DEF NotifyStep, CheckOrSetDedup, Send, SendFails, saleVars
<1>7. ASSUME NEW m \in Manual, ManualSend(m) \/ ManualAnswer(m)
      PROVE  UNCHANGED <<order, outbox>>
  BY <1>7 DEF ManualSend, ManualAnswer, saleVars
<1>8. ASSUME NEW s \in Scanner,
             (\E o \in Order : VerifyTicket(s, o)) \/ CheckIn(s)
      PROVE  UNCHANGED <<order, outbox>>
  BY <1>8 DEF VerifyTicket, CheckIn, saleVars
<1>9. CASE \E o \in Order : Expire(o)
  BY <1>9 DEF Expire, saleVars
<1>10. CASE UNCHANGED saleVars
  BY <1>10 DEF saleVars
<1> QED
  BY <1>2, <1>3, <1>4, <1>5, <1>6, <1>7, <1>8, <1>9, <1>10
  DEF DeliveryNext, ConsumeStep, Process, vars

(* What a step leaves of the outbox.                                       *)
LEMMA StepSale ==
  ASSUME Shape, [DeliveryNext]_vars
  PROVE  /\ order' \in [Order -> OrderStatus]
         /\ outbox' \in Seq(Message)
         /\ DOMAIN outbox \subseteq DOMAIN outbox'
         /\ \A id \in DOMAIN outbox : outbox'[id] = outbox[id]
<1>1. CASE UNCHANGED <<order, outbox>>
  BY <1>1 DEF Shape, RelayShape
<1> QED
  BY <1>1, SaleMoves, SaleWrites DEF OrderTx

(* What relays have locked, published and marked are rows of the outbox.   *)
LEMMA StepRelays ==
  ASSUME Shape, [DeliveryNext]_vars
  PROVE  RelayShape'
<1>0. /\ RelayShape
      /\ outbox' \in Seq(Message) /\ DOMAIN outbox \subseteq DOMAIN outbox'
      /\ DOMAIN outbox \subseteq Nat
  BY StepSale DEF Shape, RelayShape
<1> DEFINE Rows(b) == b \in [todo : SUBSET DOMAIN outbox,
                             marked : SUBSET DOMAIN outbox]
<1>1. CASE UNCHANGED relayVars
  BY <1>0, <1>1 DEF RelayShape, relayVars
<1>2. ASSUME NEW r \in Relay, NEW b, Rows(b), batch' = [batch EXCEPT ![r] = b],
             published' \subseteq published \cup batch[r].marked
      PROVE  RelayShape'
  <2>1. batch' \in [Relay -> [todo : SUBSET Nat, marked : SUBSET Nat]]
    BY <1>0, <1>2 DEF RelayShape
  <2>2. ASSUME NEW x \in Relay
        PROVE  batch'[x].todo \cup batch'[x].marked \subseteq DOMAIN outbox'
    BY <1>0, <1>2 DEF RelayShape
  <2>3. published' \subseteq DOMAIN outbox'
    BY <1>0, <1>2 DEF RelayShape
  <2> QED
    BY <1>0, <2>1, <2>2, <2>3 DEF RelayShape
<1>3. Rows(NoBatch)
  BY DEF NoBatch
<1>4. ASSUME NEW r \in Relay, ReadBatch(r)
      PROVE  RelayShape'
  <2>1. PICK b : b = [batch[r] EXCEPT !.todo = Oldest(Due(r))]
    OBVIOUS
  <2>2. Oldest(Due(r)) \subseteq DOMAIN outbox
    BY DEF Oldest, Due
  <2>3. Rows(b)
    BY <1>0, <1>4, <2>1, <2>2 DEF ReadBatch, NoBatch
  <2>4. batch' = [batch EXCEPT ![r] = b] /\ UNCHANGED published
    BY <1>0, <1>4, <2>1 DEF ReadBatch, RelayShape
  <2> QED
    BY <1>2, <2>3, <2>4
<1>5. ASSUME NEW r \in Relay, Publish(r)
      PROVE  RelayShape'
  <2>1. PICK id \in DOMAIN outbox :
            batch' = [batch EXCEPT ![r] = [todo |-> @.todo \ {id},
                                     marked |-> @.marked \cup {id}]]
    BY <1>5 DEF Publish
  <2>2. UNCHANGED published
    BY <1>5 DEF Publish
  <2>3. PICK b : b = [todo |-> batch[r].todo \ {id},
                      marked |-> batch[r].marked \cup {id}]
    OBVIOUS
  <2>4. Rows(b) /\ batch' = [batch EXCEPT ![r] = b]
    BY <1>0, <2>1, <2>3 DEF RelayShape
  <2> QED
    BY <1>2, <2>2, <2>4
<1>6. ASSUME NEW r \in Relay, CommitBatch(r) \/ StopBatch(r) \/ RelayCrash(r)
      PROVE  RelayShape'
  BY <1>2, <1>3, <1>6 DEF CommitBatch, StopBatch, RelayCrash, Marked
<1>7. ASSUME ~ \E r \in Relay :
                 RelayStep(r) \/ StopBatch(r) \/ RelayCrash(r)
      PROVE  UNCHANGED relayVars
  BY <1>7 DEF DeliveryNext, SaleTx, Expire, Take, ConsumeStep,
     HandleOrderPaid, NotifyStep, CheckOrSetDedup, Send, Settle, Forward, Ack,
     LookupFails, Crash, SendFails, ManualSend, ManualAnswer, VerifyTicket,
     CheckIn, vars
<1> QED
  BY <1>1, <1>4, <1>5, <1>6, <1>7 DEF RelayStep

-----------------------------------------------------------------------------
(* Routing puts a message of the outbox into every queue it is for, and    *)
(* takes none out.                                                         *)
LEMMA RouteAdds ==
  ASSUME QueueShape, NEW m \in Message, Route(m)
  PROVE  /\ QueueShape'
         /\ \A q \in QueueName :
                BagToSet(queue[q]) \subseteq BagToSet(queue'[q])
         /\ \A q \in Bindings(m.key) :
                \E k \in BagToSet(queue'[q]) : k.msg = m
<1>1. ASSUME NEW q \in QueueName
      PROVE  queue'[q] = IF q \in Bindings(m.key)
                            THEN BagAdd(queue[q], Copy(m, 1)) ELSE queue[q]
  BY DEF Route
<1>2. Copy(m, 1) \in [msg : Message, attempt : Nat] /\ Copy(m, 1).msg = m
  BY DEF Copy
<1>3. ASSUME NEW q \in QueueName
      PROVE  /\ BagToSet(queue'[q]) \subseteq [msg : Message, attempt : Nat]
             /\ BagToSet(queue[q]) \subseteq BagToSet(queue'[q])
             /\ q \in Bindings(m.key) => Copy(m, 1) \in BagToSet(queue'[q])
  BY <1>1, <1>2, AddToBag DEF QueueShape
<1>4. queue' = [q \in QueueName |-> queue'[q]]
  BY DEF Route
<1>5. QueueShape'
  BY <1>3, <1>4 DEF QueueShape
<1> QED
  BY <1>2, <1>3, <1>5, BindingsType

(* One more copy in one of the queues.                                     *)
LEMMA OneMore ==
  ASSUME QueueShape, NEW q \in QueueName,
         NEW k \in [msg : Message, attempt : Nat],
         queue' = [queue EXCEPT ![q] = BagAdd(@, k)]
  PROVE  /\ QueueShape' /\ k \in BagToSet(queue'[q])
         /\ \A x \in QueueName :
                BagToSet(queue[x]) \subseteq BagToSet(queue'[x])
<1>1. /\ queue'[q] = BagAdd(queue[q], k)
      /\ \A x \in QueueName : x # q => queue'[x] = queue[x]
      /\ queue' = [x \in QueueName |-> queue'[x]]
  BY DEF QueueShape
<1>2. ASSUME NEW x \in QueueName
      PROVE  /\ BagToSet(queue'[x]) \subseteq [msg : Message, attempt : Nat]
             /\ BagToSet(queue[x]) \subseteq BagToSet(queue'[x])
  BY <1>1, AddToBag DEF QueueShape
<1> QED
  BY <1>1, <1>2, AddToBag DEF QueueShape

(* A delivery leaves its queue, and the others stay.                       *)
LEMMA OneLess ==
  ASSUME QueueShape, NEW q \in QueueName, NEW k,
         queue' = [queue EXCEPT ![q] = BagRemove(@, k)]
  PROVE  /\ QueueShape'
         /\ \A x \in QueueName : \A y \in BagToSet(queue[x]) :
                y \in BagToSet(queue'[x]) \/ (x = q /\ y = k)
<1>1. /\ queue'[q] = BagRemove(queue[q], k)
      /\ \A x \in QueueName : x # q => queue'[x] = queue[x]
      /\ queue' = [x \in QueueName |-> queue'[x]]
  BY DEF QueueShape
<1>2. ASSUME NEW x \in QueueName
      PROVE  /\ BagToSet(queue'[x]) \subseteq [msg : Message, attempt : Nat]
             /\ \A y \in BagToSet(queue[x]) :
                    y \in BagToSet(queue'[x]) \/ (x = q /\ y = k)
  BY <1>1, RemoveFromBag DEF QueueShape
<1> QED
  BY <1>1, <1>2 DEF QueueShape

(* A consumer's queue, and the delivery it holds.                          *)
LEMMA HeldCopy ==
  ASSUME Shape, NEW c \in Consumer, hand[c] # Idle
  PROVE  /\ Reads[c] \in QueueName /\ hand[c] \in Busy
         /\ \A n \in Nat :
                Copy(hand[c].msg, n) \in [msg : Message, attempt : Nat]
BY DeliveryAssumption DEF Shape, HandShape, Process, Busy, Copy

(* Every step keeps the queues' messages messages.                         *)
LEMMA StepQueues ==
  ASSUME Shape, [DeliveryNext]_vars
  PROVE  QueueShape'
<1>0. QueueShape /\ RelayShape
  BY DEF Shape
<1>1. CASE UNCHANGED queue
  BY <1>0, <1>1 DEF QueueShape
<1>2. ASSUME NEW r \in Relay, Publish(r) \/ StopBatch(r)
      PROVE  QueueShape'
  <2>1. \/ \E id \in DOMAIN outbox : Route(outbox[id])
        \/ UNCHANGED queue
    BY <1>2 DEF Publish, StopBatch
  <2>2. \A id \in DOMAIN outbox : outbox[id] \in Message
    BY <1>0 DEF RelayShape
  <2> QED
    BY <1>0, <1>1, <2>1, <2>2, RouteAdds
<1>3. ASSUME NEW c \in Consumer, Take(c)
      PROVE  QueueShape'
  <2>1. Reads[c] \in QueueName
    BY DeliveryAssumption
  <2>2. PICK k : queue' = [queue EXCEPT ![Reads[c]] = BagRemove(@, k)]
    BY <1>3 DEF Take
  <2> QED
    BY <1>0, <2>1, <2>2, OneLess
<1>4. ASSUME NEW c \in Consumer, Forward(c) \/ Crash(c)
      PROVE  QueueShape'
  <2>1. hand[c] # Idle
    BY <1>4 DEF Forward, Crash, Idle
  <2>2. hand[c].attempt \in Nat /\ hand[c].attempt + 1 \in Nat
    BY <2>1, HeldCopy DEF Busy
  <2>3. \/ UNCHANGED queue
        \/ \E n \in {hand[c].attempt, hand[c].attempt + 1} :
              queue' = [queue EXCEPT
                  ![Reads[c]] = BagAdd(@, Copy(hand[c].msg, n))]
    BY <1>4 DEF Forward, Crash
  <2> QED
    BY <1>0, <1>1, <2>1, <2>2, <2>3, HeldCopy, OneMore
<1>5. ASSUME ~ \E r \in Relay : Publish(r) \/ StopBatch(r),
             ~ \E c \in Consumer : Take(c) \/ Forward(c) \/ Crash(c)
      PROVE  UNCHANGED queue
  BY <1>5 DEF DeliveryNext, RelayStep, ReadBatch, CommitBatch, RelayCrash,
     SaleTx, Expire, ConsumeStep, HandleOrderPaid, NotifyStep,
     CheckOrSetDedup, Send, Settle, Ack, LookupFails, SendFails, ManualSend,
     ManualAnswer, VerifyTicket, CheckIn, vars, brokerVars
<1> QED
  BY <1>1, <1>2, <1>3, <1>4, <1>5

-----------------------------------------------------------------------------
(* The memory of the notification process, and the mail that left it.      *)
LEMMA StepMail ==
  ASSUME Shape, [DeliveryNext]_vars
  PROVE  MailShape'
<1>0. MailShape /\ RelayShape
  BY DEF Shape
<1>1. faults' \in [Faults -> Nat]
  <2>1. \A f \in FaultKind : Fault(f) => faults' \in [Faults -> Nat]
    BY <1>0 DEF MailShape, Fault
  <2>2. NoFault => faults' \in [Faults -> Nat]
    BY <1>0 DEF MailShape, NoFault
  <2>3. CASE UNCHANGED faults
    BY <1>0, <2>3 DEF MailShape
  <2>4. ASSUME NEW c \in Consumer, HandleOrderPaid(c)
        PROVE  NoFault \/ \E f \in FaultKind : Fault(f)
    BY <2>4 DEF HandleOrderPaid, FaultKind
  <2> QED
    BY <2>1, <2>2, <2>3, <2>4
    DEF DeliveryNext, RelayStep, ReadBatch, Publish, CommitBatch, StopBatch,
        RelayCrash, SaleTx, Expire, Take, ConsumeStep, NotifyStep,
        CheckOrSetDedup, Send, Settle, Forward, Ack, LookupFails, Crash,
        SendFails, ManualSend, ManualAnswer, VerifyTicket, CheckIn, vars,
        FaultKind
<1>2. CASE UNCHANGED mailVars
  BY <1>0, <1>1, <1>2 DEF MailShape, mailVars
<1>3. ASSUME NEW p \in Process, NotifyStep(p) \/ SendFails(p)
      PROVE  MailShape'
  BY <1>0, <1>1, <1>3 DEF MailShape, NotifyStep, CheckOrSetDedup, Send,
     SendFails, MarkFailed, Leaves, MailStatus
<1>4. CASE \E c \in Consumer : Crash(c)
  BY <1>0, <1>1, <1>2, <1>4 DEF MailShape, Crash, MailStatus, mailVars
<1>5. CASE \E m \in Manual : ManualSend(m)
  BY <1>0, <1>1, <1>5 DEF MailShape, ManualSend, RelayShape, ToSet
<1>6. ASSUME ~ \E p \in Process : NotifyStep(p) \/ SendFails(p),
             ~ \E c \in Consumer : Crash(c),
             ~ \E m \in Manual : ManualSend(m)
      PROVE  UNCHANGED mailVars
  BY <1>6 DEF DeliveryNext, RelayStep, ReadBatch, Publish, CommitBatch,
     StopBatch, RelayCrash, SaleTx, Expire, Take, ConsumeStep,
     HandleOrderPaid, Settle, Forward, Ack, LookupFails, ManualAnswer,
     VerifyTicket, CheckIn, vars, Process
<1> QED
  BY <1>2, <1>3, <1>4, <1>5, <1>6

(* The shape of the variables is inductive.                                *)
LEMMA ShapeInitially == DeliveryInit => Shape
BY DEF DeliveryInit, Shape, OrderStatus, RelayShape, QueueShape, MailShape,
   HandShape, NoBatch, MailStatus, BagToSet, EmptyBag, SetToBag

(* Every step keeps the shapes.                                            *)
LEMMA ShapeStep ==
  ASSUME Shape, [DeliveryNext]_vars
  PROVE  Shape'
BY StepSale, StepRelays, StepQueues, StepMail, StepHands DEF Shape

-----------------------------------------------------------------------------
EmailOf(m) == [msg |-> m, channel |-> "email"]

Sending(c, m) ==
    Reads[c] = "notify" /\ hand[c].at = "send" /\ hand[c].msg = m

(* What the notification process remembers: SENT is out, PENDING is in the *)
(* hand of a consumer that will settle it, unless it was sent by hand.     *)
Remembers ==
    /\ \A k \in Mail : dedup[k] = "SENT" => sent[k] > 0
    /\ \A m \in Message :
          dedup[EmailOf(m)] = "PENDING" =>
              m \in asked \/ \E c \in Consumer : Sending(c, m)

(* A consumer of the notification queue is about one e-mail.               *)
LEMMA ConsumerMail ==
  ASSUME Shape, NEW c \in Consumer, hand[c].at \in {"handle", "send"}
  PROVE  /\ hand[c] \in Busy /\ hand[c] # Idle /\ hand[c].msg \in Message
         /\ MailOf(c) = EmailOf(hand[c].msg) /\ MailOf(c) \in Mail
<1>1. hand[c] \in Busy /\ hand[c] # Idle
  BY DEF Shape, HandShape, Process, Idle
<1>2. hand[c].left = <<"email">>
  BY <1>1 DEF Shape, HandShape, Process
<1>3. hand[c].msg \in Message
  BY <1>1 DEF Busy
<1> QED
  BY <1>1, <1>2, <1>3, Tails DEF MailOf, EmailOf, Mail, Channel

(* A process at work on a mail is about a mail.                            *)
LEMMA ProcessMail ==
  ASSUME Shape, NEW p \in Process, hand[p].at \in {"handle", "send"}
  PROVE  /\ hand[p] \in Busy /\ hand[p] # Idle /\ hand[p].msg \in Message
         /\ MailOf(p) \in Mail /\ MailOf(p).msg = hand[p].msg
<1>1. hand[p] \in Busy /\ hand[p] # Idle /\ hand[p].left # <<>>
  BY DEF Shape, HandShape, Idle
<1>2. hand[p].left \in Left /\ hand[p].msg \in Message
  BY <1>1 DEF Busy
<1>3. Head(hand[p].left) \in Channel
  BY <1>1, <1>2 DEF Left, Channel
<1> QED
  BY <1>1, <1>2, <1>3 DEF MailOf, Mail

(* Another process may do what it likes as long as it leaves the hands of  *)
(* consumers that send, and the memory, alone.                             *)
LEMMA OtherHands ==
  ASSUME Shape, Remembers, UNCHANGED <<dedup, sent>>, asked \subseteq asked',
         \A c \in Consumer : hand[c].at = "send" => hand'[c] = hand[c]
  PROVE  Remembers'
BY DEF Remembers, Sending

(* No step makes it remember what is not so.                               *)
LEMMA StepRemembers ==
  ASSUME Shape, Remembers, [DeliveryNext]_vars
  PROVE  Remembers'
<1>0. MailShape /\ HandShape
  BY DEF Shape
<1>1. CASE UNCHANGED <<hand, dedup, sent, asked>>
  BY <1>1, OtherHands
<1>2. ASSUME NEW p \in Process, NEW at, NEW status \in MailStatus,
             hand[p].at \in {"handle", "send"},
             hand' = [hand EXCEPT ![p].at = at] \/ Advance(p),
             dedup' = [dedup EXCEPT ![MailOf(p)] = status],
             status = "SENT" => sent'[MailOf(p)] > 0,
             status = "PENDING" =>
                 at = "send" /\ Serving(p) = "notify"
                 /\ hand' = [hand EXCEPT ![p].at = at],
             \A k \in Mail : sent'[k] >= sent[k],
             sent' \in [Mail -> Nat], UNCHANGED asked
      PROVE  Remembers'
  <2>1. MailOf(p) \in Mail /\ MailOf(p).msg = hand[p].msg /\ hand[p] # Idle
    BY <1>2, ProcessMail
  <2>2. ASSUME NEW x \in Process, x # p
        PROVE  hand'[x] = hand[x]
    BY <1>0, <1>2, <2>2 DEF HandShape, Advance
  <2>3. ASSUME NEW k \in Mail, dedup'[k] = "SENT"
        PROVE  sent'[k] > 0
    BY <1>0, <1>2, <2>1, <2>3 DEF Remembers, MailShape
  <2>4. ASSUME NEW m \in Message, dedup'[EmailOf(m)] = "PENDING"
        PROVE  m \in asked \/ \E c \in Consumer : Sending(c, m)'
    <3>1. EmailOf(m) \in Mail
      BY DEF EmailOf, Mail, Channel
    <3>2. CASE EmailOf(m) = MailOf(p)
      <4>1. status = "PENDING" /\ hand[p].msg = m
        BY <1>0, <1>2, <2>1, <2>4, <3>1, <3>2 DEF MailShape, EmailOf
      <4>2. CASE p \in Manual
        BY <1>0, <2>1, <4>1, <4>2 DEF HandShape
      <4>3. CASE p \notin Manual
        <5>1. p \in Consumer /\ Reads[p] = "notify"
          BY <1>2, <4>1, <4>3 DEF Process, Serving
        <5>2. hand'[p].at = "send" /\ hand'[p].msg = m
          <6>1. hand[p] \in Busy
            BY <1>2, ProcessMail
          <6> QED
            BY <1>0, <1>2, <4>1, <6>1 DEF HandShape, Busy
        <5> QED
          BY <5>1, <5>2 DEF Sending
      <4> QED
        BY <4>2, <4>3
    <3>3. CASE EmailOf(m) # MailOf(p)
      <4>1. dedup[EmailOf(m)] = "PENDING"
        BY <1>0, <1>2, <2>4, <3>1, <3>3 DEF MailShape
      <4>2. m \in asked \/ \E c \in Consumer : Sending(c, m)
        BY <4>1 DEF Remembers
      <4>3. ASSUME NEW c \in Consumer, Sending(c, m)
            PROVE  c # p
        BY <3>3, <4>3, ConsumerMail DEF Sending
      <4> QED
        BY <2>2, <4>2, <4>3 DEF Sending, Process
    <3> QED
      BY <3>2, <3>3
  <2> QED
    BY <1>2, <2>3, <2>4 DEF Remembers
<1>3. ASSUME NEW p \in Process, CheckOrSetDedup(p)
      PROVE  Remembers'
  <2>1. /\ hand[p].at = "handle" /\ Serving(p) = "notify"
        /\ UNCHANGED <<sent, asked>>
    BY <1>3 DEF CheckOrSetDedup, AtUseCase
  <2>2. CASE Advance(p) /\ UNCHANGED dedup
    <3>1. \A c \in Consumer : hand[c].at = "send" => hand'[c] = hand[c]
      BY <1>0, <2>1, <2>2, NextChannel DEF Process
    <3> QED
      BY <2>1, <2>2, <3>1, OtherHands
  <2>3. CASE /\ dedup' = [dedup EXCEPT ![MailOf(p)] = "PENDING"]
             /\ Return(p, "send")
    <3>1. hand' = [hand EXCEPT ![p].at = "send"]
      BY <2>3 DEF Return
    <3>2. sent' \in [Mail -> Nat] /\ \A k \in Mail : sent'[k] >= sent[k]
      BY <1>0, <2>1 DEF MailShape
    <3>3. "PENDING" \in MailStatus /\ "PENDING" # "SENT"
      BY DEF MailStatus
    <3> QED
      BY <1>2, <2>1, <2>3, <3>1, <3>2, <3>3
  <2> QED
    BY <1>3, <2>2, <2>3 DEF CheckOrSetDedup
<1>4. ASSUME NEW p \in Process, Send(p)
      PROVE  Remembers'
  <2>1. MailOf(p) \in Mail
    BY <1>4, ProcessMail DEF Send
  <2>2. /\ sent' \in [Mail -> Nat] /\ sent'[MailOf(p)] > 0
        /\ \A k \in Mail : sent'[k] >= sent[k]
    BY <1>0, <1>4, <2>1 DEF Send, Leaves, MailShape
  <2> QED
    BY <1>2, <1>4, <2>2 DEF Send, MailStatus
<1>5. ASSUME NEW p \in Process, SendFails(p)
      PROVE  Remembers'
  <2>1. MailOf(p) \in Mail
    BY <1>5, ProcessMail DEF SendFails
  <2>2. /\ sent' \in [Mail -> Nat] /\ \A k \in Mail : sent'[k] >= sent[k]
    BY <1>0, <1>5, <2>1 DEF SendFails, Leaves, MailShape
  <2> QED
    BY <1>2, <1>5, <2>2 DEF SendFails, MarkFailed, Return, MailStatus
<1>6. ASSUME NEW c \in Consumer, Crash(c)
      PROVE  Remembers'
  <2>1. CASE Reads[c] = "notify"
    <3>1. \A m \in Message : EmailOf(m) \in Mail
      BY DEF EmailOf, Mail, Channel
    <3> QED
      BY <1>6, <2>1, <3>1 DEF Crash, Remembers
  <2>2. CASE Reads[c] # "notify"
    <3>1. /\ UNCHANGED <<dedup, sent, asked>>
          /\ \A x \in Process : x # c => hand'[x] = hand[x]
      BY <1>0, <1>6, <2>2 DEF Crash, HandShape
    <3> QED
      BY <2>2, <3>1 DEF Remembers, Sending, Process
  <2> QED
    BY <2>1, <2>2
<1>7. ASSUME NEW c \in Consumer,
             Take(c) \/ HandleOrderPaid(c) \/ Settle(c) \/ LookupFails(c)
      PROVE  Remembers'
  <2>1. hand[c].at # "send" /\ UNCHANGED <<dedup, sent, asked>>
    BY <1>7 DEF Take, HandleOrderPaid, Handling, Settle, Forward, Ack,
                LookupFails, Idle, mailVars
  <2>2. \A x \in Process : x # c => hand'[x] = hand[x]
    BY <1>0, <1>7 DEF Take, HandleOrderPaid, Settle, Forward, Ack,
                      LookupFails, Return, HandShape
  <2> QED
    BY <2>1, <2>2, OtherHands DEF Process
<1>8. ASSUME NEW m \in Manual, ManualSend(m) \/ ManualAnswer(m)
      PROVE  Remembers'
  <2>1. m \in Process /\ m \notin Consumer
    BY DeliveryAssumption DEF Process
  <2>2. \A c \in Consumer : hand'[c] = hand[c]
    BY <1>0, <1>8, <2>1 DEF ManualSend, ManualAnswer, HandShape, Process
  <2>3. UNCHANGED <<dedup, sent>> /\ asked \subseteq asked'
    BY <1>8 DEF ManualSend, ManualAnswer, mailVars
  <2> QED
    BY <2>2, <2>3, OtherHands
<1>9. ASSUME ~ \E p \in Process : NotifyStep(p) \/ SendFails(p),
             ~ \E c \in Consumer : Take(c) \/ HandleOrderPaid(c)
                   \/ Settle(c) \/ LookupFails(c) \/ Crash(c),
             ~ \E m \in Manual : ManualSend(m) \/ ManualAnswer(m)
      PROVE  UNCHANGED <<hand, dedup, sent, asked>>
  BY <1>9 DEF DeliveryNext, RelayStep, ReadBatch, Publish, CommitBatch,
     StopBatch, RelayCrash, SaleTx, Expire, ConsumeStep, VerifyTicket,
     CheckIn, vars, mailVars, Process
<1> QED
  BY <1>1, <1>3, <1>4, <1>5, <1>6, <1>7, <1>8, <1>9 DEF NotifyStep

-----------------------------------------------------------------------------
(* Where a message that reached the broker is: a delivery that is "done"   *)
(* is only an acknowledgement away from being forgotten, so it counts for  *)
(* nothing here, and an order that is paid has still to be issued.         *)
InQueue(q, m) == \E k \in BagToSet(queue[q]) : k.msg = m

AtWork == {"handle", "send", "failed", "permanent"}
InHand(q, m) == \E c \in Consumer :
    Reads[c] = q /\ hand[c].at \in AtWork /\ hand[c].msg = m

Ended(q, m) ==
    \/ [from |-> q, msg |-> m] \in dlq
    \/ q = "issue" /\ order[m.order] \notin {"PAYMENT_PENDING", "PAID"}
    \/ q = "notify" /\ (m \in asked \/ sent[EmailOf(m)] > 0)

Kept(q, m) == InQueue(q, m) \/ InHand(q, m) \/ Ended(q, m)

Out == published \cup UNION {batch[r].marked : r \in Relay}

Unforgotten ==
    \A id \in Out : \A q \in Bindings(outbox[id].key) : Kept(q, outbox[id])

(* What has ended has ended: dead letters stay, no order is paid again, no *)
(* mail is taken back.                                                     *)
LEMMA EndedStays ==
  ASSUME Shape, [DeliveryNext]_vars,
         NEW q \in QueueName, NEW m \in Message, Ended(q, m)
  PROVE  Ended(q, m)'
<1>0. EmailOf(m) \in Mail /\ m.order \in Order
  BY DEF EmailOf, Mail, Channel, Message
<1>1. dlq \subseteq dlq'
  <2>1. ASSUME ~ \E c \in Consumer : Forward(c)
        PROVE  UNCHANGED dlq
    BY <2>1 DEF DeliveryNext, RelayStep, ReadBatch, Publish, CommitBatch,
       StopBatch, RelayCrash, SaleTx, Expire, Take, ConsumeStep,
       HandleOrderPaid, NotifyStep, CheckOrSetDedup, Send, Settle, Ack,
       LookupFails, Crash, SendFails, ManualSend, ManualAnswer, VerifyTicket,
       CheckIn, vars, brokerVars
  <2> QED
    BY <2>1 DEF Forward
<1>2. ASSUME NEW o \in Order, order[o] \notin {"PAYMENT_PENDING", "PAID"}
      PROVE  order'[o] \notin {"PAYMENT_PENDING", "PAID"}
  <2>1. ASSUME NEW x, Pay(x) \/ MarkRefunding(x) \/ Refund(x)
                            \/ IssueTickets(x)
        PROVE  order'[o] \notin {"PAYMENT_PENDING", "PAID"}
    BY <1>2, <2>1 DEF Shape, Pay, MarkRefunding, Refund, IssueTickets
  <2>2. ASSUME ~ \E x \in Order : SaleTx(x),
               ~ \E c \in Consumer : HandleOrderPaid(c)
        PROVE  UNCHANGED order
    BY <2>2 DEF DeliveryNext, RelayStep, ReadBatch, Publish, CommitBatch,
       StopBatch, RelayCrash, Expire, Take, ConsumeStep, NotifyStep,
       CheckOrSetDedup, Send, Settle, Forward, Ack, LookupFails, Crash,
       SendFails, ManualSend, ManualAnswer, VerifyTicket, CheckIn, vars,
       saleVars
  <2>3. ASSUME NEW c \in Consumer, HandleOrderPaid(c)
        PROVE  IssueTickets(hand[c].msg.order) \/ UNCHANGED order
    BY <2>3 DEF HandleOrderPaid, saleVars
  <2> QED
    BY <1>2, <2>1, <2>2, <2>3 DEF SaleTx
<1>3. m \in asked => m \in asked'
  <2>1. ASSUME ~ \E x \in Manual : ManualSend(x)
        PROVE  UNCHANGED asked
    BY <2>1 DEF DeliveryNext, RelayStep, ReadBatch, Publish, CommitBatch,
       StopBatch, RelayCrash, SaleTx, Expire, Take, ConsumeStep,
       HandleOrderPaid, NotifyStep, CheckOrSetDedup, Send, Settle, Forward,
       Ack, LookupFails, Crash, SendFails, ManualAnswer, VerifyTicket,
       CheckIn, vars, mailVars
  <2> QED
    BY <2>1 DEF ManualSend
<1>4. ASSUME NEW k \in Mail, sent[k] > 0
      PROVE  sent'[k] > 0
  <2>1. ASSUME NEW x, Leaves(x)
        PROVE  sent'[k] > 0
    BY <1>4, <2>1 DEF Shape, MailShape, Leaves
  <2>2. ASSUME ~ \E p \in Process : Send(p) \/ SendFails(p)
        PROVE  UNCHANGED sent
    BY <2>2 DEF DeliveryNext, RelayStep, ReadBatch, Publish, CommitBatch,
       StopBatch, RelayCrash, SaleTx, Expire, Take, ConsumeStep,
       HandleOrderPaid, NotifyStep, CheckOrSetDedup, Settle, Forward, Ack,
       LookupFails, Crash, ManualSend, ManualAnswer, VerifyTicket, CheckIn,
       vars, mailVars, Process
  <2> QED
    BY <1>4, <2>1, <2>2 DEF Send, SendFails
<1> QED
  BY <1>0, <1>1, <1>2, <1>3, <1>4 DEF Ended, EmailOf

(* A copy leaves its queue only into the hand of a consumer.               *)
LEMMA QueuedIsTaken ==
  ASSUME Shape, [DeliveryNext]_vars,
         NEW q \in QueueName, NEW m \in Message, InQueue(q, m)
  PROVE  InQueue(q, m)' \/ InHand(q, m)'
<1>0. QueueShape /\ RelayShape /\ HandShape
  BY DEF Shape
<1>1. CASE \A x \in QueueName :
               BagToSet(queue[x]) \subseteq BagToSet(queue'[x])
  BY <1>1 DEF InQueue
<1>2. ASSUME NEW r \in Relay, Publish(r) \/ StopBatch(r)
      PROVE  InQueue(q, m)'
  <2>1. \/ \E id \in DOMAIN outbox : Route(outbox[id])
        \/ UNCHANGED queue
    BY <1>2 DEF Publish, StopBatch
  <2>2. \A id \in DOMAIN outbox : outbox[id] \in Message
    BY <1>0 DEF RelayShape
  <2> QED
    BY <1>0, <2>1, <2>2, RouteAdds DEF InQueue
<1>3. ASSUME NEW c \in Consumer, Take(c)
      PROVE  InQueue(q, m)' \/ InHand(q, m)'
  <2>1. Reads[c] \in QueueName /\ c \in Process
    BY DeliveryAssumption DEF Process
  <2>2. PICK k \in BagToSet(queue[Reads[c]]) :
            /\ queue' = [queue EXCEPT ![Reads[c]] = BagRemove(@, k)]
            /\ hand' = [hand EXCEPT
                   ![c] = Work(k.msg, k.attempt, "handle", <<"email">>)]
    BY <1>3 DEF Take
  <2>3. PICK y \in BagToSet(queue[q]) : y.msg = m
    BY DEF InQueue
  <2>4. y \in BagToSet(queue'[q]) \/ (q = Reads[c] /\ y = k)
    BY <1>0, <2>1, <2>2, OneLess
  <2>5. hand'[c].at = "handle" /\ hand'[c].msg = k.msg
    BY <1>0, <2>1, <2>2 DEF HandShape, Work
  <2> QED
    BY <2>3, <2>4, <2>5 DEF InQueue, InHand, AtWork
<1>4. ASSUME NEW c \in Consumer, Forward(c) \/ Crash(c)
      PROVE  InQueue(q, m)'
  <2>1. hand[c] # Idle
    BY <1>4 DEF Forward, Crash, Idle
  <2>2. hand[c].attempt \in Nat /\ hand[c].attempt + 1 \in Nat
    BY <2>1, HeldCopy DEF Busy
  <2>3. \/ UNCHANGED queue
        \/ \E n \in {hand[c].attempt, hand[c].attempt + 1} :
              queue' = [queue EXCEPT
                  ![Reads[c]] = BagAdd(@, Copy(hand[c].msg, n))]
    BY <1>4 DEF Forward, Crash
  <2> QED
    BY <1>0, <2>1, <2>2, <2>3, HeldCopy, OneMore DEF InQueue
<1>5. ASSUME ~ \E r \in Relay : Publish(r) \/ StopBatch(r),
             ~ \E c \in Consumer : Take(c) \/ Forward(c) \/ Crash(c)
      PROVE  UNCHANGED queue
  BY <1>5 DEF DeliveryNext, RelayStep, ReadBatch, CommitBatch, RelayCrash,
     SaleTx, Expire, ConsumeStep, HandleOrderPaid, NotifyStep,
     CheckOrSetDedup, Send, Settle, Ack, LookupFails, SendFails, ManualSend,
     ManualAnswer, VerifyTicket, CheckIn, vars, brokerVars
<1> QED
  BY <1>1, <1>2, <1>3, <1>4, <1>5

(* A process leaves the hands of the others alone, except that a crash of  *)
(* the notification process ends the calls of operators.                   *)
LEMMA OwnHand ==
  ASSUME Shape, [DeliveryNext]_vars, NEW c \in Consumer,
         hand'[c] # hand[c]
  PROVE  \/ Take(c) \/ HandleOrderPaid(c) \/ LookupFails(c)
         \/ CheckOrSetDedup(c) \/ Send(c) \/ SendFails(c)
         \/ Forward(c) \/ Ack(c) \/ Crash(c)
<1>0. HandShape /\ c \in Process /\ c \notin Manual
  BY DeliveryAssumption DEF Shape, Process
<1>1. ASSUME NEW p \in Process, p # c,
             \/ Send(p) \/ SendFails(p) \/ CheckOrSetDedup(p)
             \/ p \in Consumer
                   /\ (Take(p) \/ HandleOrderPaid(p) \/ LookupFails(p)
                       \/ Forward(p) \/ Ack(p) \/ Crash(p))
             \/ p \in Manual /\ (ManualSend(p) \/ ManualAnswer(p))
      PROVE  hand'[c] = hand[c]
  BY <1>0, <1>1 DEF HandShape, Send, SendFails, CheckOrSetDedup, Take,
     HandleOrderPaid, LookupFails, Forward, Ack, Crash, ManualSend,
     ManualAnswer, Advance, Return
<1>2. ASSUME ~ \E p \in Process :
                   Send(p) \/ SendFails(p) \/ CheckOrSetDedup(p),
             ~ \E p \in Consumer :
                   \/ Take(p) \/ HandleOrderPaid(p) \/ LookupFails(p)
                   \/ Forward(p) \/ Ack(p) \/ Crash(p),
             ~ \E p \in Manual : ManualSend(p) \/ ManualAnswer(p)
      PROVE  UNCHANGED hand
  BY <1>2 DEF DeliveryNext, RelayStep, ReadBatch, Publish, CommitBatch,
     StopBatch, RelayCrash, SaleTx, Expire, ConsumeStep, NotifyStep, Settle,
     VerifyTicket, CheckIn, vars, Process
<1> QED
  BY <1>0, <1>1, <1>2 DEF Process

(* What a consumer has in hand is kept until it is issued, sent, forwarded *)
(* or dead-lettered.                                                       *)
LEMMA HeldIsKept ==
  ASSUME Shape, Remembers, [DeliveryNext]_vars,
         NEW q \in QueueName, NEW m \in Message, InHand(q, m)
  PROVE  Kept(q, m)'
<1>0. HandShape /\ MailShape /\ QueueShape
  BY DEF Shape
<1>1. PICK c \in Consumer :
          Reads[c] = q /\ hand[c].at \in AtWork /\ hand[c].msg = m
  BY DEF InHand
<1>2. /\ c \in Process /\ c \notin Manual
      /\ hand[c] # Idle /\ hand[c] \in Busy /\ hand[c].attempt \in Nat
      /\ m.order \in Order /\ EmailOf(m) \in Mail
  BY <1>0, <1>1, DeliveryAssumption
  DEF Process, AtWork, Idle, HandShape, Busy, Message, EmailOf, Mail, Channel
<1>3. CASE hand'[c] = hand[c]
  BY <1>1, <1>3 DEF Kept, InHand
<1>4. ASSUME NEW at \in AtWork, Return(c, at)
      PROVE  Kept(q, m)'
  <2>1. hand'[c].at = at /\ hand'[c].msg = m
    BY <1>0, <1>1, <1>2, <1>4 DEF Return, HandShape, Busy
  <2> QED
    BY <1>1, <2>1 DEF Kept, InHand
<1>5. CASE HandleOrderPaid(c)
  <2>1. q = "issue"
    BY <1>1, <1>5 DEF HandleOrderPaid, Handling
  <2>2. CASE IssueTickets(m.order)
    <3>1. order'[m.order] = "ISSUED"
      BY <1>2, <2>2 DEF Shape, IssueTickets
    <3> QED
      BY <2>1, <3>1 DEF Kept, Ended
  <2>3. CASE Return(c, Verdict(m.order)) /\ UNCHANGED saleVars
    <3>1. CASE order[m.order] = "ISSUED"
      BY <2>1, <2>3, <3>1 DEF Kept, Ended, saleVars
    <3>2. CASE order[m.order] # "ISSUED"
      BY <1>4, <2>3, <3>2 DEF Verdict, AtWork
    <3> QED
      BY <3>1, <3>2
  <2>4. CASE Return(c, "failed")
    BY <1>4, <2>4 DEF AtWork
  <2> QED
    BY <1>1, <1>5, <2>2, <2>3, <2>4 DEF HandleOrderPaid
<1>6. CASE LookupFails(c) \/ SendFails(c)
  BY <1>4, <1>6 DEF LookupFails, SendFails, AtWork
<1>7. CASE CheckOrSetDedup(c)
  <2>1. q = "notify" /\ hand[c].at = "handle" /\ UNCHANGED <<asked, sent>>
    BY <1>1, <1>2, <1>7 DEF CheckOrSetDedup, AtUseCase, Serving
  <2>2. MailOf(c) = EmailOf(m)
    BY <1>1, <2>1, ConsumerMail
  <2>3. CASE Advance(c) /\ AlreadyProcessed(dedup[EmailOf(m)])
    <3>1. CASE dedup[EmailOf(m)] = "SENT"
      BY <1>2, <2>1, <3>1 DEF Remembers, Kept, Ended, EmailOf
    <3>2. CASE dedup[EmailOf(m)] = "PENDING"
      <4>1. CASE m \in asked
        BY <2>1, <4>1 DEF Kept, Ended
      <4>2. ASSUME NEW x \in Consumer, Sending(x, m)
            PROVE  Kept(q, m)'
        <5>1. x # c /\ x \in Process
          BY <2>1, <4>2 DEF Sending, Process
        <5>2. hand'[x] = hand[x]
          BY <1>0, <2>1, <2>3, <5>1, NextChannel, <1>2
        <5> QED
          BY <2>1, <4>2, <5>2 DEF Kept, InHand, Sending, AtWork
      <4> QED
        BY <3>2, <4>1, <4>2 DEF Remembers
    <3> QED
      BY <2>3, <3>1, <3>2 DEF AlreadyProcessed
  <2>4. CASE Return(c, "send")
    BY <1>4, <2>4 DEF AtWork
  <2> QED
    BY <1>7, <2>2, <2>3, <2>4 DEF CheckOrSetDedup
<1>8. CASE Send(c)
  <2>1. q = "notify" /\ MailOf(c) = EmailOf(m)
    BY <1>0, <1>1, <1>2, <1>8, ConsumerMail DEF Send, HandShape, Serving
  <2>2. sent'[EmailOf(m)] > 0
    BY <1>0, <1>2, <1>8, <2>1 DEF Send, Leaves, MailShape
  <2> QED
    BY <2>1, <2>2 DEF Kept, Ended, EmailOf
<1>9. ASSUME NEW n \in Nat, queue' = [queue EXCEPT
                 ![Reads[c]] = BagAdd(@, Copy(hand[c].msg, n))]
      PROVE  Kept(q, m)'
  <2>1. Copy(m, n) \in BagToSet(queue'[q])
    BY <1>0, <1>1, <1>2, <1>9, HeldCopy, OneMore
  <2> QED
    BY <2>1 DEF Kept, InQueue, Copy
<1>10. CASE Forward(c)
  BY <1>1, <1>2, <1>9, <1>10 DEF Forward, Kept, Ended
<1>11. CASE Crash(c)
  BY <1>2, <1>9, <1>11 DEF Crash
<1>12. ~ Take(c) /\ ~ Ack(c)
  BY <1>1, <1>2 DEF Take, Ack, AtWork
<1> QED
  BY <1>3, <1>5, <1>6, <1>7, <1>8, <1>10, <1>11, <1>12, OwnHand

(* Every step keeps what was kept.                                         *)
LEMMA KeptStays ==
  ASSUME Shape, Remembers, [DeliveryNext]_vars,
         NEW q \in QueueName, NEW m \in Message, Kept(q, m)
  PROVE  Kept(q, m)'
BY EndedStays, QueuedIsTaken, HeldIsKept DEF Kept

(* A row that is new in published or marked has just been routed.          *)
LEMMA OutIsRouted ==
  ASSUME Shape, [DeliveryNext]_vars, NEW id \in Out', id \notin Out
  PROVE  id \in DOMAIN outbox /\ Route(outbox[id])
<1>0. RelayShape
  BY DEF Shape
<1>1. ASSUME NEW r \in Relay, Publish(r)
      PROVE  id \in DOMAIN outbox /\ Route(outbox[id])
  <2>1. PICK new \in DOMAIN outbox :
            /\ Route(outbox[new])
            /\ batch' = [batch EXCEPT ![r] = [todo |-> @.todo \ {new},
                                     marked |-> @.marked \cup {new}]]
    BY <1>1 DEF Publish
  <2>2. UNCHANGED published
    BY <1>1 DEF Publish
  <2>3. ASSUME NEW x \in Relay
        PROVE  batch'[x].marked \subseteq batch[x].marked \cup {new}
    BY <1>0, <2>1 DEF RelayShape
  <2>4. id = new
    BY <2>2, <2>3 DEF Out
  <2> QED
    BY <2>1, <2>4
<1>2. ASSUME NEW r \in Relay, CommitBatch(r) \/ StopBatch(r) \/ ReadBatch(r)
                              \/ RelayCrash(r)
      PROVE  FALSE
  <2>1. published' \subseteq published \cup batch[r].marked
    BY <1>2 DEF CommitBatch, StopBatch, ReadBatch, RelayCrash, Marked
  <2>2. batch' = [batch EXCEPT ![r] = NoBatch] \/ ReadBatch(r)
    BY <1>2 DEF CommitBatch, StopBatch, RelayCrash
  <2>3. ASSUME NEW x \in Relay
        PROVE  batch'[x].marked \subseteq batch[x].marked
    BY <1>0, <2>2 DEF RelayShape, ReadBatch, NoBatch
  <2> QED
    BY <2>1, <2>3 DEF Out
<1>3. ASSUME ~ \E r \in Relay :
                 RelayStep(r) \/ StopBatch(r) \/ RelayCrash(r)
      PROVE  UNCHANGED relayVars
  BY <1>3 DEF DeliveryNext, SaleTx, Expire, Take, ConsumeStep,
     HandleOrderPaid, NotifyStep, CheckOrSetDedup, Send, Settle, Forward, Ack,
     LookupFails, Crash, SendFails, ManualSend, ManualAnswer, VerifyTicket,
     CheckIn, vars
<1>4. ~ UNCHANGED relayVars
  BY DEF Out, relayVars
<1> QED
  BY <1>1, <1>2, <1>3, <1>4 DEF RelayStep

(* So nothing that was routed is forgotten.                                *)
LEMMA StepUnforgotten ==
  ASSUME Shape, Remembers, Unforgotten, [DeliveryNext]_vars
  PROVE  Unforgotten'
<1>1. Out \subseteq DOMAIN outbox
  BY DEF Shape, RelayShape, Out
<1>2. \A id \in DOMAIN outbox :
          outbox[id] \in Message /\ outbox'[id] = outbox[id]
  BY StepSale DEF Shape, RelayShape
<1>3. ASSUME NEW id \in Out', NEW q \in Bindings(outbox'[id].key)
      PROVE  \E m \in Message : m = outbox'[id] /\ Kept(q, m)'
  <2>1. CASE id \in Out
    <3>1. Kept(q, outbox[id]) /\ id \in DOMAIN outbox /\ q \in QueueName
      BY <1>1, <1>2, <1>3, <2>1, BindingsType DEF Unforgotten
    <3> QED
      BY <1>2, <3>1, KeptStays
  <2>2. CASE id \notin Out
    <3>1. id \in DOMAIN outbox /\ Route(outbox[id])
      BY <2>2, OutIsRouted
    <3>2. PICK m \in Message : m = outbox[id] /\ m = outbox'[id]
      BY <1>2, <3>1
    <3>3. InQueue(q, m)'
      BY <1>3, <3>1, <3>2, RouteAdds DEF InQueue, Shape
    <3> QED
      BY <3>2, <3>3 DEF Kept
  <2> QED
    BY <2>1, <2>2
<1>4. ASSUME NEW id \in Out', NEW q \in Bindings(outbox[id].key)'
      PROVE  Kept(q, outbox[id])'
  <2>1. PICK m \in Message : m = outbox'[id] /\ Kept(q, m)'
    BY <1>3, <1>4
  <2>2. InQueue(q, m)' => InQueue(q, outbox[id])'
    BY <2>1 DEF InQueue
  <2>3. InHand(q, m)' => InHand(q, outbox[id])'
    BY <2>1 DEF InHand
  <2>4. Ended(q, m)' => Ended(q, outbox[id])'
    BY <2>1 DEF Ended, EmailOf
  <2> QED
    BY <2>1, <2>2, <2>3, <2>4 DEF Kept
<1> QED
  BY <1>4 DEF Unforgotten

(* At least once, end to end, for any number of relays and consumers, any  *)
(* batch, and any crashes, failures and lost confirmations of any of them: *)
(* a row with a published_at waits in every queue bound to its key, or     *)
(* somebody works on it, or it is a dead letter, or its work is done.      *)
THEOREM NothingIsLost == DeliverySpec => []NothingLost
<1>1. DeliveryInit => Shape /\ Remembers /\ Unforgotten
  <2>1. DeliveryInit => Remembers
    BY DEF DeliveryInit, Remembers, EmailOf, Mail, Channel
  <2>2. DeliveryInit => Unforgotten
    BY DEF DeliveryInit, Unforgotten, Out, NoBatch
  <2> QED
    BY <2>1, <2>2, ShapeInitially
<1>2. Shape /\ Remembers /\ Unforgotten /\ [DeliveryNext]_vars
        => Shape' /\ Remembers' /\ Unforgotten'
  BY ShapeStep, StepRemembers, StepUnforgotten
<1>3. Shape /\ Unforgotten => NothingLost
  <2>1. ASSUME Shape, NEW q \in QueueName, NEW m \in Message, Kept(q, m)
        PROVE  Served(q, m) \/ (q = "notify" /\ m \in asked)
    <3>1. InHand(q, m) => \E p \in Process :
              hand[p] # Idle /\ hand[p].msg = m /\ Serving(p) = q
      BY DeliveryAssumption DEF InHand, Process, Serving, Idle, AtWork
    <3> QED
      BY <2>1, <3>1 DEF Kept, InQueue, Ended, EmailOf, Served
  <2>2. ASSUME Shape, NEW id \in published
        PROVE  outbox[id] \in Message
    BY <2>2 DEF Shape, RelayShape
  <2> QED
    BY <2>1, <2>2, BindingsType DEF Unforgotten, Out, NothingLost
<1> QED
  BY <1>1, <1>2, <1>3, PTL DEF DeliverySpec

-----------------------------------------------------------------------------
(* A ticket exists after its order was paid, somebody came in with it only *)
(* if it says so, and a refunded order has no usable ticket.               *)
DoorShape ==
    /\ ticket \in [Order -> TicketStatus]
    /\ entered \in [Order -> Nat]
    /\ scan \in [Scanner -> Order \cup {NotAtTheDoor}]

(* The states of an order, of its ticket and of the door that occur        *)
(* together: a ticket is entered once because it is checked in once.       *)
TicketsFit == \A o \in Order :
    /\ order[o] \in {"PAYMENT_PENDING", "PAID"} => ticket[o] = "none"
    /\ ticket[o] \in {"none", "ISSUED"} => entered[o] = 0
    /\ entered[o] <= 1
    /\ order[o] = "REFUNDED" => ticket[o] \in {"none", "VOID", "REFUNDED"}

(* Only payments, issuing, refunds and check-ins touch a ticket.           *)
LEMMA DoorMoves ==
  ASSUME Shape, [DeliveryNext]_vars
  PROVE  \/ /\ \E o \in Order : \/ Pay(o) \/ MarkRefunding(o) \/ Refund(o)
                               \/ IssueTickets(o)
            /\ UNCHANGED doorVars
         \/ \E s \in Scanner :
                CheckIn(s) \/ \E o \in Order : VerifyTicket(s, o)
         \/ UNCHANGED <<order, ticket, entered, scan>>
<1>1. ASSUME NEW c \in Consumer, HandleOrderPaid(c)
      PROVE  /\ \/ \E o \in Order : IssueTickets(o)
                \/ UNCHANGED saleVars
             /\ UNCHANGED doorVars
  <2>1. c \in Process /\ hand[c] # Idle
    BY <1>1 DEF HandleOrderPaid, Handling, Idle, Process
  <2>2. hand[c].msg.order \in Order
    BY <2>1 DEF Shape, HandShape, Busy, Message
  <2> QED
    BY <1>1, <2>2 DEF HandleOrderPaid
<1>2. ASSUME ~ \E o \in Order : SaleTx(o),
             ~ \E c \in Consumer : HandleOrderPaid(c),
             ~ \E s \in Scanner :
                   CheckIn(s) \/ \E o \in Order : VerifyTicket(s, o)
      PROVE  UNCHANGED <<order, ticket, entered, scan>>
  BY <1>2 DEF DeliveryNext, RelayStep, ReadBatch, Publish, CommitBatch,
     StopBatch, RelayCrash, Expire, Take, ConsumeStep, NotifyStep,
     CheckOrSetDedup, Send, Settle, Forward, Ack, LookupFails, Crash,
     SendFails, ManualSend, ManualAnswer, vars, saleVars, doorVars
<1> QED
  BY <1>1, <1>2 DEF SaleTx, saleVars, doorVars

(* No step brings an order, its ticket and the door out of accord.         *)
LEMMA StepTickets ==
  ASSUME Shape, DoorShape, TicketsFit, [DeliveryNext]_vars
  PROVE  DoorShape' /\ TicketsFit'
<1>0. order \in [Order -> OrderStatus]
  BY DEF Shape
<1>1. ASSUME NEW o \in Order, UNCHANGED doorVars,
             Pay(o) \/ MarkRefunding(o) \/ Refund(o) \/ IssueTickets(o)
      PROVE  DoorShape' /\ TicketsFit'
  <2>1. DoorShape'
    BY <1>1 DEF DoorShape, doorVars, Pay, MarkRefunding, Refund, IssueTickets,
                RefundTicket, TicketStatus
  <2>2. TicketsFit'
    BY <1>0, <1>1 DEF DoorShape, TicketsFit, doorVars, Pay, MarkRefunding,
                      Refund, IssueTickets, RefundTicket, TicketStatus
  <2> QED
    BY <2>1, <2>2
<1>2. ASSUME NEW s \in Scanner, CheckIn(s)
      PROVE  DoorShape' /\ TicketsFit'
  <2>1. scan[s] \in Order /\ UNCHANGED order
    BY <1>2 DEF CheckIn, DoorShape
  <2>2. DoorShape'
    BY <1>2, <2>1 DEF CheckIn, DoorShape, TicketStatus
  <2>3. TicketsFit'
    BY <1>0, <1>2, <2>1 DEF CheckIn, StillIssued, DoorShape, TicketsFit,
                            TicketStatus
  <2> QED
    BY <2>2, <2>3
<1>3. ASSUME NEW s \in Scanner, NEW o \in Order, VerifyTicket(s, o)
      PROVE  DoorShape' /\ TicketsFit'
  BY <1>3 DEF VerifyTicket, saleVars, DoorShape, TicketsFit
<1>4. CASE UNCHANGED <<order, ticket, entered, scan>>
  BY <1>4 DEF DoorShape, TicketsFit
<1> QED
  BY <1>1, <1>2, <1>3, <1>4, DoorMoves

(* BR-O8 for any number of scanners: nobody enters twice on one ticket,    *)
(* whoever verified it before, and a refund leaves no usable ticket.       *)
THEOREM OneEntryEach == DeliverySpec => []OneEntry
<1>1. DeliveryInit => Shape /\ DoorShape /\ TicketsFit
  BY ShapeInitially
  DEF DeliveryInit, DoorShape, TicketsFit, TicketStatus, NotAtTheDoor
<1>2. Shape /\ DoorShape /\ TicketsFit /\ [DeliveryNext]_vars
        => Shape' /\ DoorShape' /\ TicketsFit'
  BY ShapeStep, StepTickets
<1>3. TicketsFit => OneEntry
  BY DEF TicketsFit, OneEntry
<1> QED
  BY <1>1, <1>2, <1>3, PTL DEF DeliverySpec

-----------------------------------------------------------------------------
(* One consumer of the notification queue, as in the service: what it is   *)
(* about to send is PENDING in its memory, and nobody else is about to     *)
(* send it.                                                                *)
OneNotifier == \A c, d \in Consumer :
    Reads[c] = "notify" /\ Reads[d] = "notify" => c = d

Losses == Count("crash") + Count("lost_receipt")

SendsAlone ==
    /\ \A p \in Process :
          hand[p].at = "send" => dedup[MailOf(p)] = "PENDING"
    /\ \A p, x \in Process :
          /\ hand[p].at = "send" /\ hand[x].at = "send"
          /\ MailOf(p) = MailOf(x)
          => p = x
    /\ \A k \in Mail :
          sent[k] <= Losses + IF dedup[k] = "SENT" THEN 1 ELSE 0

(* Losses are counted, never forgotten.                                    *)
LEMMA LossesType ==
  ASSUME Shape
  PROVE  /\ Losses \in Nat /\ Count("crash") \in Nat
         /\ Count("lost_receipt") \in Nat
BY DEF Shape, MailShape, Losses, Count

(* A failure is counted as what it is.                                     *)
LEMMA FaultCounts ==
  ASSUME Shape, NEW f \in FaultKind, Fault(f)
  PROVE  /\ Count("crash")' = Count("crash") + (IF f = "crash" THEN 1 ELSE 0)
         /\ Count("lost_receipt")' =
                Count("lost_receipt") + (IF f = "lost_receipt" THEN 1 ELSE 0)
BY DEF Shape, MailShape, Fault, Count

(* No step takes a loss back.                                              *)
LEMMA LossesGrow ==
  ASSUME Shape, [DeliveryNext]_vars
  PROVE  Losses' >= Losses
<1>1. NoFault \/ UNCHANGED faults \/ \E f \in FaultKind : Fault(f)
  <2>1. ASSUME NEW c \in Consumer, HandleOrderPaid(c)
        PROVE  NoFault \/ \E f \in FaultKind : Fault(f)
    BY <2>1 DEF HandleOrderPaid, FaultKind
  <2> QED
    BY <2>1 DEF DeliveryNext, RelayStep, ReadBatch, Publish, CommitBatch,
       StopBatch, RelayCrash, SaleTx, Expire, Take, ConsumeStep, NotifyStep,
       CheckOrSetDedup, Send, Settle, Forward, Ack, LookupFails, Crash,
       SendFails, ManualSend, ManualAnswer, VerifyTicket, CheckIn, vars,
       FaultKind
<1>2. CASE NoFault \/ UNCHANGED faults
  BY <1>2, LossesType DEF NoFault, Losses, Count
<1>3. ASSUME NEW f \in FaultKind, Fault(f)
      PROVE  Losses' >= Losses
  BY <1>3, FaultCounts, LossesType DEF Losses
<1> QED
  BY <1>1, <1>2, <1>3

(* What a process about to send remembers is its own.                      *)
LEMMA StepSendsAlone ==
  ASSUME OneNotifier, Shape, SendsAlone, [DeliveryNext]_vars
  PROVE  SendsAlone'
<1>0. HandShape /\ MailShape
  BY DEF Shape
<1> DEFINE SentOnce(k) ==
               sent[k] <= Losses + IF dedup[k] = "SENT" THEN 1 ELSE 0
<1>1. ASSUME UNCHANGED <<dedup, sent>>,
             \A p \in Process : hand'[p].at = "send" => hand'[p] = hand[p]
      PROVE  SendsAlone'
  <2>1. ASSUME NEW p \in Process, hand'[p].at = "send"
        PROVE  hand[p].at = "send" /\ MailOf(p)' = MailOf(p)
    BY <1>1, <2>1 DEF MailOf
  <2>2. ASSUME NEW k \in Mail
        PROVE  SentOnce(k)'
    <3>1. SentOnce(k) /\ sent[k] \in Nat
      BY <1>0 DEF SendsAlone, MailShape
    <3>2. Losses' >= Losses /\ Losses \in Nat /\ Losses' \in Nat
      <4>1. Shape'
        BY ShapeStep
      <4>2. Losses' \in Nat
        BY <4>1 DEF Shape, MailShape, Losses, Count
      <4> QED
        BY <4>2, LossesGrow, LossesType
    <3>3. dedup'[k] = dedup[k] /\ sent'[k] = sent[k]
      BY <1>1
    <3>4. SentOnce(k)' <=>
              sent'[k] <= Losses' + IF dedup'[k] = "SENT" THEN 1 ELSE 0
      OBVIOUS
    <3> HIDE DEF SentOnce
    <3>5. sent[k] <= Losses + IF dedup[k] = "SENT" THEN 1 ELSE 0
      BY <3>1 DEF SentOnce
    <3> QED
      BY <3>1, <3>2, <3>3, <3>4, <3>5
  <2>3. \A p \in Process :
            (hand[p].at = "send" => dedup[MailOf(p)] = "PENDING")'
    BY <1>1, <2>1 DEF SendsAlone
  <2>4. \A p, x \in Process :
            /\ hand'[p].at = "send" /\ hand'[x].at = "send"
            /\ MailOf(p)' = MailOf(x)'
            => p = x
    BY <2>1 DEF SendsAlone
  <2> QED
    BY <2>2, <2>3, <2>4 DEF SendsAlone
<1>2. ASSUME NEW p \in Process, CheckOrSetDedup(p)
      PROVE  SendsAlone'
  <2>1. /\ hand[p].at = "handle" /\ Serving(p) = "notify"
        /\ UNCHANGED <<sent, faults>> /\ MailOf(p) \in Mail
    BY <1>2, ProcessMail DEF CheckOrSetDedup, AtUseCase, NoFault
  <2>2. CASE Advance(p) /\ UNCHANGED dedup
    <3>1. \A x \in Process : hand'[x].at = "send" => hand'[x] = hand[x]
      BY <1>0, <1>2, <2>1, <2>2, NextChannel DEF CheckOrSetDedup
    <3> QED
      BY <1>1, <2>1, <2>2, <3>1
  <2>3. CASE /\ ~ AlreadyProcessed(dedup[MailOf(p)])
             /\ dedup' = [dedup EXCEPT ![MailOf(p)] = "PENDING"]
             /\ Return(p, "send")
    <3>1. hand[p] \in Busy
      BY <2>1, ProcessMail
    <3>2. /\ hand'[p].at = "send" /\ MailOf(p)' = MailOf(p)
          /\ \A x \in Process : x # p => hand'[x] = hand[x]
      BY <1>0, <2>3, <3>1 DEF Return, HandShape, Busy, MailOf
    <3>3. \A x \in Process : x # p => MailOf(x)' = MailOf(x)
      BY <3>2 DEF MailOf
    <3>4. ASSUME NEW x \in Process, hand[x].at = "send"
          PROVE  MailOf(x) # MailOf(p) /\ MailOf(x) \in Mail
      BY <2>3, <3>4, ProcessMail DEF SendsAlone, AlreadyProcessed
    <3>5. ASSUME NEW x \in Process, hand'[x].at = "send"
          PROVE  dedup'[MailOf(x)'] = "PENDING"
      BY <1>0, <2>1, <2>3, <3>2, <3>3, <3>4, <3>5 DEF SendsAlone, MailShape
    <3>6. \A x, y \in Process :
              /\ hand'[x].at = "send" /\ hand'[y].at = "send"
              /\ MailOf(x)' = MailOf(y)'
              => x = y
      BY <3>2, <3>3, <3>4 DEF SendsAlone
    <3>7. ASSUME NEW k \in Mail
          PROVE  SentOnce(k)'
      <4>1. SentOnce(k) /\ Losses' = Losses
        BY <2>1 DEF SendsAlone, Losses, Count
      <4>2. dedup'[k] = "SENT" <=> dedup[k] = "SENT"
        BY <1>0, <2>1, <2>3 DEF MailShape, AlreadyProcessed
      <4> QED
        BY <2>1, <4>1, <4>2
    <3> QED
      BY <3>5, <3>6, <3>7 DEF SendsAlone
  <2> QED
    BY <1>2, <2>2, <2>3 DEF CheckOrSetDedup
<1>3. ASSUME NEW p \in Process, hand[p].at = "send",
             NEW status \in {"SENT", "FAILED"},
             dedup' = [dedup EXCEPT ![MailOf(p)] = status],
             hand'[p].at # "send",
             \A x \in Process : x # p => hand'[x] = hand[x],
             \A k \in Mail : SentOnce(k)'
      PROVE  SendsAlone'
  <2>1. MailOf(p) \in Mail /\ dedup[MailOf(p)] = "PENDING"
    BY <1>3, ProcessMail DEF SendsAlone
  <2>2. ASSUME NEW x \in Process, hand'[x].at = "send"
        PROVE  /\ hand[x].at = "send" /\ MailOf(x)' = MailOf(x)
               /\ MailOf(x) # MailOf(p)
    BY <1>3, <2>2 DEF MailOf, SendsAlone
  <2>3. ASSUME NEW x \in Process, hand'[x].at = "send"
        PROVE  dedup'[MailOf(x)'] = "PENDING"
    <3>1. MailOf(x) \in Mail /\ dedup[MailOf(x)] = "PENDING"
      BY <2>2, <2>3, ProcessMail DEF SendsAlone
    <3> QED
      BY <1>0, <1>3, <2>2, <2>3, <3>1 DEF MailShape
  <2>4. \A x, y \in Process :
            /\ hand'[x].at = "send" /\ hand'[y].at = "send"
            /\ MailOf(x)' = MailOf(y)'
            => x = y
    BY <2>2 DEF SendsAlone
  <2> QED
    BY <1>3, <2>3, <2>4 DEF SendsAlone
<1>4. ASSUME NEW p \in Process, Send(p)
      PROVE  SendsAlone'
  <2>1. /\ hand[p].at = "send" /\ MailOf(p) \in Mail
        /\ dedup[MailOf(p)] = "PENDING" /\ UNCHANGED faults
    BY <1>4, ProcessMail DEF Send, SendsAlone, NoFault
  <2>2. ASSUME NEW k \in Mail
        PROVE  SentOnce(k)'
    <3>1. SentOnce(k) /\ Losses' = Losses /\ sent[k] \in Nat
      BY <1>0, <2>1 DEF SendsAlone, Losses, Count, MailShape
    <3>2. Losses \in Nat
      BY LossesType
    <3> QED
      BY <1>0, <1>4, <2>1, <3>1, <3>2 DEF Send, Leaves, MailShape
  <2>3. hand'[p].at # "send" /\ \A x \in Process : x # p => hand'[x] = hand[x]
    BY <1>0, <1>4, <2>1, NextChannel DEF Send
  <2> QED
    BY <1>3, <1>4, <2>1, <2>2, <2>3 DEF Send
<1>5. ASSUME NEW p \in Process, SendFails(p)
      PROVE  SendsAlone'
  <2>1. /\ hand[p].at = "send" /\ MailOf(p) \in Mail /\ hand[p] \in Busy
        /\ dedup[MailOf(p)] = "PENDING"
    BY <1>5, ProcessMail DEF SendFails, SendsAlone
  <2>2. PICK f \in {"smtp_down", "lost_receipt"} :
            /\ Fault(f)
            /\ IF f = "lost_receipt" THEN Leaves(MailOf(p))
                                     ELSE UNCHANGED sent
    BY <1>5 DEF SendFails
  <2>3. dedup' = [dedup EXCEPT ![MailOf(p)] = "FAILED"]
    BY <1>5 DEF SendFails, MarkFailed
  <2>4. ASSUME NEW k \in Mail
        PROVE  SentOnce(k)'
    <3>1. SentOnce(k) /\ sent[k] \in Nat /\ Losses \in Nat
      BY <1>0, LossesType DEF SendsAlone, MailShape
    <3>2. Losses' = Losses + (IF f = "lost_receipt" THEN 1 ELSE 0)
      BY <2>2, FaultCounts, LossesType DEF FaultKind, Losses
    <3>3. sent'[k] = sent[k]
             + (IF f = "lost_receipt" /\ k = MailOf(p) THEN 1 ELSE 0)
      BY <1>0, <2>1, <2>2 DEF Leaves, MailShape
    <3>4. dedup'[k] = IF k = MailOf(p) THEN "FAILED" ELSE dedup[k]
      BY <1>0, <2>1, <2>3 DEF MailShape
    <3> QED
      BY <2>1, <3>1, <3>2, <3>3, <3>4
  <2>5. hand'[p].at # "send" /\ \A x \in Process : x # p => hand'[x] = hand[x]
    BY <1>0, <1>5, <2>1 DEF SendFails, Return, HandShape, Busy
  <2> QED
    BY <1>3, <2>1, <2>3, <2>4, <2>5
<1>6. ASSUME NEW c \in Consumer, Crash(c), Reads[c] = "notify"
      PROVE  SendsAlone'
  <2>1. c \in Process /\ UNCHANGED sent
    BY <1>6 DEF Crash, Process
  <2>2. ASSUME NEW x \in Process
        PROVE  hand'[x].at # "send"
    <3>1. CASE x \in Manual \/ x = c
      BY <1>6, <3>1 DEF Crash, Idle
    <3>2. CASE x \notin Manual /\ x # c
      <4>1. x \in Consumer /\ Serving(x) # "notify"
        BY <1>6, <3>2 DEF Process, OneNotifier, Serving
      <4>2. hand[x].at # "send"
        BY <1>0, <4>1 DEF HandShape, Idle
      <4> QED
        BY <1>6, <3>2, <4>2 DEF Crash
    <3> QED
      BY <3>1, <3>2
  <2>3. ASSUME NEW k \in Mail
        PROVE  SentOnce(k)'
    <3>1. SentOnce(k) /\ sent[k] \in Nat /\ Losses \in Nat
      BY <1>0, LossesType DEF SendsAlone, MailShape
    <3>2. Losses' = Losses + 1
      BY <1>6, FaultCounts, LossesType DEF Crash, FaultKind, Losses
    <3>3. dedup'[k] = "none"
      BY <1>6 DEF Crash
    <3> QED
      BY <2>1, <3>1, <3>2, <3>3
  <2> QED
    BY <2>2, <2>3 DEF SendsAlone
<1>7. ASSUME NEW c \in Consumer, Crash(c), Reads[c] # "notify"
      PROVE  SendsAlone'
  <2>1. UNCHANGED <<dedup, sent>> /\ hand' = [hand EXCEPT ![c] = Idle]
    BY <1>7 DEF Crash
  <2>2. \A x \in Process : hand'[x].at = "send" => hand'[x] = hand[x]
    BY <1>0, <2>1 DEF HandShape, Idle
  <2> QED
    BY <1>1, <2>1, <2>2
<1>8. ASSUME NEW c \in Consumer,
             Take(c) \/ HandleOrderPaid(c) \/ Settle(c) \/ LookupFails(c)
      PROVE  SendsAlone'
  <2>1. UNCHANGED <<dedup, sent>> /\ c \in Process
    BY <1>8 DEF Take, HandleOrderPaid, Settle, Forward, Ack, LookupFails,
                mailVars, Process
  <2>2. \A x \in Process : x # c => hand'[x] = hand[x]
    BY <1>0, <1>8 DEF Take, HandleOrderPaid, Settle, Forward, Ack,
                      LookupFails, Return, HandShape
  <2>3. hand'[c].at # "send"
    <3>1. CASE Take(c)
      BY <1>0, <2>1, <3>1 DEF Take, Work, HandShape
    <3>2. CASE Ack(c)
      BY <1>0, <2>1, <3>2 DEF Ack, Idle, HandShape
    <3>3. CASE HandleOrderPaid(c) \/ Forward(c) \/ LookupFails(c)
      <4>1. PICK at \in {"done", "permanent", "failed"} : Return(c, at)
        BY <3>3 DEF HandleOrderPaid, Forward, LookupFails, Verdict
      <4>2. hand[c] \in Busy
        BY <1>0, <2>1, <3>3 DEF HandleOrderPaid, Handling, Forward,
                                LookupFails, HandShape, Idle
      <4> QED
        BY <1>0, <2>1, <4>1, <4>2 DEF Return, HandShape, Busy
    <3> QED
      BY <1>8, <3>1, <3>2, <3>3 DEF Settle
  <2> QED
    BY <1>1, <2>1, <2>2, <2>3
<1>9. ASSUME NEW m \in Manual, ManualSend(m) \/ ManualAnswer(m)
      PROVE  SendsAlone'
  <2>1. UNCHANGED <<dedup, sent>> /\ m \in Process
    BY <1>9 DEF ManualSend, ManualAnswer, mailVars, Process
  <2>2. /\ \A x \in Process : x # m => hand'[x] = hand[x]
        /\ hand'[m].at # "send"
    BY <1>0, <1>9, <2>1 DEF ManualSend, ManualAnswer, Work, Idle, HandShape
  <2> QED
    BY <1>1, <2>1, <2>2
<1>10. ASSUME ~ \E p \in Process : NotifyStep(p) \/ SendFails(p),
              ~ \E c \in Consumer : Take(c) \/ HandleOrderPaid(c)
                    \/ Settle(c) \/ LookupFails(c) \/ Crash(c),
              ~ \E m \in Manual : ManualSend(m) \/ ManualAnswer(m)
       PROVE  UNCHANGED <<hand, dedup, sent>>
  BY <1>10 DEF DeliveryNext, RelayStep, ReadBatch, Publish, CommitBatch,
     StopBatch, RelayCrash, SaleTx, Expire, ConsumeStep, VerifyTicket,
     CheckIn, vars, mailVars, Process
<1> QED
  BY <1>1, <1>2, <1>4, <1>5, <1>6, <1>7, <1>8, <1>9, <1>10 DEF NotifyStep

(* Redelivered and retried as they may be, notifications go out once, and  *)
(* once more for each crash of the service or lost receipt of the mail     *)
(* server, for any number of relays, messages, attempts and operators.     *)
THEOREM NotifiedOncePerLoss ==
  ASSUME OneNotifier
  PROVE  DeliverySpec => []SentOncePerLoss
<1>1. DeliveryInit => Shape /\ SendsAlone
  <2>1. DeliveryInit => SendsAlone
    BY ShapeInitially, LossesType DEF DeliveryInit, SendsAlone, Idle
  <2> QED
    BY <2>1, ShapeInitially
<1>2. Shape /\ SendsAlone /\ [DeliveryNext]_vars => Shape' /\ SendsAlone'
  BY ShapeStep, StepSendsAlone
<1>3. Shape /\ SendsAlone => SentOncePerLoss
  <2>1. ASSUME Shape, SendsAlone, NEW k \in Mail
        PROVE  sent[k] <= 1 + Count("crash") + Count("lost_receipt")
    <3>1. sent[k] <= Losses + IF dedup[k] = "SENT" THEN 1 ELSE 0
      BY <2>1 DEF SendsAlone
    <3>2. sent[k] \in Nat
      BY <2>1 DEF Shape, MailShape
    <3> QED
      BY <2>1, <3>1, <3>2, LossesType DEF Losses
  <2> QED
    BY <2>1 DEF SentOncePerLoss
<1> QED
  BY <1>1, <1>2, <1>3, PTL DEF DeliverySpec

-----------------------------------------------------------------------------
(* Each once.  A message is written once: what is in the outbox tells how  *)
(* far its order has come, and no order comes that way again.              *)
After(key) ==
    IF key = "order.paid" THEN OrderStatus \ {"PAYMENT_PENDING"}
    ELSE IF key = "payment.refunded" THEN {"REFUNDED"}
    ELSE {"ISSUED", "REFUNDING", "REFUNDED"}

WrittenOnce ==
    /\ IsInjective(outbox)
    /\ \A id \in DOMAIN outbox :
          order[outbox[id].order] \in After(outbox[id].key)

(* A transaction that writes a message moves its order past the states in  *)
(* which that message is still to come.                                    *)
LEMMA TxWritesOnce ==
  ASSUME Shape, WrittenOnce, NEW o \in Order, OrderTx(o)
  PROVE  WrittenOnce'
<1>0. /\ outbox \in Seq(Message) /\ order \in [Order -> OrderStatus]
      /\ \A id \in DOMAIN outbox : outbox[id] \in Message
  BY DEF Shape, RelayShape
<1>1. ASSUME NEW p \in Order, NEW key \in RoutingKey, order[p] \in After(key)
      PROVE  order'[p] \in After(key)
  BY <1>0, <1>1 DEF OrderTx, Pay, MarkRefunding, Refund, IssueTickets, After,
                    OrderStatus, RoutingKey
<1>2. ASSUME NEW id \in DOMAIN outbox
      PROVE  order'[outbox[id].order] \in After(outbox[id].key)
  BY <1>0, <1>1 DEF WrittenOnce, Message
<1>3. CASE UNCHANGED outbox
  BY <1>2, <1>3 DEF WrittenOnce
<1>4. ASSUME NEW key \in RoutingKey, outbox' = Append(outbox, Msg(key, o)),
             order[o] \notin After(key), order'[o] \in After(key)
      PROVE  WrittenOnce'
  <2>1. /\ Len(outbox) \in Nat /\ DOMAIN outbox = 1..Len(outbox)
        /\ DOMAIN outbox' = 1..(Len(outbox) + 1)
        /\ \A id \in DOMAIN outbox : outbox'[id] = outbox[id]
        /\ outbox'[Len(outbox) + 1] = Msg(key, o)
    BY <1>0, <1>4
  <2>2. Msg(key, o).key = key /\ Msg(key, o).order = o
    BY DEF Msg
  <2>3. \A id \in DOMAIN outbox : outbox[id] # Msg(key, o)
    BY <1>4, <2>2 DEF WrittenOnce
  <2>4. IsInjective(outbox')
    BY <2>1, <2>3 DEF WrittenOnce, IsInjective
  <2>5. \A id \in DOMAIN outbox' :
           order'[outbox'[id].order] \in After(outbox'[id].key)
    BY <1>2, <1>4, <2>1, <2>2
  <2> QED
    BY <2>4, <2>5 DEF WrittenOnce
<1> QED
  BY <1>0, <1>3, <1>4 DEF OrderTx, Pay, MarkRefunding, Refund, IssueTickets,
                          Write, After, OrderStatus, RoutingKey

(* No step writes a message that the outbox has already.                   *)
LEMMA StepWritesOnce ==
  ASSUME Shape, WrittenOnce, [DeliveryNext]_vars
  PROVE  WrittenOnce'
<1>1. CASE UNCHANGED <<order, outbox>>
  BY <1>1 DEF WrittenOnce
<1> QED
  BY <1>1, SaleMoves, TxWritesOnce

(* A row that one relay has locked is no other's, and is not published yet *)
RowsOf(r) == batch[r].todo \cup batch[r].marked

LocksApart ==
    /\ \A r \in Relay : RowsOf(r) \cap published = {}
    /\ \A r, s \in Relay : r # s => RowsOf(r) \cap RowsOf(s) = {}

(* FOR UPDATE SKIP LOCKED, the publishing and every end of a batch keep    *)
(* the relays out of each other's rows.                                    *)
LEMMA StepLocks ==
  ASSUME Shape, LocksApart, [DeliveryNext]_vars
  PROVE  LocksApart'
<1>0. batch \in [Relay -> [todo : SUBSET Nat, marked : SUBSET Nat]]
  BY DEF Shape, RelayShape
<1>1. CASE UNCHANGED relayVars
  BY <1>1 DEF LocksApart, RowsOf, relayVars
<1>2. ASSUME NEW r \in Relay, NEW b, batch' = [batch EXCEPT ![r] = b]
      PROVE  /\ RowsOf(r)' = b.todo \cup b.marked
             /\ \A s \in Relay : s # r => RowsOf(s)' = RowsOf(s)
  BY <1>0, <1>2 DEF RowsOf
<1>3. ASSUME NEW r \in Relay, ReadBatch(r)
      PROVE  LocksApart'
  <2>1. PICK b : b = [batch[r] EXCEPT !.todo = Oldest(Due(r))]
    OBVIOUS
  <2>2. batch' = [batch EXCEPT ![r] = b] /\ UNCHANGED published
    BY <1>0, <1>3, <2>1 DEF ReadBatch
  <2>3. b.todo = Oldest(Due(r)) /\ b.marked = {}
    BY <1>0, <1>3, <2>1 DEF ReadBatch, NoBatch
  <2>4. /\ RowsOf(r)' = Oldest(Due(r))
        /\ \A s \in Relay : s # r => RowsOf(s)' = RowsOf(s)
    BY <1>2, <2>2, <2>3
  <2>5. /\ Oldest(Due(r)) \cap published = {}
        /\ \A s \in Relay : Oldest(Due(r)) \cap RowsOf(s) = {}
    BY DEF Oldest, Due, NotLocked, Locked, RowsOf
  <2> QED
    BY <2>2, <2>4, <2>5 DEF LocksApart
<1>4. ASSUME NEW r \in Relay, Publish(r)
      PROVE  LocksApart'
  <2>1. PICK id \in batch[r].todo :
           batch' = [batch EXCEPT ![r] = [todo |-> @.todo \ {id},
                                          marked |-> @.marked \cup {id}]]
    BY <1>4 DEF Publish, IsNext
  <2>2. PICK b : b = [todo |-> batch[r].todo \ {id},
                      marked |-> batch[r].marked \cup {id}]
    OBVIOUS
  <2>3. batch' = [batch EXCEPT ![r] = b] /\ UNCHANGED published
    BY <1>0, <1>4, <2>1, <2>2 DEF Publish
  <2>4. b.todo \cup b.marked = RowsOf(r)
    BY <2>2 DEF RowsOf
  <2>5. \A s \in Relay : RowsOf(s)' = RowsOf(s)
    BY <1>2, <2>3, <2>4
  <2> QED
    BY <2>3, <2>5 DEF LocksApart
<1>5. ASSUME NEW r \in Relay, CommitBatch(r) \/ StopBatch(r) \/ RelayCrash(r)
      PROVE  LocksApart'
  <2>1. /\ batch' = [batch EXCEPT ![r] = NoBatch]
        /\ published' \subseteq published \cup RowsOf(r)
    BY <1>5 DEF CommitBatch, StopBatch, RelayCrash, Marked, RowsOf
  <2>2. PICK b : b = NoBatch
    OBVIOUS
  <2>3. b.todo \cup b.marked = {}
    BY <2>2 DEF NoBatch
  <2>4. batch' = [batch EXCEPT ![r] = b]
    BY <2>1, <2>2
  <2>5. /\ RowsOf(r)' = {}
        /\ \A s \in Relay : s # r => RowsOf(s)' = RowsOf(s)
    BY <1>2, <2>3, <2>4
  <2> QED
    BY <2>1, <2>5 DEF LocksApart
<1>6. ASSUME ~ \E r \in Relay :
                 RelayStep(r) \/ StopBatch(r) \/ RelayCrash(r)
      PROVE  UNCHANGED relayVars
  BY <1>6 DEF DeliveryNext, SaleTx, Expire, Take, ConsumeStep,
     HandleOrderPaid, NotifyStep, CheckOrSetDedup, Send, Settle, Forward, Ack,
     LookupFails, Crash, SendFails, ManualSend, ManualAnswer, VerifyTicket,
     CheckIn, vars
<1> QED
  BY <1>1, <1>3, <1>4, <1>5, <1>6 DEF RelayStep

(* A copy is one of a message in the outbox, at one of its attempts.       *)
Fits(k) == k.attempt \in 1..MaxAttempts /\ k.msg \in ToSet(outbox)

CopiesFit ==
    /\ \A q \in QueueName : \A k \in BagToSet(queue[q]) : Fits(k)
    /\ \A c \in Consumer : hand[c] # Idle => Fits(hand[c])
    /\ \A d \in dlq : d.msg \in ToSet(outbox)

(* The outbox only grows, so a copy that fits stays one.                   *)
LEMMA FitsOn ==
  ASSUME Shape, [DeliveryNext]_vars
  PROVE  /\ ToSet(outbox) \subseteq ToSet(outbox')
         /\ \A k : Fits(k) => /\ k.attempt \in 1..MaxAttempts
                              /\ k.msg \in ToSet(outbox')
<1>1. ToSet(outbox) \subseteq ToSet(outbox')
  BY StepSale DEF ToSet
<1> QED
  BY <1>1 DEF Fits

(* What a consumer takes from a queue, keeps, or forwards to retry fits.   *)
LEMMA HandFits ==
  ASSUME Shape, CopiesFit, [DeliveryNext]_vars,
         NEW c \in Consumer, hand'[c] # Idle
  PROVE  Fits(hand[c])' \/ hand'[c] = hand[c]
<1>0. /\ HandShape /\ c \in Process /\ c \notin Manual
      /\ hand \in [Process -> {Idle} \cup Busy]
  BY DeliveryAssumption DEF Shape, HandShape, Process
<1>1. ASSUME hand[c] # Idle, hand'[c].attempt = hand[c].attempt,
             hand'[c].msg = hand[c].msg
      PROVE  Fits(hand[c])'
  BY <1>1, FitsOn DEF CopiesFit, Fits
<1>2. ASSUME NEW at, hand[c] # Idle, Return(c, at)
      PROVE  Fits(hand[c])'
  <2>1. hand[c] \in Busy
    BY <1>0, <1>2
  <2>2. hand'[c] = [hand[c] EXCEPT !.at = at]
    BY <1>0, <1>2 DEF Return
  <2>3. hand'[c].attempt = hand[c].attempt /\ hand'[c].msg = hand[c].msg
    BY <2>1, <2>2 DEF Busy
  <2> QED
    BY <1>1, <1>2, <2>3
<1>3. ASSUME hand[c].at \in {"handle", "send"}, Advance(c)
      PROVE  Fits(hand[c])'
  <2>1. hand[c] \in Busy /\ hand[c] # Idle
    BY <1>0, <1>3 DEF Idle
  <2>2. \E rest, at : hand'[c] = [hand[c] EXCEPT !.left = rest, !.at = at]
    BY <1>0, <1>3 DEF Advance
  <2>3. hand'[c].attempt = hand[c].attempt /\ hand'[c].msg = hand[c].msg
    BY <2>1, <2>2 DEF Busy
  <2> QED
    BY <1>1, <2>1, <2>3
<1>4. CASE Take(c)
  <2>1. PICK k \in BagToSet(queue[Reads[c]]) :
           hand' = [hand EXCEPT
               ![c] = Work(k.msg, k.attempt, "handle", <<"email">>)]
    BY <1>4 DEF Take
  <2>2. Fits(k)
    BY DeliveryAssumption DEF CopiesFit
  <2>3. hand'[c].attempt = k.attempt /\ hand'[c].msg = k.msg
    BY <1>0, <2>1 DEF Work
  <2> QED
    BY <2>2, <2>3, FitsOn DEF Fits
<1>5. CASE HandleOrderPaid(c) \/ LookupFails(c)
  BY <1>2, <1>5 DEF HandleOrderPaid, LookupFails, Handling, Idle
<1>6. CASE CheckOrSetDedup(c) \/ Send(c) \/ SendFails(c)
  BY <1>2, <1>3, <1>6 DEF CheckOrSetDedup, AtUseCase, Send, SendFails, Idle
<1>7. CASE Forward(c)
  BY <1>2, <1>7 DEF Forward, Idle
<1>8. CASE Ack(c) \/ Crash(c)
  BY <1>0, <1>8 DEF Ack, Crash
<1> QED
  BY <1>4, <1>5, <1>6, <1>7, <1>8, OwnHand

(* Relays, brokers and consumers make no copy that does not fit.           *)
LEMMA StepCopies ==
  ASSUME Shape, CopiesFit, [DeliveryNext]_vars
  PROVE  CopiesFit'
<1>0. /\ QueueShape /\ outbox \in Seq(Message)
      /\ \A q \in QueueName : \A k \in BagToSet(queue[q]) : Fits(k)'
      /\ \A c \in Consumer : hand[c] # Idle => Fits(hand[c])
      /\ \A d \in dlq : d.msg \in ToSet(outbox')
      /\ ToSet(outbox) \subseteq ToSet(outbox')
  BY FitsOn DEF Shape, RelayShape, CopiesFit, Fits
<1>1. ASSUME NEW c \in Consumer, hand'[c] # Idle
      PROVE  Fits(hand[c])'
  BY <1>0, <1>1, HandFits, FitsOn DEF Fits
<1>2. ASSUME NEW q \in QueueName, NEW k \in BagToSet(queue'[q])
      PROVE  Fits(k)'
  <2>1. CASE UNCHANGED queue
    BY <1>0, <2>1
  <2>2. ASSUME NEW id \in DOMAIN outbox, Route(outbox[id])
        PROVE  Fits(k)'
    <3>1. k \in BagToSet(queue[q]) \cup {Copy(outbox[id], 1)}
      BY <2>2, AddToBag DEF Route
    <3>2. outbox[id] \in ToSet(outbox')
      BY <1>0 DEF ToSet
    <3>3. 1 \in 1..MaxAttempts
      BY DeliveryAssumption
    <3>4. Copy(outbox[id], 1).attempt = 1 /\ Copy(outbox[id], 1).msg = outbox[id]
      BY DEF Copy
    <3> QED
      BY <1>0, <3>1, <3>2, <3>3, <3>4 DEF Fits
  <2>3. ASSUME NEW c \in Consumer, Take(c)
        PROVE  Fits(k)'
    <3>1. k \in BagToSet(queue[q])
      BY <2>3, RemoveFromBag DEF Take, QueueShape, Shape
    <3> QED
      BY <1>0, <3>1
  <2>4. ASSUME NEW c \in Consumer, hand[c] # Idle, NEW n \in 1..MaxAttempts,
               queue' = [queue EXCEPT
                   ![Reads[c]] = BagAdd(@, Copy(hand[c].msg, n))]
        PROVE  Fits(k)'
    <3>1. k \in BagToSet(queue[q]) \cup {Copy(hand[c].msg, n)}
      BY <1>0, <2>4, AddToBag DEF QueueShape
    <3>2. hand[c].msg \in ToSet(outbox')
      BY <1>0, <2>4 DEF Fits
    <3>3. /\ Copy(hand[c].msg, n).attempt = n
          /\ Copy(hand[c].msg, n).msg = hand[c].msg
      BY DEF Copy
    <3> QED
      BY <1>0, <3>1, <3>2, <3>3 DEF Fits
  <2>5. ASSUME NEW c \in Consumer, Forward(c)
        PROVE  Fits(k)'
    <3>1. hand[c] # Idle
      BY <2>5 DEF Forward, Idle
    <3>2. hand[c].attempt \in 1..MaxAttempts /\ MaxAttempts \in Nat
      BY <1>0, <3>1, DeliveryAssumption DEF Fits
    <3>3. CASE GivesUp(c)
      BY <2>1, <2>5, <3>3 DEF Forward
    <3>4. CASE ~GivesUp(c)
      <4>1. hand[c].attempt + 1 \in 1..MaxAttempts
        BY <3>2, <3>4 DEF GivesUp
      <4> QED
        BY <2>4, <2>5, <3>1, <3>4, <4>1 DEF Forward
    <3> QED
      BY <3>3, <3>4
  <2>6. ASSUME NEW c \in Consumer, Crash(c)
        PROVE  Fits(k)'
    BY <1>0, <2>4, <2>6 DEF Crash, Fits
  <2>7. ASSUME NEW r \in Relay, Publish(r) \/ StopBatch(r)
        PROVE  Fits(k)'
    BY <2>1, <2>2, <2>7 DEF Publish, StopBatch
  <2>8. ASSUME ~ \E r \in Relay : Publish(r) \/ StopBatch(r),
               ~ \E c \in Consumer : Take(c) \/ Forward(c) \/ Crash(c)
        PROVE  UNCHANGED queue
    BY <2>8 DEF DeliveryNext, RelayStep, ReadBatch, CommitBatch, RelayCrash,
       SaleTx, Expire, ConsumeStep, HandleOrderPaid, NotifyStep,
       CheckOrSetDedup, Send, Settle, Ack, LookupFails, SendFails, ManualSend,
       ManualAnswer, VerifyTicket, CheckIn, vars, brokerVars
  <2> QED
    BY <2>1, <2>3, <2>5, <2>6, <2>7, <2>8
<1>3. ASSUME NEW d \in dlq'
      PROVE  d.msg \in ToSet(outbox')
  <2>1. CASE \E c \in Consumer : Forward(c)
    <3>1. PICK c \in Consumer : Forward(c)
      BY <2>1
    <3>2. hand[c] # Idle
      BY <3>1 DEF Forward, Idle
    <3> QED
      BY <1>0, <3>1, <3>2 DEF Forward, Fits
  <2>2. CASE ~ \E c \in Consumer : Forward(c)
    <3>1. UNCHANGED dlq
      BY <2>2 DEF DeliveryNext, RelayStep, ReadBatch, Publish, CommitBatch,
         StopBatch, RelayCrash, SaleTx, Expire, Take, ConsumeStep,
         HandleOrderPaid, NotifyStep, CheckOrSetDedup, Send, Settle, Ack,
         LookupFails, Crash, SendFails, ManualSend, ManualAnswer,
         VerifyTicket, CheckIn, vars, brokerVars
    <3> QED
      BY <1>0, <3>1
  <2> QED
    BY <2>1, <2>2
<1> QED
  BY <1>1, <1>2, <1>3 DEF CopiesFit

(* The QR codes' deadline is one of an order.                              *)
LEMMA StepExpired ==
  ASSUME expired \subseteq Order, [DeliveryNext]_vars
  PROVE  expired' \subseteq Order
BY DEF DeliveryNext, RelayStep, ReadBatch, Publish, CommitBatch, StopBatch,
   RelayCrash, SaleTx, Expire, Take, ConsumeStep, HandleOrderPaid, NotifyStep,
   CheckOrSetDedup, Send, Settle, Forward, Ack, LookupFails, Crash, SendFails,
   ManualSend, ManualAnswer, VerifyTicket, CheckIn, vars, doorVars

(* A transaction writes each message once, SKIP LOCKED gives a row to one  *)
(* relay at a time and never again once its batch is committed, and no     *)
(* delivery is tried more often than ConsumerConfig.MaxAttempts, whatever  *)
(* crashes and redeliveries come between.                                  *)
THEOREM DeliveryTypes == DeliverySpec => []DeliveryTypeOK
<1> DEFINE Inv == /\ Shape /\ DoorShape /\ TicketsFit
                  /\ WrittenOnce /\ LocksApart /\ CopiesFit
                  /\ expired \subseteq Order
<1>1. DeliveryInit => Inv
  <2> SUFFICES ASSUME DeliveryInit
               PROVE  Inv
    OBVIOUS
  <2>1. Shape /\ DoorShape /\ TicketsFit
    BY ShapeInitially
    DEF DeliveryInit, DoorShape, TicketsFit, TicketStatus, NotAtTheDoor
  <2>2. WrittenOnce
    BY DEF DeliveryInit, WrittenOnce, IsInjective
  <2>3. LocksApart
    BY DEF DeliveryInit, LocksApart, RowsOf, NoBatch
  <2>4. CopiesFit
    BY DEF DeliveryInit, CopiesFit, Process, BagToSet, EmptyBag, SetToBag
  <2> QED
    BY <2>1, <2>2, <2>3, <2>4 DEF DeliveryInit
<1>2. Inv /\ [DeliveryNext]_vars => Inv'
  BY ShapeStep, StepTickets, StepWritesOnce, StepLocks, StepCopies,
     StepExpired
<1>3. Inv => DeliveryTypeOK
  <2> SUFFICES ASSUME Inv
               PROVE  DeliveryTypeOK
    OBVIOUS
  <2>1. Locked \subseteq DOMAIN outbox \ published
    BY DEF Locked, LocksApart, RowsOf, Shape, RelayShape
  <2>2. \A q \in QueueName : \A k \in BagToSet(queue[q]) :
           k.attempt \in 1..MaxAttempts /\ k.msg \in ToSet(outbox)
    BY DEF CopiesFit, Fits
  <2>3. dedup \in [Mail -> {"none", "PENDING", "SENT", "FAILED"}]
        /\ sent \in [Mail -> Nat]
    BY DEF Shape, MailShape, MailStatus
  <2> QED
    BY <2>1, <2>2, <2>3
    DEF DeliveryTypeOK, Shape, OrderStatus, DoorShape, RelayShape, WrittenOnce,
        CopiesFit
<1> QED
  BY <1>1, <1>2, <1>3, PTL DEF DeliverySpec

-----------------------------------------------------------------------------
(* The key store: IdemStore alone.                                         *)
(* The key in a request's hand, and what its row says then.                *)
HandsAndFate ==
    /\ \A r \in Request : stage[r] \in {"begin", "refused"}
          => fate[r] = "none" /\ tries[r] < MaxBeginAttempts
    /\ \A r \in Request :
          stage[r] \in {"running", "result", "no_result"} => fate[r] = "held"

RowsInTime ==
    \A k \in table : k.created <= clock /\ k.expires = k.created + TTL

StoredRows ==
    \A k \in table : \A q \in k.response :
        /\ k.response = {q} /\ k.hash = Hash[q]
        /\ fate[q] = "stored" /\ token[q] = k.created

Response(r) == IF fate[r] = "stored" THEN {r} ELSE {}
RowOf(r, k) ==
    k.created = token[r] /\ k.hash = Hash[r] /\ k.response = Response(r)

(* Within its term a request that did not give the key up has its row.     *)
Keeps(r) == fate[r] \in {"held", "stored"}
Undisturbed ==
    \A r \in Request : Keeps(r) /\ clock < token[r] + Term(r)
        => \E k \in table : RowOf(r, k)

OneToken ==
    \A q, r \in Request : q # r /\ Keeps(q) /\ Keeps(r) => token[q] # token[r]

LatestRow ==
    \A r \in Ran : token[r] <= clock /\ \A k \in table : token[r] <= k.created

RowHash ==
    \A r \in Request : Keeps(r) => \A k \in Owned(r) : k.hash = Hash[r]

Sources ==
    \A r \in Request : \A q \in source[r] :
        fate[q] = "stored" /\ Hash[q] = Hash[r]

IdemInv ==
    /\ IdemTypeOK
    /\ HandsAndFate
    /\ RowsInTime
    /\ StoredRows
    /\ Undisturbed
    /\ OneToken
    /\ LatestRow
    /\ RowHash
    /\ RunsApart
    /\ Sources

-----------------------------------------------------------------------------
(* The case in which a key can be claimed: whoever had it before gave it   *)
(* up, or has had its time.                                                *)
LEMMA TermsEnd ==
  ASSUME IdemInv, Claimable, NEW q \in Ran
  PROVE  fate[q] = "given_up" \/ (Keeps(q) /\ token[q] + Term(q) <= clock)
<1> SUFFICES ASSUME Keeps(q), clock < token[q] + Term(q)
             PROVE  FALSE
  BY IdemAssumption DEF Ran, IdemInv, IdemTypeOK, Fate, Keeps, Term
<1>1. PICK k \in table : RowOf(q, k)
  BY DEF IdemInv, Undisturbed, Ran
<1>2. k.expires = token[q] + TTL /\ k.created = token[q]
  BY <1>1 DEF IdemInv, RowsInTime, RowOf
<1>3. k.expires <= clock \/ LeaseOver(k)
  BY DEF Claimable
<1>4. token[q] \in Nat /\ clock \in Nat
  BY DEF IdemInv, IdemTypeOK, Ran
<1>5. k.response # {} => fate[q] = "stored"
  BY <1>1 DEF RowOf, Response
<1> QED
  BY <1>1, <1>2, <1>3, <1>4, <1>5, IdemAssumption
     DEF LeaseOver, Term, Response, RowOf

(* Terms last, so tokens of earlier owners are smaller.                    *)
LEMMA TermsLast ==
  ASSUME IdemTypeOK, NEW q \in Request
  PROVE  Term(q) \in Nat \ {0}
BY IdemAssumption DEF Term

(* With no row and no request begun there is nothing to keep apart.        *)
LEMMA IdemInitially == IdemInit => IdemInv
<1> SUFFICES ASSUME IdemInit PROVE IdemInv
  OBVIOUS
<1>1. IdemTypeOK
  BY IdemAssumption DEF IdemInit, IdemTypeOK, Place, Fate, KeyRow
<1> QED
  BY <1>1, IdemAssumption
     DEF IdemInit, IdemInv, HandsAndFate, RowsInTime, StoredRows, Keeps,
         Undisturbed, OneToken, LatestRow, RowHash, Owned, Ran, RunsApart,
         Sources

-----------------------------------------------------------------------------
(* Every statement, answer and crash leaves values of their types.         *)
LEMMA TypesKept ==
  ASSUME IdemInv, IdemNext
  PROVE  IdemTypeOK'
<1> USE DEF IdemInv, IdemTypeOK
<1> USE IdemAssumption
<1>1. ASSUME NEW r \in Request, Claim(r) PROVE IdemTypeOK'
  <2>1. Claimed(r) \in KeyRow
    BY DEF Claimed, KeyRow
  <2> QED
    BY <1>1, <2>1 DEF Claim, Place, Fate
<1>2. ASSUME NEW r \in Request, Peek(r) PROVE IdemTypeOK'
  BY <1>2 DEF Peek, Place, KeyRow
<1>3. ASSUME NEW r \in Request, PeekFindsNothing(r) PROVE IdemTypeOK'
  <2>1. stage' \in [Request -> Place]
    BY <1>3 DEF PeekFindsNothing, Place
  <2>2. tries' \in [Request -> 0..MaxBeginAttempts]
    BY <1>3 DEF PeekFindsNothing, HandsAndFate
  <2> QED
    BY <1>3, <2>1, <2>2 DEF PeekFindsNothing
<1>4. ASSUME NEW r \in Request, Complete(r) PROVE IdemTypeOK'
  <2> DEFINE done(k) == [k EXCEPT !.response = {r}]
  <2>1. \A k \in table : done(k) \in KeyRow
    BY DEF KeyRow
  <2>2. table' \subseteq KeyRow
    BY <1>4, <2>1 DEF Complete, OwnUnfinished, Owned
  <2>3. \A j, k \in table' : j = k
    BY <1>4 DEF Complete, OwnUnfinished, Owned
  <2> QED
    BY <1>4, <2>2, <2>3 DEF Complete, Place, Fate
<1>5. ASSUME NEW r \in Request, Abandon(r) PROVE IdemTypeOK'
  BY <1>5 DEF Abandon, Owned, Place, Fate
<1>6. ASSUME NEW r \in Request,
             \/ NotClaimed(r) \/ BeginFails(r) \/ HandlerEnds(r)
             \/ FinishFails(r) \/ ProcessDies(r)
      PROVE  IdemTypeOK'
  BY <1>6 DEF NotClaimed, BeginFails, HandlerEnds, FinishFails, ProcessDies,
              Place
<1>7. CASE TimePasses
  BY <1>7 DEF TimePasses, requestVars
<1> QED
  BY <1>1, <1>2, <1>3, <1>4, <1>5, <1>6, <1>7 DEF IdemNext, Serve

(* Claim: a new row, and a token nobody has.                               *)
LEMMA ClaimKept ==
  ASSUME IdemInv, NEW r \in Request, Claim(r), IdemTypeOK'
  PROVE  IdemInv'
<1> USE DEF IdemInv
<1>1. /\ table' = {Claimed(r)} /\ clock' = clock /\ source' = source
      /\ tries' = tries
      /\ stage' = [stage EXCEPT ![r] = stage'[r]]
      /\ fate' = [fate EXCEPT ![r] = fate'[r]]
      /\ token' = [token EXCEPT ![r] = token'[r]]
  BY DEF Claim, IdemTypeOK
<1>2. /\ fate[r] = "none" /\ tries[r] < MaxBeginAttempts
      /\ \/ stage'[r] = "running" /\ fate'[r] = "held" /\ token'[r] = clock
         \/ stage'[r] = "unavailable" /\ fate'[r] = "none"
  BY DEF Claim, IdemTypeOK, HandsAndFate
<1>3. clock \in Nat /\ Claimable
  BY DEF Claim, IdemTypeOK
<1>4. \A q \in Request : q # r =>
         /\ stage'[q] = stage[q] /\ fate'[q] = fate[q] /\ token'[q] = token[q]
         /\ Term(q)' = Term(q) /\ Keeps(q)' = Keeps(q)
  BY <1>1 DEF IdemTypeOK, Term, Keeps
<1>5. \A q \in Request : Keeps(q) => token[q] + Term(q) <= clock
  BY <1>3, TermsEnd DEF Keeps, Ran
<1>6. \A q \in Request : Keeps(q) =>
         token[q] < clock /\ token[q] \in Nat /\ Term(q) \in Nat \ {0}
  BY <1>3, <1>5, TermsLast DEF IdemTypeOK
<1>7. HandsAndFate'
  BY <1>1, <1>2, <1>4 DEF HandsAndFate
<1>8. RowsInTime' /\ StoredRows'
  BY <1>1, <1>3, IdemAssumption DEF RowsInTime, StoredRows, Claimed
<1>9. Undisturbed'
  <2> SUFFICES ASSUME NEW q \in Request, Keeps(q)',
                      (clock < token[q] + Term(q))'
               PROVE  \E k \in table' : RowOf(q, k)'
    BY DEF Undisturbed
  <2>1. CASE q # r
    BY <2>1, <1>1, <1>3, <1>4, <1>5, <1>6
  <2>2. CASE q = r
    BY <2>2, <1>1, <1>2 DEF RowOf, Response, Claimed, Keeps
  <2> QED
    BY <2>1, <2>2
<1>10. OneToken'
  BY <1>1, <1>2, <1>3, <1>4, <1>6 DEF OneToken, Keeps
<1>11. LatestRow'
  BY <1>1, <1>2, <1>3, <1>4 DEF LatestRow, Ran, Claimed, IdemTypeOK
<1>12. RowHash'
  <2> SUFFICES ASSUME NEW q \in Request, Keeps(q)', NEW k \in Owned(q)'
               PROVE  k.hash = Hash[q]
    BY DEF RowHash
  <2>1. k = Claimed(r) /\ k.created = token'[q] /\ k.created = clock
        /\ k.hash = Hash[r]
    BY <1>1 DEF Owned, Claimed
  <2>2. q # r => Keeps(q) /\ token'[q] = token[q]
    BY <1>4
  <2>3. q # r => token[q] < clock
    BY <2>2, <1>6
  <2> QED
    BY <2>1, <2>2, <2>3, <1>3 DEF IdemTypeOK
<1>13. RunsApart'
  <2> SUFFICES ASSUME NEW p \in Ran', NEW q \in Ran', p # q
               PROVE  Yields(p, q)' \/ Yields(q, p)'
    BY DEF RunsApart
  <2>1. CASE p # r /\ q # r
    BY <2>1, <1>4 DEF Ran, RunsApart, Yields
  <2>2. ASSUME NEW o \in Ran', o # r, fate'[r] = "held"
        PROVE  Yields(o, r)'
    <3>1. o \in Ran /\ o \in Request
      BY <2>2, <1>4 DEF Ran
    <3>2. fate[o] = "given_up" \/ token[o] + Term(o) <= clock
      BY <3>1, <1>3, TermsEnd
    <3> QED
      BY <2>2, <3>1, <3>2, <1>2, <1>4 DEF Yields
  <2> QED
    BY <2>1, <2>2, <1>2 DEF Ran
<1>14. Sources'
  BY <1>1, <1>2, <1>4 DEF Sources, IdemTypeOK
<1> QED
  BY <1>7, <1>8, <1>9, <1>10, <1>11, <1>12, <1>13, <1>14

(* Complete: the response goes to the request's own row, which nobody has  *)
(* claimed since.                                                          *)
LEMMA CompleteKept ==
  ASSUME IdemInv, NEW r \in Request, Complete(r), IdemTypeOK',
         OwnUnfinished(r) # {}
  PROVE  IdemInv'
<1> USE DEF IdemInv
<1>1. PICK k0 \in table : k0.created = token[r] /\ k0.response = {}
  BY DEF OwnUnfinished, Owned
<1> DEFINE k1 == [k0 EXCEPT !.response = {r}]
<1>2. table = {k0} /\ OwnUnfinished(r) = {k0}
  BY <1>1 DEF IdemTypeOK, OwnUnfinished, Owned
<1>3. table' = {k1}
  BY <1>2 DEF Complete
<1>4. /\ clock' = clock /\ source' = source /\ tries' = tries
      /\ token' = token
      /\ stage' = [stage EXCEPT ![r] = "answered"]
      /\ fate' = [fate EXCEPT ![r] = "stored"]
  BY DEF Complete
<1>5. fate[r] = "held" /\ stage[r] = "result"
  BY DEF Complete, HandsAndFate
<1>6. /\ k0.hash = Hash[r]
      /\ k1.hash = k0.hash /\ k1.created = k0.created
      /\ k1.expires = k0.expires /\ k1.response = {r}
  BY <1>1, <1>5 DEF RowHash, Owned, Keeps, IdemTypeOK, KeyRow
<1>7. /\ fate'[r] = "stored"
      /\ \A q \in Request : q # r =>
            /\ stage'[q] = stage[q] /\ fate'[q] = fate[q]
            /\ Term(q)' = Term(q) /\ Keeps(q)' = Keeps(q)
  BY <1>4 DEF IdemTypeOK, Term, Keeps
<1>8. \A q \in Request : q # r /\ Keeps(q) => token[q] < token[r]
  <2> SUFFICES ASSUME NEW q \in Request, q # r, Keeps(q)
               PROVE  token[q] < token[r]
    OBVIOUS
  <2>1. token[q] <= k0.created
    BY DEF LatestRow, Ran, Keeps
  <2>2. token[q] # token[r]
    BY <1>5 DEF OneToken, Keeps
  <2> QED
    BY <2>1, <2>2, <1>1 DEF IdemTypeOK
<1>9. HandsAndFate'
  BY <1>4, <1>7 DEF HandsAndFate, IdemTypeOK
<1>10. RowsInTime'
  BY <1>2, <1>3, <1>4, <1>6 DEF RowsInTime
<1>11. StoredRows'
  BY <1>1, <1>3, <1>4, <1>6, <1>7 DEF StoredRows
<1>12. Undisturbed'
  <2> SUFFICES ASSUME NEW q \in Request, Keeps(q)',
                      (clock < token[q] + Term(q))'
               PROVE  \E k \in table' : RowOf(q, k)'
    BY DEF Undisturbed
  <2>1. CASE q # r
    <3>1. PICK k \in table : RowOf(q, k)
      BY <2>1, <1>4, <1>7 DEF Undisturbed
    <3>2. token[q] = token[r]
      BY <3>1, <1>1, <1>2 DEF RowOf
    <3> QED
      BY <2>1, <3>2, <1>7, <1>8 DEF IdemTypeOK
  <2>2. CASE q = r
    BY <2>2, <1>1, <1>3, <1>4, <1>6, <1>7 DEF RowOf, Response
  <2> QED
    BY <2>1, <2>2
<1>13. OneToken'
  BY <1>4, <1>5, <1>7 DEF OneToken, Keeps
<1>14. LatestRow'
  BY <1>2, <1>3, <1>4, <1>5, <1>6, <1>7 DEF LatestRow, Ran
<1>15. RowHash'
  <2> SUFFICES ASSUME NEW q \in Request, Keeps(q)', NEW k \in Owned(q)'
               PROVE  k.hash = Hash[q]
    BY DEF RowHash
  <2>1. k = k1 /\ k1.created = token[q]
    BY <1>3, <1>4 DEF Owned
  <2> QED
    BY <2>1, <1>1, <1>6, <1>7, <1>8 DEF IdemTypeOK
<1>16. RunsApart'
  <2> SUFFICES ASSUME NEW p \in Ran', NEW q \in Ran', p # q
               PROVE  Yields(p, q)' \/ Yields(q, p)'
    BY DEF RunsApart
  <2>1. p \in Ran /\ q \in Ran
    BY <1>5, <1>7 DEF Ran
  <2>2. CASE p # r /\ q # r
    BY <2>1, <2>2, <1>4, <1>7 DEF Ran, RunsApart, Yields
  <2>3. ASSUME NEW o \in Ran, o # r PROVE Yields(o, r)'
    <3>1. o \in Request /\ r \in Ran
      BY <1>5 DEF Ran
    <3>2. CASE fate[o] = "given_up"
      BY <2>3, <3>1, <3>2, <1>7 DEF Yields
    <3>3. CASE Keeps(o)
      <4>1. token[o] < token[r] /\ token[o] \in Nat /\ token[r] \in Nat
        BY <2>3, <3>1, <3>3, <1>8 DEF IdemTypeOK
      <4>2. ~Yields(r, o)
        BY <4>1, <1>5, TermsLast DEF Yields
      <4>3. Yields(o, r)
        BY <2>3, <3>1, <4>2 DEF RunsApart
      <4> QED
        BY <2>3, <3>1, <4>3, <1>4, <1>7 DEF Yields
    <3> QED
      BY <3>1, <3>2, <3>3 DEF Ran, Keeps, IdemTypeOK, Fate
  <2> QED
    BY <2>1, <2>2, <2>3
<1>17. Sources'
  BY <1>4, <1>5, <1>7 DEF Sources, IdemTypeOK
<1> QED
  BY <1>9, <1>10, <1>11, <1>12, <1>13, <1>14, <1>15, <1>16, <1>17

(* Abandon: the row goes, and with it the claim.                           *)
LEMMA AbandonKept ==
  ASSUME IdemInv, NEW r \in Request, Abandon(r), IdemTypeOK', Owned(r) # {}
  PROVE  IdemInv'
<1> USE DEF IdemInv
<1>1. PICK k0 \in table : k0.created = token[r]
  BY DEF Owned
<1>2. table = {k0} /\ table' = {}
  BY <1>1 DEF IdemTypeOK, Owned, Abandon
<1>3. /\ clock' = clock /\ source' = source /\ tries' = tries
      /\ token' = token
      /\ stage' = [stage EXCEPT ![r] = "answered"]
      /\ fate' = [fate EXCEPT ![r] = "given_up"]
  BY DEF Abandon
<1>4. fate[r] = "held"
  BY DEF Abandon, HandsAndFate
<1>5. /\ fate'[r] = "given_up"
      /\ \A q \in Request : q # r =>
            /\ stage'[q] = stage[q] /\ fate'[q] = fate[q]
            /\ Term(q)' = Term(q) /\ Keeps(q)' = Keeps(q)
  BY <1>3 DEF IdemTypeOK, Term, Keeps
<1>6. HandsAndFate' /\ RowsInTime' /\ StoredRows' /\ LatestRow' /\ RowHash'
  BY <1>2, <1>3, <1>4, <1>5
     DEF HandsAndFate, RowsInTime, StoredRows, LatestRow, RowHash, Owned, Ran,
         IdemTypeOK
<1>7. Undisturbed'
  <2> SUFFICES ASSUME NEW q \in Request, Keeps(q)',
                      (clock < token[q] + Term(q))'
               PROVE  FALSE
    BY DEF Undisturbed
  <2>1. q # r /\ Keeps(q)
    BY <1>5 DEF Keeps
  <2>2. PICK k \in table : RowOf(q, k)
    BY <2>1, <1>3, <1>5 DEF Undisturbed
  <2> QED
    BY <2>1, <2>2, <1>1, <1>2, <1>4 DEF RowOf, OneToken, Keeps
<1>8. OneToken'
  BY <1>3, <1>5 DEF OneToken, Keeps
<1>9. RunsApart'
  BY <1>3, <1>4, <1>5 DEF RunsApart, Yields, Ran
<1>10. Sources'
  BY <1>3, <1>4, <1>5 DEF Sources, IdemTypeOK
<1> QED
  BY <1>6, <1>7, <1>8, <1>9, <1>10

(* Everything else leaves the row, the tokens and the claims alone; time   *)
(* only shortens what is left of a term.                                   *)
LEMMA RestKept ==
  ASSUME IdemInv, IdemTypeOK', HandsAndFate', Sources',
         UNCHANGED <<table, token, fate>>, clock <= clock'
  PROVE  IdemInv'
<1> USE DEF IdemInv
<1>1. /\ clock \in Nat /\ clock' \in Nat
      /\ \A q \in Request : token[q] \in Nat /\ Term(q) \in Nat
      /\ \A k \in table : k.created \in Nat
  BY TermsLast DEF IdemTypeOK, KeyRow
<1>2. \A q \in Request : Term(q)' = Term(q) /\ Keeps(q)' = Keeps(q)
  BY DEF Term, Keeps
<1>3. RowsInTime' /\ StoredRows' /\ OneToken' /\ LatestRow' /\ RowHash'
  BY <1>1
     DEF RowsInTime, StoredRows, OneToken, LatestRow, RowHash, Owned, Ran,
         Keeps
<1>4. Undisturbed'
  <2> SUFFICES ASSUME NEW q \in Request, Keeps(q)',
                      (clock < token[q] + Term(q))'
               PROVE  \E k \in table' : RowOf(q, k)'
    BY DEF Undisturbed
  <2>1. Keeps(q) /\ clock < token[q] + Term(q)
    BY <1>1, <1>2
  <2> QED
    BY <2>1 DEF Undisturbed, RowOf, Response
<1>5. RunsApart'
  BY <1>2 DEF RunsApart, Yields, Ran
<1> QED
  BY <1>3, <1>4, <1>5

(* Each part of the invariant is kept by each step.                        *)
LEMMA IdemStepKept == IdemInv /\ [IdemNext]_idemVars => IdemInv'
<1> SUFFICES ASSUME IdemInv, [IdemNext]_idemVars
             PROVE  IdemInv'
  OBVIOUS
<1> USE DEF IdemInv
<1>0. CASE UNCHANGED idemVars
  <2>1. IdemTypeOK' /\ HandsAndFate' /\ Sources'
    BY <1>0 DEF idemVars, requestVars, IdemTypeOK, HandsAndFate, Sources
  <2> QED
    BY <1>0, <2>1, RestKept DEF idemVars, requestVars, IdemTypeOK
<1>1. ASSUME IdemNext PROVE IdemTypeOK'
  BY <1>1, TypesKept
<1>2. ASSUME NEW r \in Request, Serve(r) PROVE IdemInv'
  <2>1. IdemTypeOK'
    BY <1>1, <1>2 DEF IdemNext
  <2>2. CASE Claim(r)
    BY <2>1, <2>2, ClaimKept
  <2>3. CASE Complete(r)
    <3>1. CASE OwnUnfinished(r) # {}
      BY <2>1, <2>3, <3>1, CompleteKept
    <3>2. CASE OwnUnfinished(r) = {}
      <4>1. UNCHANGED <<table, token, fate, clock, source, tries>>
        BY <2>3, <3>2 DEF Complete, IdemTypeOK
      <4>2. HandsAndFate' /\ Sources'
        BY <2>3, <4>1 DEF Complete, HandsAndFate, Sources, IdemTypeOK
      <4> QED
        BY <2>1, <4>1, <4>2, RestKept DEF IdemTypeOK
    <3> QED
      BY <3>1, <3>2
  <2>4. CASE Abandon(r)
    <3>1. CASE Owned(r) # {}
      BY <2>1, <2>4, <3>1, AbandonKept
    <3>2. CASE Owned(r) = {}
      <4>1. UNCHANGED <<table, token, fate, clock, source, tries>>
        BY <2>4, <3>2 DEF Abandon, IdemTypeOK
      <4>2. HandsAndFate' /\ Sources'
        BY <2>4, <4>1 DEF Abandon, HandsAndFate, Sources, IdemTypeOK
      <4> QED
        BY <2>1, <4>1, <4>2, RestKept DEF IdemTypeOK
    <3> QED
      BY <3>1, <3>2
  <2>5. CASE Peek(r)
    <3>1. HandsAndFate'
      BY <2>5 DEF Peek, HandsAndFate, IdemTypeOK
    <3>2. Sources'
      BY <2>5 DEF Peek, Sources, StoredRows, SameRequest, IdemTypeOK
    <3> QED
      BY <2>1, <2>5, <3>1, <3>2, RestKept DEF Peek, IdemTypeOK
  <2>6. CASE PeekFindsNothing(r)
    <3>1. HandsAndFate'
      BY <2>6, IdemAssumption DEF PeekFindsNothing, HandsAndFate, IdemTypeOK
    <3> QED
      BY <2>1, <2>6, <3>1, RestKept DEF PeekFindsNothing, Sources, IdemTypeOK
  <2>7. CASE NotClaimed(r)
    <3>1. HandsAndFate'
      BY <2>7 DEF NotClaimed, HandsAndFate, IdemTypeOK
    <3> QED
      BY <2>1, <2>7, <3>1, RestKept DEF NotClaimed, Sources, IdemTypeOK
  <2>8. CASE HandlerEnds(r)
    <3>1. HandsAndFate'
      BY <2>8 DEF HandlerEnds, HandsAndFate, IdemTypeOK
    <3> QED
      BY <2>1, <2>8, <3>1, RestKept DEF HandlerEnds, Sources, IdemTypeOK
  <2>9. CASE BeginFails(r) \/ FinishFails(r) \/ ProcessDies(r)
    <3>1. HandsAndFate'
      BY <2>9
         DEF BeginFails, FinishFails, ProcessDies, HandsAndFate, IdemTypeOK
    <3> QED
      BY <2>1, <2>9, <3>1, RestKept
         DEF BeginFails, FinishFails, ProcessDies, Sources, IdemTypeOK
  <2> QED
    BY <1>2, <2>2, <2>3, <2>4, <2>5, <2>6, <2>7, <2>8, <2>9 DEF Serve
<1>3. CASE TimePasses
  <2>1. IdemTypeOK'
    BY <1>1, <1>3 DEF IdemNext
  <2>2. HandsAndFate' /\ Sources'
    BY <1>3 DEF TimePasses, requestVars, HandsAndFate, Sources
  <2> QED
    BY <1>3, <2>1, <2>2, RestKept DEF TimePasses, requestVars, IdemTypeOK
<1> QED
  BY <1>0, <1>2, <1>3 DEF IdemNext

(* The promise of idem.go as it holds of every number of requests, every   *)
(* lease and life time.                                                    *)
THEOREM IdemInvariant == IdemSpec => []IdemInv
<1> QED
  BY IdemInitially, IdemStepKept, PTL DEF IdemSpec

(* BR-O5: two handlers of one key run apart (RunsApart).                   *)
THEOREM HandlersRunApart == IdemSpec => []RunsApart
<1>1. IdemInv => RunsApart
  BY DEF IdemInv
<1> QED
  BY <1>1, IdemInvariant, PTL

(* A stored response is kept and replayed to those it is meant for.        *)
THEOREM StoredResponsesStand == IdemSpec => []ResponsesStand
<1>1. IdemInv => ResponsesStand
  <2> SUFFICES ASSUME IdemInv PROVE ResponsesStand
    OBVIOUS
  <2>1. ASSUME NEW q \in Request, fate[q] = "stored",
               clock < token[q] + TTL
        PROVE  \E k \in table : k.response = {q} /\ k.hash = Hash[q]
    <3>1. Keeps(q) /\ Term(q) = TTL
      BY <2>1 DEF Keeps, Term
    <3> QED
      BY <2>1, <3>1 DEF IdemInv, Undisturbed, RowOf, Response
  <2> QED
    BY <2>1 DEF IdemInv, Sources, ResponsesStand
<1> QED
  BY <1>1, IdemInvariant, PTL
=============================================================================
