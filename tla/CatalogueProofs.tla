-------------------------- MODULE CatalogueProofs --------------------------
(***************************************************************************)
(* Proofs about the event catalogue and its moderation, for every number   *)
(* of events, requests, workers, jobs and failures.                        *)
(***************************************************************************)
EXTENDS Catalogue, TLAPS

Asking == [op : Op, at : {"row", "tier", "note"}, event : Event, row : Row,
           quota : Nat, read : Nat]
Message == [key : {"moderation", "event.cancelled"}, event : Event]
Opinion == [event : Event, job : Nat, verdict : AiVerdict,
            human : {"none"} \cup Op]

(* What a worker has in hand grows from one call to the next.              *)
Scanning == [at : {"scan", "failed"}, job : JobRecord]
Inserting == [at : {"insert", "failed"}, job : JobRecord,
              verdict : AiVerdict, row : Row]
Deciding == [at : {"decide", "audit", "answered", "refused", "failed"},
             job : JobRecord, verdict : AiVerdict, row : Row,
             review : DOMAIN review]
Hand == Scanning \cup Inserting \cup Deciding

Stock == [quota : Nat, capacity : Nat, available : Nat]

CatalogueShape ==
    /\ now \in Time /\ faults \in 0..MaxFaults
    /\ event \in [Event -> Row]
    /\ tier \in [Event -> Stock] /\ sold \in [Event -> Nat]
    /\ request \in [Request -> {Idle} \cup Asking]

JobShape ==
    /\ outbox \in Seq(Message)
    /\ published \subseteq DOMAIN outbox /\ dlq \subseteq DOMAIN outbox
    /\ BagToSet(queue) \subseteq JobRecord

JudgeShape ==
    /\ worker \in [Worker -> {Free} \cup Hand]
    /\ review \in Seq(Opinion)
    /\ audited \subseteq DOMAIN review

Shape == CatalogueShape /\ JobShape /\ JudgeShape

(* A row in somebody's hand opens no sale early, and puts an event under   *)
(* review only together with a job.                                        *)
Sound(row) ==
    /\ row.status # "SOLD_OUT"
    /\ row.status = "ON_SALE" => row.sale <= now

SoundRows ==
    /\ \A e \in Event : Sound(event[e])
    /\ \A r \in Request : request[r] # Idle =>
          /\ Sound(request[r].row)
          /\ request[r].row.status = "PENDING_REVIEW" =>
                 request[r].op = "submit"
    /\ \A w \in Worker : worker[w].at \in {"insert", "decide"} =>
          /\ Sound(worker[w].row)
          /\ worker[w].row.status = "PENDING_REVIEW" =>
                 worker[w].verdict = "NEEDS_HUMAN"

(* A worker that has decided, but has not answered yet, has asked a human  *)
(* or has taken the event out of review; if the event is under review      *)
(* again, that is on account of a later job.                               *)
Passed(id) ==
    \/ event[outbox[id].event].status # "PENDING_REVIEW"
    \/ \E k \in JobsOf(outbox[id].event) : k > id

Promised(w, id) ==
    \/ worker[w].verdict = "NEEDS_HUMAN" /\ Asked(id)
    \/ worker[w].verdict # "NEEDS_HUMAN" /\ worker[w].at = "decide"
    \/ worker[w].verdict # "NEEDS_HUMAN" /\ Passed(id)

Settled == \A w \in Worker, id \in Nat :
    worker[w].at \in {"decide", "audit", "answered"} =>
        (worker[w].job.id = id => Promised(w, id))

CatalogueInv ==
    Shape /\ SoundRows /\ QuotaIsCapacity /\ Settled /\ PendingHasJob

-----------------------------------------------------------------------------
(* Adding to a bag adds to its set,                                        *)
LEMMA AddToBag ==
  ASSUME NEW B, NEW x
  PROVE  BagToSet(BagAdd(B, x)) = BagToSet(B) \cup {x}
BY DEF BagToSet, BagAdd

(* removing from it removes at most that,                                  *)
LEMMA RemoveFromBag ==
  ASSUME NEW B, NEW x
  PROVE  /\ BagToSet(BagRemove(B, x)) \subseteq BagToSet(B)
         /\ BagToSet(B) \subseteq BagToSet(BagRemove(B, x)) \cup {x}
BY DEF BagToSet, BagRemove

(* and a set added to it is added once.                                    *)
LEMMA AddBags ==
  ASSUME NEW B, NEW S
  PROVE  BagToSet(B (+) SetToBag(S)) = BagToSet(B) \cup S
BY DEF BagToSet, SetToBag, (+)

(* The constants of the catalogue, in the form the steps use them.         *)
LEMMA Numbers ==
  /\ {Lead, StartsAt, MaxTime, MaxQuota, MaxRows, MaxFaults} \subseteq Nat
  /\ MaxAttempts \in Nat \ {0} /\ Batch \in Nat \ {0}
  /\ NoRow \in Row /\ Sound(NoRow)
  /\ \A s \in Time : s \in Nat
BY CatalogueAssumption DEF NoRow, Row, EventStatus, Time, Sound

(* Every use case reads a row that is sound and may write one that is.     *)
LEMMA Begins ==
  ASSUME CatalogueShape, SoundRows, NEW r \in Request, NEW e \in Event,
         Organize(r, e) \/ Moderate(r, e) \/ Publish(r, e)
  PROVE  /\ UNCHANGED <<now, catalogueVars, jobVars, judgeVars, faults>>
         /\ \E q \in Asking :
               /\ request' = [request EXCEPT ![r] = q]
               /\ Sound(q.row)
               /\ q.row.status = "PENDING_REVIEW" => q.op = "submit"
<1> USE Numbers DEF CatalogueShape, SoundRows
<1>1. event[e] \in Row /\ tier[e] \in Stock /\ Sound(event[e])
  OBVIOUS
<1>2. ASSUME NEW op \in Op, NEW at \in {"row", "tier"}, NEW row \in Row,
             NEW n \in Nat, Begin(r, op, at, e, row, n), Sound(row),
             row.status = "PENDING_REVIEW" => op = "submit"
      PROVE  /\ UNCHANGED <<now, catalogueVars, jobVars, judgeVars, faults>>
             /\ \E q \in Asking :
                   /\ request' = [request EXCEPT ![r] = q]
                   /\ Sound(q.row)
                   /\ q.row.status = "PENDING_REVIEW" => q.op = "submit"
  <2> DEFINE q == [op |-> op, at |-> at, event |-> e, row |-> row,
                   quota |-> n,
                   read |-> IF op = "quota" THEN tier[e].quota ELSE 0]
  <2>1. q \in Asking
    BY <1>1 DEF Asking, Stock
  <2>2. request' = [request EXCEPT ![r] = q]
    BY <1>2 DEF Begin
  <2> QED
    BY <1>2, <2>1, <2>2 DEF Begin
<1>3. CASE UpdateDetails(r, e)
  <2>1. PICK s \in Time :
           /\ MayEdit(event[e])
           /\ Begin(r, "update", "row", e,
                    IF s < StartsAt THEN [event[e] EXCEPT !.sale = s]
                                    ELSE event[e], 0)
    BY <1>3 DEF UpdateDetails
  <2> DEFINE row == IF s < StartsAt THEN [event[e] EXCEPT !.sale = s]
                                    ELSE event[e]
  <2>2. row \in Row /\ row.status = event[e].status
    BY <1>1 DEF Row
  <2>3. Sound(row) /\ row.status # "PENDING_REVIEW"
    BY <2>1, <2>2 DEF MayEdit, Editable, Sound
  <2>4. Begin(r, "update", "row", e, row, 0)
    BY <2>1
  <2> QED
    BY <1>2, <2>2, <2>3, <2>4 DEF Op
<1>4. CASE AddTier(r, e)
  BY <1>2, <1>4 DEF AddTier, NoRow, Op
<1>5. CASE UpdateTierQuota(r, e)
  <2> DEFINE to(n) == IF event[e].status = "SOLD_OUT" /\ n > tier[e].quota
                          THEN "ON_SALE" ELSE event[e].status
  <2>1. PICK n \in 1..MaxQuota :
           /\ event[e].status \in Editable \cup {"ON_SALE", "SOLD_OUT"}
           /\ Begin(r, "quota", "tier", e,
                    [event[e] EXCEPT !.status = to(n)], n)
    BY <1>5 DEF UpdateTierQuota
  <2>2. to(n) = event[e].status
    BY <1>1 DEF Sound
  <2>3. [event[e] EXCEPT !.status = to(n)] = event[e]
    BY <1>1, <2>2 DEF Row
  <2>4. Begin(r, "quota", "tier", e, event[e], n)
    BY <2>1, <2>3
  <2> QED
    BY <1>1, <1>2, <2>1, <2>4 DEF Op, Editable
<1>6. ASSUME NEW op \in Op, NEW from, NEW to \in EventStatus,
             Transition(r, op, e, from, to), to # "SOLD_OUT",
             to = "ON_SALE" => now >= event[e].sale,
             to = "PENDING_REVIEW" => op = "submit"
      PROVE  /\ UNCHANGED <<now, catalogueVars, jobVars, judgeVars, faults>>
             /\ \E q \in Asking :
                   /\ request' = [request EXCEPT ![r] = q]
                   /\ Sound(q.row)
                   /\ q.row.status = "PENDING_REVIEW" => q.op = "submit"
  <2> DEFINE row == [event[e] EXCEPT !.status = to]
  <2>1. row \in Row /\ row.status = to /\ row.sale = event[e].sale
    BY <1>1 DEF Row
  <2>2. Sound(row)
    BY <1>1, <1>6, <2>1 DEF Sound, Row
  <2>3. Begin(r, op, "row", e, row, 0)
    BY <1>6 DEF Transition
  <2> QED
    BY <1>2, <1>6, <2>1, <2>2, <2>3
<1>7. CASE SubmitForReview(r, e)
  BY <1>6, <1>7 DEF SubmitForReview, Op, EventStatus
<1>8. CASE Cancel(r, e)
  BY <1>6, <1>8 DEF Cancel, Op, EventStatus
<1>9. CASE ApproveOverride(r, e)
  BY <1>6, <1>9 DEF ApproveOverride, Op, EventStatus
<1>10. CASE Reject(r, e)
  BY <1>6, <1>10 DEF Reject, Op, EventStatus
<1>11. CASE Publish(r, e)
  BY <1>6, <1>11 DEF Publish, Op, EventStatus
<1> QED
  BY <1>3, <1>4, <1>5, <1>7, <1>8, <1>9, <1>10, <1>11 DEF Organize, Moderate

-----------------------------------------------------------------------------
(* Every step keeps the types.  First the events, tiers and requests.      *)
LEMMA CatalogueStep ==
  ASSUME Shape, SoundRows, Next
  PROVE  CatalogueShape'
<1> USE Numbers DEF Shape, CatalogueShape
<1>1. ASSUME NEW r \in Request, NEW e \in Event,
             Organize(r, e) \/ Moderate(r, e) \/ Publish(r, e)
      PROVE  CatalogueShape'
  <2>1. PICK q \in Asking : request' = [request EXCEPT ![r] = q]
    BY <1>1, Begins
  <2> QED
    BY <1>1, <2>1, Begins DEF catalogueVars
<1>2. ASSUME NEW e \in Event, CreateEvent(e)
      PROVE  CatalogueShape'
  BY <1>2 DEF CreateEvent, Row, EventStatus
<1>3. ASSUME NEW e \in Event, Sell(e)
      PROVE  CatalogueShape'
  BY <1>3 DEF Sell, Stock
<1>4. ASSUME NEW r \in Request, Update(r)
      PROVE  CatalogueShape'
  <2> DEFINE q == request[r]
  <2>1. q \in Asking
    BY <1>4 DEF Update, Idle
  <2>2. event' \in [Event -> Row]
    BY <1>4, <2>1 DEF Update, Asking
  <2>3. [q EXCEPT !.at = "note"] \in Asking
    BY <2>1 DEF Asking
  <2>4. request' \in [Request -> {Idle} \cup Asking]
    BY <1>4, <2>3 DEF Update
  <2> QED
    BY <1>4, <2>2, <2>4 DEF Update
<1>5. ASSUME NEW r \in Request, InsertTier(r)
      PROVE  CatalogueShape'
  <2>1. request[r] \in Asking
    BY <1>5 DEF InsertTier, Idle
  <2>2. tier' \in [Event -> Stock]
    BY <1>5, <2>1 DEF InsertTier, Asking, Stock
  <2> QED
    BY <1>5, <2>2 DEF InsertTier
<1>6. ASSUME NEW r \in Request, UpdateTier(r)
      PROVE  CatalogueShape'
  <2> DEFINE q == request[r]
  <2>1. q \in Asking /\ q.event \in Event /\ q.quota \in Nat
    BY <1>6 DEF UpdateTier, Idle, Asking
  <2>2. Resized(tier[q.event], q) \in Stock
    BY <2>1 DEF Resized, Stock
  <2>3. tier' \in [Event -> Stock]
    BY <1>6, <2>1, <2>2 DEF UpdateTier
  <2>4. [q EXCEPT !.at = "row"] \in Asking
    BY <2>1 DEF Asking
  <2>5. request' \in [Request -> {Idle} \cup Asking]
    BY <1>6, <2>4 DEF UpdateTier
  <2> QED
    BY <1>6, <2>3, <2>5 DEF UpdateTier
<1>7. ASSUME NEW r \in Request, SetHumanDecision(r) \/ RequestCrash(r)
      PROVE  CatalogueShape'
  BY <1>7 DEF SetHumanDecision, RequestCrash, Fault, catalogueVars
<1>8. ASSUME NEW w \in Worker, Decide(w)
      PROVE  CatalogueShape'
  <2>1. worker[w].row \in Row
    BY <1>8 DEF Decide, Working, JudgeShape, Hand, Free, Scanning, Inserting,
                Deciding
  <2>2. event' \in [Event -> Row]
    BY <1>8, <2>1 DEF Decide
  <2> QED
    BY <1>8, <2>2 DEF Decide, Working
<1>9. ASSUME NEW w \in Worker, WorkerStep(w) \/ CallFails(w) \/ WorkerCrash(w),
             ~Decide(w)
      PROVE  CatalogueShape'
  BY <1>9 DEF WorkerStep, Take, Scan, Denied, InsertReview, Audit, Finish,
              CallFails, WorkerCrash, Working, Fault, catalogueVars
<1>10. CASE Relay \/ RelayUnconfirmed
  <2>1. CASE Relay
    <3>1. UNCHANGED <<now, catalogueVars, request, faults>>
      BY <2>1, Zenon DEF Relay
    <3> QED
      BY <3>1 DEF catalogueVars
  <2>2. CASE RelayUnconfirmed
    BY <2>2 DEF RelayUnconfirmed, Fault, catalogueVars
  <2> QED
    BY <1>10, <2>1, <2>2
<1>11. CASE OpenDueSales
  BY <1>11 DEF OpenDueSales, Row, EventStatus
<1>12. CASE Tick
  BY <1>12 DEF Tick, Time, catalogueVars
<1> QED
  BY <1>1, <1>2, <1>3, <1>4, <1>5, <1>6, <1>7, <1>8, <1>9, <1>10, <1>11, <1>12
     DEF Next, RequestStep

(* Only a request that writes an event writes to the outbox.               *)
LEMMA OnlyUpdatesWrite ==
  ASSUME Shape, SoundRows, Next, ~ \E r \in Request : Update(r)
  PROVE  outbox' = outbox
<1>1. ASSUME NEW r \in Request, NEW e \in Event,
             Organize(r, e) \/ Moderate(r, e) \/ Publish(r, e)
      PROVE  outbox' = outbox
  BY <1>1, Begins DEF jobVars, Shape
<1>2. ASSUME NEW w \in Worker,
             WorkerStep(w) \/ CallFails(w) \/ WorkerCrash(w)
      PROVE  outbox' = outbox
  BY <1>2 DEF WorkerStep, Take, Scan, Denied, InsertReview, Decide, Audit,
              Finish, CallFails, WorkerCrash, Working
<1>3. ASSUME NEW r \in Request, RequestStep(r) \/ RequestCrash(r)
      PROVE  outbox' = outbox
  BY <1>3 DEF RequestStep, InsertTier, UpdateTier, SetHumanDecision,
                    RequestCrash, jobVars
<1>4. ASSUME NEW e \in Event, CreateEvent(e) \/ Sell(e)
      PROVE  outbox' = outbox
  BY <1>4 DEF CreateEvent, Sell, jobVars
<1>5. CASE Relay \/ RelayUnconfirmed \/ OpenDueSales \/ Tick
  BY <1>5 DEF Relay, RelayUnconfirmed, OpenDueSales, Tick, jobVars
<1> QED
  BY <1>1, <1>2, <1>3, <1>4, <1>5 DEF Next

(* Then the outbox, the queue and the dead-letter queue: ids stay those of *)
(* messages in the outbox, which only grows.                               *)
LEMMA OutboxGrows ==
  ASSUME Shape, SoundRows, Next
  PROVE  /\ outbox' \in Seq(Message)
         /\ DOMAIN outbox \subseteq DOMAIN outbox'
         /\ \A id \in DOMAIN outbox : outbox'[id] = outbox[id]
<1> USE DEF Shape, JobShape
<1>1. ASSUME NEW r \in Request, Update(r)
      PROVE  \/ outbox' = outbox
             \/ \E m \in Message : outbox' = Append(outbox, m)
  <2>1. request[r] \in Asking
    BY <1>1 DEF Update, Idle, CatalogueShape
  <2>2. [key |-> KeyOf(request[r].op), event |-> request[r].event] \in Message
    BY <2>1 DEF Asking, Message, KeyOf
  <2> QED
    BY <1>1, <2>2 DEF Update, WithOutbox
<1>2. ASSUME ~ \E r \in Request : Update(r)
      PROVE  outbox' = outbox
  BY <1>2, OnlyUpdatesWrite
<1>3. CASE outbox' = outbox
  BY <1>3
<1>4. CASE \E m \in Message : outbox' = Append(outbox, m)
  BY <1>4
<1> QED
  BY <1>1, <1>2, <1>3, <1>4
-----------------------------------------------------------------------------
(* What is in hand keeps its types when a worker goes on to the next call. *)
LEMMA GoesOn ==
  ASSUME Shape, NEW w \in Worker, NEW at, Goes(w, at), worker[w] # Free,
         \/ worker[w].at = "scan" /\ at = "failed"
         \/ worker[w].at = "insert" /\ at = "failed"
         \/ /\ worker[w].at \in {"decide", "audit", "answered"}
            /\ at \in {"audit", "refused", "answered", "failed"}
  PROVE  /\ worker' \in [Worker -> {Free} \cup Hand]
         /\ worker'[w] \in Hand /\ worker'[w].at = at
         /\ worker'[w].job = worker[w].job
         /\ worker[w].at \in {"decide", "audit", "answered"} =>
               worker'[w].verdict = worker[w].verdict
         /\ \A u \in Worker : u # w => worker'[u] = worker[u]
<1> DEFINE h == [worker[w] EXCEPT !.at = at]
<1>1. worker[w] \in Hand /\ worker \in [Worker -> {Free} \cup Hand]
  BY DEF Shape, JudgeShape
<1>2. worker' = [worker EXCEPT ![w] = h]
  BY DEF Goes
<1>3. /\ h \in Hand /\ h.at = at /\ h.job = worker[w].job
      /\ worker[w].at \in {"decide", "audit", "answered"} =>
            h.verdict = worker[w].verdict
  <2>1. CASE worker[w] \in Scanning
    BY <2>1 DEF Scanning, Hand
  <2>2. CASE worker[w] \in Inserting
    BY <2>2 DEF Inserting, Hand
  <2>3. CASE worker[w] \in Deciding
    BY <2>3 DEF Deciding, Hand
  <2> QED
    BY <1>1, <2>1, <2>2, <2>3 DEF Hand
<1> QED
  BY <1>1, <1>2, <1>3
(* A job is about the event its message names; a second one follows it     *)
(* only while attempts are left.                                           *)
LEMMA JobsAreMessages ==
  ASSUME JobShape, NEW j \in JobRecord
  PROVE  /\ j.id \in Nat /\ outbox[j.id] \in Message
         /\ outbox[j.id].event \in Event
         /\ Again(j) => Job(j.id, j.attempt + 1) \in JobRecord
<1>1. /\ j.id \in DOMAIN outbox /\ j.attempt \in 1..MaxAttempts
      /\ DOMAIN outbox = 1..Len(outbox) /\ Len(outbox) \in Nat
  BY DEF JobRecord, JobShape
<1>2. outbox[j.id] \in Message
  BY <1>1 DEF JobShape
<1>3. Again(j) => j.attempt + 1 \in 1..MaxAttempts
  BY <1>1, Numbers DEF Again
<1> QED
  BY <1>1, <1>2, <1>3 DEF Message, Job, JobRecord

(* Reviews are only added to, whatever a human writes into one.            *)
LEMMA ReviewsGrow ==
  ASSUME Shape, SoundRows, Next
  PROVE  /\ review' \in Seq(Opinion)
         /\ DOMAIN review \subseteq DOMAIN review'
         /\ \A i \in DOMAIN review :
               /\ review'[i].job = review[i].job
               /\ review'[i].verdict = review[i].verdict
<1> USE DEF Shape, JudgeShape
<1>1. ASSUME NEW w \in Worker, InsertReview(w)
      PROVE  \E v \in Opinion : review' = Append(review, v)
  <2>1. worker[w] \in Inserting
    BY <1>1 DEF InsertReview, Working, Free, Hand, Scanning, Inserting,
                Deciding
  <2>2. EventOf(w) \in Event /\ worker[w].job.id \in Nat
    BY <2>1, JobsAreMessages DEF EventOf, Inserting
  <2>3. [event |-> EventOf(w), job |-> worker[w].job.id,
         verdict |-> worker[w].verdict, human |-> "none"] \in Opinion
    BY <2>1, <2>2 DEF Inserting, Opinion
  <2> QED
    BY <1>1, <2>3 DEF InsertReview
<1>2. ASSUME NEW r \in Request, SetHumanDecision(r), review' # review
      PROVE  \E i : review' = [review EXCEPT ![i].human = request[r].op]
  BY <1>2 DEF SetHumanDecision
<1>3. ASSUME ~ \E w \in Worker : InsertReview(w),
             ~ \E r \in Request : SetHumanDecision(r)
      PROVE  review' = review
  <2>1. ASSUME NEW r \in Request, NEW e \in Event,
               Organize(r, e) \/ Moderate(r, e) \/ Publish(r, e)
        PROVE  review' = review
    BY <2>1, Begins DEF judgeVars
  <2>2. ASSUME NEW w \in Worker,
               WorkerStep(w) \/ CallFails(w) \/ WorkerCrash(w)
        PROVE  review' = review
    BY <1>3, <2>2 DEF WorkerStep, Take, Scan, Denied, Decide, Audit, Finish,
                      CallFails, WorkerCrash
  <2>3. ASSUME NEW r \in Request, RequestStep(r) \/ RequestCrash(r)
        PROVE  review' = review
    BY <1>3, <2>3 DEF RequestStep, Update, InsertTier, UpdateTier,
                      RequestCrash, judgeVars
  <2>4. ASSUME NEW e \in Event, CreateEvent(e) \/ Sell(e)
        PROVE  review' = review
    BY <2>4 DEF CreateEvent, Sell, judgeVars
  <2>5. CASE Relay
    <3>1. UNCHANGED judgeVars
      BY <2>5, Zenon DEF Relay
    <3> QED
      BY <3>1 DEF judgeVars
  <2>6. CASE RelayUnconfirmed \/ OpenDueSales \/ Tick
    BY <2>6 DEF RelayUnconfirmed, OpenDueSales, Tick, judgeVars
  <2> QED
    BY <2>1, <2>2, <2>3, <2>4, <2>5, <2>6 DEF Next
<1>4. CASE review' = review
  BY <1>4
<1>5. CASE \E v \in Opinion : review' = Append(review, v)
  BY <1>5
<1>6. ASSUME NEW r \in Request, SetHumanDecision(r),
             NEW i, review' = [review EXCEPT ![i].human = request[r].op]
      PROVE  /\ review' \in Seq(Opinion)
             /\ DOMAIN review \subseteq DOMAIN review'
             /\ \A k \in DOMAIN review :
                   /\ review'[k].job = review[k].job
                   /\ review'[k].verdict = review[k].verdict
  <2>1. request[r].op \in Op
    BY <1>6 DEF SetHumanDecision, Idle, CatalogueShape, Asking
  <2>2. DOMAIN review' = DOMAIN review /\ DOMAIN review = 1..Len(review)
    BY <1>6
  <2>3. ASSUME NEW k \in DOMAIN review
        PROVE  /\ review'[k] \in Opinion
               /\ review'[k].job = review[k].job
               /\ review'[k].verdict = review[k].verdict
    <3>1. review[k] \in Opinion
      OBVIOUS
    <3>2. review'[k] = IF k = i THEN [review[k] EXCEPT !.human = request[r].op]
                       ELSE review[k]
      BY <1>6
    <3> QED
      BY <2>1, <3>1, <3>2 DEF Opinion
  <2>4. review' = [k \in 1..Len(review) |-> review'[k]]
    BY <1>6, <2>2
  <2> QED
    BY <2>2, <2>3, <2>4
<1> QED
  BY <1>1, <1>2, <1>3, <1>4, <1>5, <1>6

(* What may be in hand grows with the outbox and with the reviews.         *)
LEMMA HandsGrow ==
  ASSUME DOMAIN outbox \subseteq DOMAIN outbox',
         DOMAIN review \subseteq DOMAIN review'
  PROVE  /\ JobRecord \subseteq JobRecord'
         /\ Hand \subseteq Hand'
BY DEF JobRecord, Hand, Scanning, Inserting, Deciding

(* What a worker has in hand changes only in a step of its own.            *)
LEMMA OthersStay ==
  ASSUME Shape, SoundRows, Next, NEW w \in Worker,
         ~(WorkerStep(w) \/ CallFails(w) \/ WorkerCrash(w))
  PROVE  worker'[w] = worker[w]
<1>1. ASSUME NEW v \in Worker, v # w,
             WorkerStep(v) \/ CallFails(v) \/ WorkerCrash(v)
      PROVE  worker'[w] = worker[w]
  <2>1. PICK h : worker' = [worker EXCEPT ![v] = h]
    BY <1>1 DEF WorkerStep, Take, Scan, Denied, InsertReview, Decide, Audit,
                Finish, CallFails, WorkerCrash, Call, Goes
  <2> QED
    BY <1>1, <2>1 DEF Shape, JudgeShape
<1>2. ASSUME NEW r \in Request, NEW e \in Event,
             Organize(r, e) \/ Moderate(r, e) \/ Publish(r, e)
      PROVE  worker' = worker
  BY <1>2, Begins DEF judgeVars, Shape
<1>3. ASSUME NEW r \in Request, RequestStep(r) \/ RequestCrash(r)
      PROVE  worker' = worker
  BY <1>3 DEF RequestStep, Update, InsertTier, UpdateTier, SetHumanDecision,
              RequestCrash, judgeVars
<1>4. ASSUME NEW e \in Event, CreateEvent(e) \/ Sell(e)
      PROVE  worker' = worker
  BY <1>4 DEF CreateEvent, Sell, judgeVars
<1>5. CASE Relay
  <2>1. UNCHANGED judgeVars
    BY <1>5, Zenon DEF Relay
  <2> QED
    BY <2>1 DEF judgeVars
<1>6. CASE RelayUnconfirmed \/ OpenDueSales \/ Tick
  BY <1>6 DEF RelayUnconfirmed, OpenDueSales, Tick, judgeVars
<1> QED
  BY <1>1, <1>2, <1>3, <1>4, <1>5, <1>6 DEF Next

(* Ids in the queue, the dead-letter queue and in hand are of the outbox.  *)
LEMMA JobStep ==
  ASSUME Shape, SoundRows, Next
  PROVE  JobShape' /\ JobRecord \subseteq JobRecord'
<1>0. /\ JobRecord \subseteq JobRecord' /\ outbox' \in Seq(Message)
      /\ DOMAIN outbox \subseteq DOMAIN outbox'
  BY OutboxGrows, ReviewsGrow, HandsGrow
<1> USE Numbers, <1>0 DEF Shape, JobShape
<1>1. ASSUME UNCHANGED <<published, queue, dlq>>
      PROVE  JobShape'
  BY <1>1
<1>2. CASE Relay
  <2>1. PICK out \in SUBSET Unpublished :
           /\ published' = published \cup out
           /\ queue' = queue (+) SetToBag({Job(id, 1) : id \in out})
           /\ dlq' = dlq
    <3>1. PICK last \in Routed(InBatch) :
             LET out == {id \in Routed(InBatch) : id <= last}
             IN /\ published' = published \cup out
                /\ queue' = queue (+) SetToBag({Job(id, 1) : id \in out})
                /\ UNCHANGED <<now, catalogueVars, request, outbox, dlq,
                               judgeVars, faults>>
      BY <1>2, Zenon DEF Relay
    <3>2. Routed(InBatch) \subseteq Unpublished
      BY DEF Routed, InBatch
    <3> QED
      BY <3>1, <3>2, Zenon
  <2>2. BagToSet(queue') = BagToSet(queue) \cup {Job(id, 1) : id \in out}
    BY <2>1, AddBags, Zenon
  <2>3. out \subseteq DOMAIN outbox
    BY DEF Unpublished
  <2>4. \A id \in out : Job(id, 1) \in JobRecord
    BY <2>3 DEF Job, JobRecord
  <2> QED
    BY <2>1, <2>2, <2>3, <2>4
<1>3. CASE RelayUnconfirmed
  <2>1. PICK id \in Routed(InBatch) :
           /\ queue' = BagAdd(queue, Job(id, 1))
           /\ UNCHANGED <<published, dlq>>
    BY <1>3 DEF RelayUnconfirmed
  <2>2. Job(id, 1) \in JobRecord
    BY DEF Job, JobRecord, Routed, InBatch, Unpublished
  <2> QED
    BY <2>1, <2>2, AddToBag
<1>4. ASSUME NEW w \in Worker, Take(w)
      PROVE  JobShape'
  BY <1>4, RemoveFromBag DEF Take, Working
<1>5. ASSUME NEW w \in Worker, worker[w].at # "idle"
      PROVE  worker[w].job \in JobRecord
  BY <1>5 DEF JudgeShape, Free, Hand, Scanning, Inserting, Deciding
<1>6. ASSUME NEW w \in Worker, Finish(w)
      PROVE  JobShape'
  <2> DEFINE job == worker[w].job
             next == Job(job.id, job.attempt + 1)
  <2>1. job \in JobRecord
    BY <1>5, <1>6 DEF Finish, Working
  <2>2. Again(job) => next \in JobRecord
    BY <2>1, JobsAreMessages
  <2>3. /\ published' = published
        /\ dlq' \in {dlq, dlq \cup {job.id}}
        /\ \/ queue' = queue
           \/ Again(job) /\ queue' = BagAdd(queue, next)
    BY <1>6 DEF Finish, Working
  <2>4. job.id \in DOMAIN outbox
    BY <2>1 DEF JobRecord
  <2> QED
    BY <2>2, <2>3, <2>4, AddToBag
<1>7. ASSUME NEW w \in Worker, WorkerCrash(w)
      PROVE  JobShape'
  <2>1. worker[w].job \in JobRecord
    BY <1>7 DEF WorkerCrash, JudgeShape, Hand, Scanning, Inserting, Deciding
  <2>2. queue' = BagAdd(queue, worker[w].job) /\ UNCHANGED <<published, dlq>>
    BY <1>7 DEF WorkerCrash
  <2> QED
    BY <2>1, <2>2, AddToBag
<1>8. ASSUME NEW w \in Worker,
             \/ Scan(w) \/ Denied(w) \/ InsertReview(w) \/ Decide(w)
             \/ Audit(w) \/ CallFails(w)
      PROVE  JobShape'
  BY <1>1, <1>8 DEF Scan, Denied, InsertReview, Decide, Audit, CallFails,
                    Working
<1>9. ASSUME NEW r \in Request, NEW e \in Event,
             Organize(r, e) \/ Moderate(r, e) \/ Publish(r, e)
      PROVE  JobShape'
  BY <1>1, <1>9, Begins DEF jobVars
<1>10. ASSUME NEW r \in Request, RequestStep(r) \/ RequestCrash(r)
       PROVE  JobShape'
  BY <1>1, <1>10 DEF RequestStep, Update, InsertTier, UpdateTier,
                     SetHumanDecision, RequestCrash, jobVars
<1>11. ASSUME NEW e \in Event, CreateEvent(e) \/ Sell(e)
       PROVE  JobShape'
  BY <1>1, <1>11 DEF CreateEvent, Sell, jobVars
<1>12. CASE OpenDueSales \/ Tick
  BY <1>1, <1>12 DEF OpenDueSales, Tick, jobVars
<1> QED
  BY <1>2, <1>3, <1>4, <1>6, <1>7, <1>8, <1>9, <1>10, <1>11, <1>12
     DEF Next, WorkerStep
(* A job leaves the queue only into the hand of a worker, a message gets   *)
(* its time of publication only with a job in the queue, and the           *)
(* dead-letter queue loses nothing.                                        *)
LEMMA QueuesGrow ==
  ASSUME Shape, SoundRows, Next
  PROVE  /\ dlq \subseteq dlq'
         /\ \A id \in published' \ published :
               \E job \in BagToSet(queue') : job.id = id
         /\ \A job \in BagToSet(queue) \ BagToSet(queue') :
               \E w \in Worker : worker'[w] = [at |-> "scan", job |-> job]
<1> USE DEF Shape, JudgeShape
<1>1. CASE Relay
  <2>1. PICK last \in Routed(InBatch) :
           LET out == {id \in Routed(InBatch) : id <= last}
           IN /\ published' = published \cup out
              /\ queue' = queue (+) SetToBag({Job(id, 1) : id \in out})
              /\ UNCHANGED <<now, catalogueVars, request, outbox, dlq,
                             judgeVars, faults>>
    BY <1>1, Zenon DEF Relay
  <2>2. PICK out : /\ published' = published \cup out /\ dlq' = dlq
                   /\ queue' = queue (+) SetToBag({Job(id, 1) : id \in out})
    BY <2>1, Zenon
  <2>3. BagToSet(queue') = BagToSet(queue) \cup {Job(id, 1) : id \in out}
    BY <2>2, AddBags, Zenon
  <2>4. \A id \in out : Job(id, 1) \in BagToSet(queue') /\ Job(id, 1).id = id
    BY <2>3 DEF Job
  <2>5. BagToSet(queue) \subseteq BagToSet(queue')
    BY <2>3
  <2> QED
    BY <2>2, <2>4, <2>5
<1>2. ASSUME published' = published, dlq \subseteq dlq',
             BagToSet(queue) \subseteq BagToSet(queue')
      PROVE  /\ dlq \subseteq dlq'
             /\ \A id \in published' \ published :
                   \E job \in BagToSet(queue') : job.id = id
             /\ \A job \in BagToSet(queue) \ BagToSet(queue') :
                   \E w \in Worker : worker'[w] = [at |-> "scan", job |-> job]
  BY <1>2
<1>3. CASE RelayUnconfirmed
  <2>1. PICK id : /\ queue' = BagAdd(queue, Job(id, 1))
                  /\ UNCHANGED <<published, dlq>>
    BY <1>3 DEF RelayUnconfirmed
  <2> QED
    BY <1>2, <2>1, AddToBag
<1>4. ASSUME NEW w \in Worker, Take(w)
      PROVE  /\ dlq \subseteq dlq'
             /\ \A id \in published' \ published :
                   \E job \in BagToSet(queue') : job.id = id
             /\ \A job \in BagToSet(queue) \ BagToSet(queue') :
                   \E v \in Worker : worker'[v] = [at |-> "scan", job |-> job]
  <2>1. PICK job \in BagToSet(queue) :
           /\ worker' = [worker EXCEPT ![w] = [at |-> "scan", job |-> job]]
           /\ queue' = BagRemove(queue, job)
           /\ UNCHANGED <<published, dlq>>
    BY <1>4 DEF Take, Working
  <2>2. BagToSet(queue) \subseteq BagToSet(queue') \cup {job}
    BY <2>1, RemoveFromBag
  <2>3. worker'[w] = [at |-> "scan", job |-> job]
    BY <2>1
  <2> QED
    BY <2>1, <2>2, <2>3
<1>5. ASSUME NEW w \in Worker,
             WorkerStep(w) \/ CallFails(w) \/ WorkerCrash(w), ~Take(w)
      PROVE  /\ published' = published /\ dlq \subseteq dlq'
             /\ \/ queue' = queue
                \/ \E job : queue' = BagAdd(queue, job)
  BY <1>5 DEF WorkerStep, Scan, Denied, InsertReview, Decide, Audit, Finish,
              CallFails, WorkerCrash, Working
<1>6. ASSUME NEW w \in Worker,
             WorkerStep(w) \/ CallFails(w) \/ WorkerCrash(w), ~Take(w)
      PROVE  /\ published' = published /\ dlq \subseteq dlq'
             /\ BagToSet(queue) \subseteq BagToSet(queue')
  BY <1>5, <1>6, AddToBag
<1>7. ASSUME UNCHANGED <<published, queue, dlq>>
      PROVE  /\ published' = published /\ dlq \subseteq dlq'
             /\ BagToSet(queue) \subseteq BagToSet(queue')
  BY <1>7
<1>8. ASSUME NEW r \in Request, NEW e \in Event,
             Organize(r, e) \/ Moderate(r, e) \/ Publish(r, e)
      PROVE  UNCHANGED <<published, queue, dlq>>
  BY <1>8, Begins DEF jobVars
<1>9. ASSUME NEW r \in Request, RequestStep(r) \/ RequestCrash(r)
      PROVE  UNCHANGED <<published, queue, dlq>>
  BY <1>9 DEF RequestStep, Update, InsertTier, UpdateTier, SetHumanDecision,
              RequestCrash, jobVars
<1>10. ASSUME NEW e \in Event, CreateEvent(e) \/ Sell(e)
       PROVE  UNCHANGED <<published, queue, dlq>>
  BY <1>10 DEF CreateEvent, Sell, jobVars
<1>11. ASSUME OpenDueSales \/ Tick
       PROVE  UNCHANGED <<published, queue, dlq>>
  BY <1>11 DEF OpenDueSales, Tick, jobVars
<1> QED
  BY <1>1, <1>2, <1>3, <1>4, <1>6, <1>7, <1>8, <1>9, <1>10, <1>11 DEF Next

(* What workers have in hand, and what was audited.                        *)
LEMMA JudgeStep ==
  ASSUME Shape, SoundRows, Next
  PROVE  JudgeShape'
<1>0. /\ review' \in Seq(Opinion) /\ DOMAIN review \subseteq DOMAIN review'
      /\ JobRecord \subseteq JobRecord' /\ Hand \subseteq Hand'
  BY OutboxGrows, ReviewsGrow, HandsGrow
<1>1. /\ worker \in [Worker -> {Free} \cup Hand]
      /\ audited \subseteq DOMAIN review
  BY DEF Shape, JudgeShape
<1>2. ASSUME NEW w \in Worker, NEW h \in {Free} \cup Hand',
             worker' = [worker EXCEPT ![w] = h]
      PROVE  worker' \in [Worker -> {Free} \cup Hand']
  BY <1>0, <1>1, <1>2
<1>3. ASSUME worker' \in [Worker -> {Free} \cup Hand'], audited' = audited
      PROVE  JudgeShape'
  BY <1>0, <1>1, <1>3 DEF JudgeShape
<1>4. ASSUME NEW w \in Worker,
             \E at \in {"failed", "refused", "audit", "answered"} :
                 /\ Goes(w, at)
                 /\ \/ worker[w].at = "scan" /\ at = "failed"
                    \/ worker[w].at = "insert" /\ at = "failed"
                    \/ worker[w].at \in {"decide", "audit", "answered"}
      PROVE  worker' \in [Worker -> {Free} \cup Hand']
  <2>1. worker[w] # Free
    BY <1>4 DEF Free
  <2>2. worker' \in [Worker -> {Free} \cup Hand]
    BY <1>4, <2>1, GoesOn
  <2> QED
    BY <1>0, <2>2
<1>5. ASSUME NEW w \in Worker, NEW verdict \in AiVerdict,
             worker[w].at = "scan", Call(w, verdict)
      PROVE  worker' \in [Worker -> {Free} \cup Hand']
  <2>1. worker[w].job \in JobRecord
    BY <1>1, <1>5 DEF Free, Hand, Scanning, Inserting, Deciding
  <2>2. EventOf(w) \in Event
    BY <2>1, JobsAreMessages DEF EventOf, Shape
  <2>3. event[EventOf(w)] \in Row
    BY <2>2 DEF Shape, CatalogueShape
  <2>4. \A row \in Row : Judged(verdict, row) \in Row
    BY Numbers DEF Judged, AiVerdict, Row, EventStatus
  <2>5. [at |-> "insert", job |-> worker[w].job, verdict |-> verdict,
         row |-> Judged(verdict, event[EventOf(w)])] \in Inserting
    BY <2>1, <2>3, <2>4 DEF Inserting
  <2> QED
    BY <1>0, <1>2, <1>5, <2>5 DEF Call, Hand
<1>6. ASSUME NEW w \in Worker, Take(w)
      PROVE  JudgeShape'
  <2>1. PICK job \in BagToSet(queue) :
           worker' = [worker EXCEPT ![w] = [at |-> "scan", job |-> job]]
    BY <1>6 DEF Take
  <2>2. [at |-> "scan", job |-> job] \in Hand
    BY DEF Shape, JobShape, Scanning, Hand
  <2> QED
    BY <1>0, <1>2, <1>3, <1>6, <2>1, <2>2 DEF Take
<1>7. ASSUME NEW w \in Worker, Scan(w) \/ Denied(w)
      PROVE  JudgeShape'
  <2>1. worker[w].at = "scan" /\ audited' = audited
    BY <1>7 DEF Scan, Denied, Working
  <2>2. Goes(w, "failed") \/ \E verdict \in AiVerdict : Call(w, verdict)
    BY <1>7 DEF Scan, Denied, AiVerdict
  <2> QED
    BY <1>3, <1>4, <1>5, <2>1, <2>2
<1>8. ASSUME NEW w \in Worker, InsertReview(w)
      PROVE  JudgeShape'
  <2>1. worker[w] \in Inserting
    BY <1>1, <1>8 DEF InsertReview, Working, Free, Hand, Scanning, Inserting,
                      Deciding
  <2> DEFINE h == [at |-> "decide", job |-> worker[w].job,
                   verdict |-> worker[w].verdict, row |-> worker[w].row,
                   review |-> Len(review) + 1]
  <2>2. worker' = [worker EXCEPT ![w] = h] /\ audited' = audited
    BY <1>8 DEF InsertReview
  <2>3. Len(review) + 1 \in DOMAIN review'
    BY <1>8 DEF InsertReview, Shape, JudgeShape
  <2>4. h \in Hand'
    BY <1>0, <2>1, <2>3 DEF Inserting, Deciding, Hand
  <2> QED
    BY <1>2, <1>3, <2>2, <2>4
<1>9. ASSUME NEW w \in Worker, Decide(w)
      PROVE  JudgeShape'
  <2>1. /\ worker[w].at = "decide" /\ audited' = audited
        /\ Goes(w, "refused") \/ Goes(w, "audit")
    BY <1>9 DEF Decide, Working
  <2> QED
    BY <1>3, <1>4, <2>1
<1>10. ASSUME NEW w \in Worker, Audit(w)
       PROVE  JudgeShape'
  <2>1. worker[w].at = "audit" /\ Goes(w, "answered")
    BY <1>10 DEF Audit, Working
  <2>2. worker[w].review \in DOMAIN review
    BY <1>1, <2>1 DEF Free, Hand, Scanning, Inserting, Deciding
  <2>3. audited' \subseteq DOMAIN review
    BY <1>1, <1>10, <2>2 DEF Audit
  <2>4. worker' \in [Worker -> {Free} \cup Hand']
    BY <1>4, <2>1
  <2> QED
    BY <1>0, <2>3, <2>4 DEF JudgeShape
<1>11. ASSUME NEW w \in Worker, CallFails(w)
       PROVE  JudgeShape'
  <2>1. /\ worker[w].at \in {"scan", "insert", "decide", "audit", "answered"}
        /\ Goes(w, "failed") /\ audited' = audited
    BY <1>11 DEF CallFails, Working
  <2> QED
    BY <1>3, <1>4, <2>1
<1>12. ASSUME NEW w \in Worker, Finish(w) \/ WorkerCrash(w)
       PROVE  JudgeShape'
  BY <1>2, <1>3, <1>12 DEF Finish, WorkerCrash
<1>13. ASSUME UNCHANGED <<worker, audited>>
       PROVE  JudgeShape'
  BY <1>0, <1>1, <1>13 DEF JudgeShape
<1>14. ASSUME NEW r \in Request, NEW e \in Event,
              Organize(r, e) \/ Moderate(r, e) \/ Publish(r, e)
       PROVE  JudgeShape'
  BY <1>13, <1>14, Begins DEF judgeVars, Shape
<1>15. ASSUME NEW r \in Request, RequestStep(r) \/ RequestCrash(r)
       PROVE  JudgeShape'
  BY <1>13, <1>15 DEF RequestStep, Update, InsertTier, UpdateTier,
                      SetHumanDecision, RequestCrash, judgeVars
<1>16. ASSUME NEW e \in Event, CreateEvent(e) \/ Sell(e)
       PROVE  JudgeShape'
  BY <1>13, <1>16 DEF CreateEvent, Sell, judgeVars
<1>17. CASE Relay
  <2>1. UNCHANGED judgeVars
    BY <1>17, Zenon DEF Relay
  <2> QED
    BY <1>13, <2>1 DEF judgeVars
<1>18. CASE RelayUnconfirmed \/ OpenDueSales \/ Tick
  BY <1>13, <1>18 DEF RelayUnconfirmed, OpenDueSales, Tick, judgeVars
<1> QED
  BY <1>6, <1>7, <1>8, <1>9, <1>10, <1>11, <1>12, <1>14, <1>15, <1>16, <1>17,
     <1>18 DEF Next, WorkerStep
-----------------------------------------------------------------------------
(* A row that was sound stays it, because the clock does not go back.      *)
LEMMA SoundLasts ==
  ASSUME Shape, SoundRows, Next
  PROVE  /\ now \in Nat /\ now' \in Nat /\ now <= now'
         /\ \A row \in Row : Sound(row) => Sound(row)'
<1>1. now \in Nat
  BY Numbers DEF Shape, CatalogueShape
<1>2. now' \in {now, now + 1}
  <2>1. ASSUME NEW r \in Request, NEW e \in Event,
               Organize(r, e) \/ Moderate(r, e) \/ Publish(r, e)
        PROVE  now' = now
    BY <2>1, Begins DEF Shape
  <2>2. CASE Relay
    BY <2>2, Zenon DEF Relay
  <2>3. CASE RelayUnconfirmed \/ OpenDueSales \/ Tick
    BY <2>3 DEF RelayUnconfirmed, OpenDueSales, Tick
  <2>4. ASSUME NEW w \in Worker,
               WorkerStep(w) \/ CallFails(w) \/ WorkerCrash(w)
        PROVE  now' = now
    BY <2>4 DEF WorkerStep, Take, Scan, Denied, InsertReview, Decide, Audit,
                Finish, CallFails, WorkerCrash, Working
  <2>5. ASSUME NEW r \in Request, RequestStep(r) \/ RequestCrash(r)
        PROVE  now' = now
    BY <2>5 DEF RequestStep, Update, InsertTier, UpdateTier,
                SetHumanDecision, RequestCrash
  <2>6. ASSUME NEW e \in Event, CreateEvent(e) \/ Sell(e)
        PROVE  now' = now
    BY <2>6 DEF CreateEvent, Sell
  <2> QED
    BY <2>1, <2>2, <2>3, <2>4, <2>5, <2>6 DEF Next
<1>3. now' \in Nat /\ now <= now'
  BY <1>1, <1>2
<1>4. ASSUME NEW row \in Row, Sound(row)
      PROVE  Sound(row)'
  <2>1. row.sale \in Nat
    BY Numbers DEF Row
  <2> QED
    BY <1>1, <1>3, <1>4, <2>1 DEF Sound
<1> QED
  BY <1>1, <1>3, <1>4

(* The rows that are written are sound ones, and only a submission or      *)
(* nothing at all puts an event under review.                              *)
LEMMA EventsWritten ==
  ASSUME Shape, SoundRows, Next, NEW e \in Event, event'[e] # event[e]
  PROVE  /\ Sound(event[e])'
         /\ event'[e].status = "PENDING_REVIEW" =>
               \E r \in Request :
                   /\ Update(r)
                   /\ request[r].op = "submit" /\ request[r].event = e
<1> USE DEF Shape, CatalogueShape
<1>0. event[e] \in Row /\ \A row \in Row : Sound(row) => Sound(row)'
  BY SoundLasts
<1>1. ASSUME NEW d \in Event, CreateEvent(d)
      PROVE  Sound(event[e])' /\ event'[e].status # "PENDING_REVIEW"
  <2>1. event'[e].status = "DRAFT"
    BY <1>1 DEF CreateEvent
  <2> QED
    BY <2>1 DEF Sound
<1>2. ASSUME NEW r \in Request, Update(r)
      PROVE  /\ Sound(event[e])'
             /\ event'[e].status = "PENDING_REVIEW" =>
                   request[r].op = "submit" /\ request[r].event = e
  <2>1. request[r] \in Asking /\ request[r] # Idle
    BY <1>2 DEF Update, Idle
  <2>2. e = request[r].event /\ event'[e] = request[r].row
    BY <1>2, <2>1 DEF Update
  <2>3. request[r].row \in Row
    BY <2>1 DEF Asking
  <2> QED
    BY <1>0, <2>1, <2>2, <2>3 DEF SoundRows
<1>3. ASSUME NEW w \in Worker, Decide(w)
      PROVE  Sound(event[e])' /\ event'[e].status # "PENDING_REVIEW"
  <2>1. /\ worker[w].at = "decide" /\ worker[w].verdict # "NEEDS_HUMAN"
        /\ event'[e] = worker[w].row
    BY <1>3 DEF Decide, Working
  <2>2. worker[w].row \in Row
    BY <2>1 DEF JudgeShape, Free, Hand, Scanning, Inserting, Deciding
  <2> QED
    BY <1>0, <2>1, <2>2 DEF SoundRows
<1>4. CASE OpenDueSales
  <2>1. /\ Due(event[e]) /\ event'[e] = [event[e] EXCEPT !.status = "ON_SALE"]
        /\ now' = now
    BY <1>4 DEF OpenDueSales
  <2>2. event'[e].status = "ON_SALE" /\ event'[e].sale = event[e].sale
    BY <1>0, <2>1 DEF Row
  <2> QED
    BY <2>1, <2>2 DEF Sound, Due
<1>5. ASSUME NEW r \in Request, NEW d \in Event,
             Organize(r, d) \/ Moderate(r, d) \/ Publish(r, d)
      PROVE  FALSE
  BY <1>5, Begins DEF catalogueVars
<1>6. CASE Relay
  <2>1. UNCHANGED catalogueVars
    BY <1>6, Zenon DEF Relay
  <2> QED
    BY <2>1 DEF catalogueVars
<1>7. CASE RelayUnconfirmed \/ Tick
  BY <1>7 DEF RelayUnconfirmed, Tick, catalogueVars
<1>8. ASSUME NEW w \in Worker,
             WorkerStep(w) \/ CallFails(w) \/ WorkerCrash(w)
      PROVE  Decide(w)
  BY <1>8 DEF WorkerStep, Take, Scan, Denied, InsertReview, Audit, Finish,
              CallFails, WorkerCrash, catalogueVars
<1>9. ASSUME NEW r \in Request, RequestStep(r) \/ RequestCrash(r)
      PROVE  Update(r)
  BY <1>9 DEF RequestStep, InsertTier, UpdateTier, SetHumanDecision,
              RequestCrash, catalogueVars
<1>10. ASSUME NEW d \in Event, Sell(d)
       PROVE  FALSE
  BY <1>10 DEF Sell
<1> QED
  BY <1>1, <1>2, <1>3, <1>4, <1>5, <1>6, <1>7, <1>8, <1>9, <1>10 DEF Next
(* What requests are about to write stays sound.                           *)
LEMMA RequestsSound ==
  ASSUME Shape, SoundRows, Next
  PROVE  \A r \in Request : request'[r] # Idle =>
            /\ Sound(request[r].row)'
            /\ request'[r].row.status = "PENDING_REVIEW" =>
                  request'[r].op = "submit"
<1> USE DEF Shape, CatalogueShape
<1>0. /\ \A row \in Row : Sound(row) => Sound(row)'
      /\ request' \in [Request -> {Idle} \cup Asking]
  BY SoundLasts, CatalogueStep
<1> SUFFICES ASSUME NEW r \in Request, request'[r] # Idle
             PROVE  /\ Sound(request[r].row)'
                    /\ request'[r].row.status = "PENDING_REVIEW" =>
                          request'[r].op = "submit"
  OBVIOUS
<1>1. ASSUME request[r] # Idle, request'[r].row = request[r].row,
             request'[r].op = request[r].op
      PROVE  /\ Sound(request[r].row)'
             /\ request'[r].row.status = "PENDING_REVIEW" =>
                   request'[r].op = "submit"
  <2>1. request[r].row \in Row
    BY <1>1 DEF Asking
  <2> QED
    BY <1>0, <1>1, <2>1 DEF SoundRows
<1>2. ASSUME NEW d \in Request, NEW e \in Event,
             Organize(d, e) \/ Moderate(d, e) \/ Publish(d, e)
      PROVE  /\ Sound(request[r].row)'
             /\ request'[r].row.status = "PENDING_REVIEW" =>
                   request'[r].op = "submit"
  <2>1. PICK q \in Asking :
           /\ request' = [request EXCEPT ![d] = q]
           /\ Sound(q.row)
           /\ q.row.status = "PENDING_REVIEW" => q.op = "submit"
    BY <1>2, Begins
  <2>2. CASE r = d
    <3>1. q.row \in Row /\ request'[r] = q
      BY <2>1, <2>2 DEF Asking
    <3> QED
      BY <1>0, <2>1, <3>1
  <2>3. CASE r # d
    BY <1>1, <2>1, <2>3
  <2> QED
    BY <2>2, <2>3
<1>3. ASSUME NEW d \in Request, NEW at, request[d] # Idle,
             request' = [request EXCEPT ![d] = [request[d] EXCEPT !.at = at]]
      PROVE  /\ request'[r].row = request[r].row
             /\ request'[r].op = request[r].op
             /\ request[r] # Idle
  <2>1. CASE r = d
    <3>1. request[d] \in Asking
      BY <1>3
    <3>2. request'[r] = [request[d] EXCEPT !.at = at]
      BY <1>3, <2>1
    <3> QED
      BY <1>3, <2>1, <3>1, <3>2 DEF Asking
  <2>2. CASE r # d
    BY <1>3, <2>2
  <2> QED
    BY <2>1, <2>2
<1>4. ASSUME NEW d \in Request, RequestStep(d) \/ RequestCrash(d)
      PROVE  /\ request'[r].row = request[r].row
             /\ request'[r].op = request[r].op
             /\ request[r] # Idle
  <2>1. CASE request' = [request EXCEPT ![d] = Idle]
    BY <2>1
  <2>2. CASE \E at : /\ request[d] # Idle
                     /\ request' = [request EXCEPT
                            ![d] = [request[d] EXCEPT !.at = at]]
    BY <1>3, <2>2
  <2>3. CASE Update(d)
    <3>1. request[d] # Idle
      BY <2>3 DEF Update, Idle
    <3>2. \/ request' = [request EXCEPT ![d] = Idle]
          \/ request' = [request EXCEPT
                            ![d] = [request[d] EXCEPT !.at = "note"]]
      BY <2>3 DEF Update
    <3> QED
      BY <2>1, <2>2, <3>1, <3>2
  <2>4. CASE UpdateTier(d)
    <3>1. request[d] # Idle
      BY <2>4 DEF UpdateTier, Idle
    <3>2. request' = [request EXCEPT ![d] = [request[d] EXCEPT !.at = "row"]]
      BY <2>4 DEF UpdateTier
    <3> QED
      BY <2>2, <3>1, <3>2
  <2>5. CASE InsertTier(d) \/ SetHumanDecision(d) \/ RequestCrash(d)
    BY <2>1, <2>5 DEF InsertTier, SetHumanDecision, RequestCrash
  <2> QED
    BY <1>4, <2>3, <2>4, <2>5 DEF RequestStep
<1>5. ASSUME UNCHANGED request
      PROVE  /\ Sound(request[r].row)'
             /\ request'[r].row.status = "PENDING_REVIEW" =>
                   request'[r].op = "submit"
  BY <1>1, <1>5
<1>6. CASE Relay
  BY <1>5, <1>6, Zenon DEF Relay
<1>7. CASE RelayUnconfirmed \/ OpenDueSales \/ Tick
  BY <1>5, <1>7 DEF RelayUnconfirmed, OpenDueSales, Tick
<1>8. ASSUME NEW w \in Worker,
             WorkerStep(w) \/ CallFails(w) \/ WorkerCrash(w)
      PROVE  UNCHANGED request
  BY <1>8 DEF WorkerStep, Take, Scan, Denied, InsertReview, Decide, Audit,
              Finish, CallFails, WorkerCrash, Working
<1>9. ASSUME NEW e \in Event, CreateEvent(e) \/ Sell(e)
      PROVE  UNCHANGED request
  BY <1>9 DEF CreateEvent, Sell
<1> QED
  BY <1>1, <1>2, <1>4, <1>5, <1>6, <1>7, <1>8, <1>9 DEF Next

(* So does what the AI worker's callbacks are about to write.              *)
LEMMA VerdictsSound ==
  ASSUME Shape, SoundRows, Next
  PROVE  \A w \in Worker : worker'[w].at \in {"insert", "decide"} =>
            /\ Sound(worker[w].row)'
            /\ worker'[w].row.status = "PENDING_REVIEW" =>
                  worker'[w].verdict = "NEEDS_HUMAN"
<1> USE DEF Shape, JudgeShape
<1>0. \A row \in Row : Sound(row) => Sound(row)'
  BY SoundLasts
<1> SUFFICES ASSUME NEW w \in Worker, worker'[w].at \in {"insert", "decide"}
             PROVE  /\ Sound(worker[w].row)'
                    /\ worker'[w].row.status = "PENDING_REVIEW" =>
                          worker'[w].verdict = "NEEDS_HUMAN"
  OBVIOUS
<1>1. ASSUME worker[w].at \in {"insert", "decide"},
             worker'[w].row = worker[w].row,
             worker'[w].verdict = worker[w].verdict
      PROVE  /\ Sound(worker[w].row)'
             /\ worker'[w].row.status = "PENDING_REVIEW" =>
                   worker'[w].verdict = "NEEDS_HUMAN"
  <2>1. worker[w].row \in Row
    BY <1>1 DEF Free, Hand, Scanning, Inserting, Deciding
  <2> QED
    BY <1>0, <1>1, <2>1 DEF SoundRows
<1>2. CASE worker'[w] = worker[w]
  BY <1>1, <1>2
<1>3. ASSUME NEW verdict \in AiVerdict, worker[w].at = "scan",
             Call(w, verdict)
      PROVE  /\ Sound(worker[w].row)'
             /\ worker'[w].row.status = "PENDING_REVIEW" =>
                   worker'[w].verdict = "NEEDS_HUMAN"
  <2>1. worker[w].job \in JobRecord
    BY <1>3 DEF Free, Hand, Scanning, Inserting, Deciding
  <2>2. EventOf(w) \in Event
    BY <2>1, JobsAreMessages DEF EventOf
  <2> DEFINE row == event[EventOf(w)]
  <2>3. row \in Row /\ Sound(row)
    BY <2>2 DEF CatalogueShape, SoundRows
  <2>4. worker'[w].row = Judged(verdict, row) /\ worker'[w].verdict = verdict
    BY <1>3 DEF Call
  <2> HIDE DEF row
  <2>5. /\ Judged(verdict, row) \in Row /\ Sound(Judged(verdict, row))
        /\ Judged(verdict, row).status = "PENDING_REVIEW" =>
               verdict = "NEEDS_HUMAN"
    BY <2>3, Numbers DEF Judged, AiVerdict, Row, EventStatus, Sound, NoRow
  <2> QED
    BY <1>0, <2>4, <2>5
<1>4. ASSUME NEW v \in Worker, Scan(v) \/ Denied(v), v = w
      PROVE  /\ worker[w].at = "scan"
             /\ \E verdict \in AiVerdict : Call(w, verdict)
  <2>1. worker[w].at = "scan" /\ worker[w] # Free
    BY <1>4 DEF Scan, Denied, Working, Free
  <2>2. ~ Goes(w, "failed")
    BY <2>1, GoesOn
  <2> QED
    BY <1>4, <2>1, <2>2 DEF Scan, Denied, AiVerdict
<1>5. ASSUME NEW v \in Worker, Scan(v) \/ Denied(v), v # w
      PROVE  worker'[w] = worker[w]
  BY <1>5 DEF Scan, Denied, Call, Goes
<1>6. ASSUME NEW v \in Worker, InsertReview(v)
      PROVE  \/ worker'[w] = worker[w]
             \/ /\ worker[w].at \in {"insert", "decide"}
                /\ worker'[w].row = worker[w].row
                /\ worker'[w].verdict = worker[w].verdict
  BY <1>6 DEF InsertReview, Working
<1>7. ASSUME NEW v \in Worker, Decide(v) \/ Audit(v) \/ CallFails(v)
      PROVE  worker'[w] = worker[w]
  <2>1. PICK at \in {"audit", "refused", "answered", "failed"} : Goes(v, at)
    BY <1>7 DEF Decide, Audit, CallFails
  <2>2. /\ worker[v] # Free
        /\ \/ worker[v].at = "scan" /\ at = "failed"
           \/ worker[v].at = "insert" /\ at = "failed"
           \/ worker[v].at \in {"decide", "audit", "answered"}
    <3>1. \/ worker[v].at \in {"decide", "audit", "answered"}
          \/ worker[v].at \in {"scan", "insert"} /\ Goes(v, "failed")
      BY <1>7 DEF Decide, Audit, CallFails, Working
    <3>2. worker[v] # Free
      BY <3>1 DEF Free
    <3>3. worker[v].at \in {"scan", "insert"} => at = "failed"
      <4> SUFFICES ASSUME worker[v].at \in {"scan", "insert"}
                   PROVE  at = "failed"
        OBVIOUS
      <4>1. worker'[v].at = "failed"
        BY <3>1, <3>2, GoesOn
      <4>2. worker'[v].at = at
        BY <2>1, <3>2 DEF Goes, Hand, Scanning, Inserting, Deciding
      <4> QED
        BY <4>1, <4>2
    <3> QED
      BY <3>1, <3>2, <3>3
  <2> QED
    BY <2>1, <2>2, GoesOn
<1>8. ASSUME NEW v \in Worker, Take(v) \/ Finish(v) \/ WorkerCrash(v)
      PROVE  worker'[w] = worker[w]
  BY <1>8 DEF Take, Finish, WorkerCrash, Free
<1>9. ASSUME NEW r \in Request, NEW e \in Event,
             Organize(r, e) \/ Moderate(r, e) \/ Publish(r, e)
      PROVE  worker' = worker
  BY <1>9, Begins DEF judgeVars
<1>10. ASSUME NEW r \in Request, RequestStep(r) \/ RequestCrash(r)
       PROVE  worker' = worker
  BY <1>10 DEF RequestStep, Update, InsertTier, UpdateTier,
               SetHumanDecision, RequestCrash, judgeVars
<1>11. ASSUME NEW e \in Event, CreateEvent(e) \/ Sell(e)
       PROVE  worker' = worker
  BY <1>11 DEF CreateEvent, Sell, judgeVars
<1>12. CASE Relay
  <2>1. UNCHANGED judgeVars
    BY <1>12, Zenon DEF Relay
  <2> QED
    BY <1>2, <2>1 DEF judgeVars
<1>13. CASE RelayUnconfirmed \/ OpenDueSales \/ Tick
  BY <1>2, <1>13 DEF RelayUnconfirmed, OpenDueSales, Tick, judgeVars
<1> QED
  BY <1>1, <1>2, <1>3, <1>4, <1>5, <1>6, <1>7, <1>8, <1>9, <1>10, <1>11,
     <1>12, <1>13 DEF Next, WorkerStep

(* Together: every row in the tables and in hand stays sound.              *)
LEMMA SoundStep ==
  ASSUME Shape, SoundRows, Next
  PROVE  SoundRows'
<1>1. ASSUME NEW e \in Event
      PROVE  Sound(event[e])'
  <2>1. CASE event'[e] = event[e]
    <3>1. event[e] \in Row /\ Sound(event[e])
      BY DEF Shape, CatalogueShape, SoundRows
    <3> QED
      BY <2>1, <3>1, SoundLasts
  <2>2. CASE event'[e] # event[e]
    BY <2>2, EventsWritten
  <2> QED
    BY <2>1, <2>2
<1> QED
  BY <1>1, RequestsSound, VerdictsSound DEF SoundRows
-----------------------------------------------------------------------------
(* Only a change of the quota changes the capacity, and by as much.        *)
LEMMA QuotaStep ==
  ASSUME Shape, SoundRows, QuotaIsCapacity, Next
  PROVE  QuotaIsCapacity'
<1> USE DEF Shape, CatalogueShape
<1>1. ASSUME UNCHANGED tier
      PROVE  QuotaIsCapacity'
  BY <1>1 DEF QuotaIsCapacity
<1>2. ASSUME NEW e \in Event, Sell(e)
      PROVE  QuotaIsCapacity'
  BY <1>2 DEF Sell, QuotaIsCapacity, Stock
<1>3. ASSUME NEW r \in Request, InsertTier(r)
      PROVE  QuotaIsCapacity'
  BY <1>3 DEF InsertTier, QuotaIsCapacity
<1>4. ASSUME NEW r \in Request, UpdateTier(r)
      PROVE  QuotaIsCapacity'
  <2> DEFINE q == request[r]
             t == tier[q.event]
  <2>1. q.event \in Event /\ q.quota \in Nat
    BY <1>4 DEF UpdateTier, Idle, Asking
  <2>2. t \in Stock /\ t.capacity = t.quota
    BY <2>1 DEF QuotaIsCapacity
  <2>3. tier' = [tier EXCEPT ![q.event] = Resized(t, q)]
    BY <1>4 DEF UpdateTier
  <2>4. Resized(t, q).capacity = Resized(t, q).quota
    BY <2>1, <2>2 DEF Resized, Stock
  <2> QED
    BY <2>1, <2>3, <2>4 DEF QuotaIsCapacity
<1>5. ASSUME NEW r \in Request, NEW e \in Event,
             Organize(r, e) \/ Moderate(r, e) \/ Publish(r, e)
      PROVE  QuotaIsCapacity'
  BY <1>1, <1>5, Begins DEF catalogueVars
<1>6. ASSUME NEW r \in Request,
             Update(r) \/ SetHumanDecision(r) \/ RequestCrash(r)
      PROVE  QuotaIsCapacity'
  BY <1>1, <1>6 DEF Update, SetHumanDecision, RequestCrash, catalogueVars
<1>7. ASSUME NEW w \in Worker,
             WorkerStep(w) \/ CallFails(w) \/ WorkerCrash(w)
      PROVE  QuotaIsCapacity'
  BY <1>1, <1>7 DEF WorkerStep, Take, Scan, Denied, InsertReview, Decide,
                    Audit, Finish, CallFails, WorkerCrash, Working,
                    catalogueVars
<1>8. CASE Relay
  <2>1. UNCHANGED catalogueVars
    BY <1>8, Zenon DEF Relay
  <2> QED
    BY <1>1, <2>1 DEF catalogueVars
<1>9. ASSUME NEW e \in Event, CreateEvent(e)
      PROVE  QuotaIsCapacity'
  BY <1>1, <1>9 DEF CreateEvent
<1>10. CASE RelayUnconfirmed \/ OpenDueSales \/ Tick
  BY <1>1, <1>10 DEF RelayUnconfirmed, OpenDueSales, Tick, catalogueVars
<1> QED
  BY <1>2, <1>3, <1>4, <1>5, <1>6, <1>7, <1>8, <1>9, <1>10
     DEF Next, RequestStep

-----------------------------------------------------------------------------
(* A human that was asked stays asked.                                     *)
LEMMA AskedLasts ==
  ASSUME Shape, SoundRows, Next, NEW id, Asked(id)
  PROVE  Asked(id)'
BY ReviewsGrow DEF Asked

(* The job of a submission is the last one and not yet published.          *)
LEMMA NewJob ==
  ASSUME Shape, NEW r \in Request, NEW e \in Event, NEW id,
         Update(r), request[r].op = "submit", request[r].event = e,
         id = Len(outbox) + 1
  PROVE  /\ IsLast(e, id)' /\ id \notin published'
         /\ \A k \in DOMAIN outbox : k < id
<1> DEFINE job == [key |-> "moderation", event |-> e]
<1>1. outbox' = Append(outbox, job) /\ published' = published
  BY DEF Update, WithOutbox, Writers, KeyOf
<1>2. /\ Len(outbox) \in Nat /\ DOMAIN outbox = 1..Len(outbox)
      /\ published \subseteq DOMAIN outbox
  BY DEF Shape, JobShape
<1>3. DOMAIN outbox' = 1..id /\ outbox'[id] = job
  BY <1>1 DEF Shape, JobShape
<1>4. \A k \in DOMAIN outbox : k < id
  BY <1>2
<1>5. id \notin published'
  BY <1>1, <1>2
<1>6. id \in JobsOf(e)'
  BY <1>2, <1>3 DEF JobsOf
<1>7. \A k \in JobsOf(e)' : k <= id
  BY <1>2, <1>3 DEF JobsOf
<1> QED
  BY <1>4, <1>5, <1>6, <1>7 DEF IsLast

(* Jobs stay jobs, and there is a new one only of a submission.            *)
LEMMA JobsGrow ==
  ASSUME Shape, SoundRows, Next, NEW e \in Event
  PROVE  /\ JobsOf(e) \subseteq JobsOf(e)'
         /\ \/ JobsOf(e)' = JobsOf(e)
            \/ \E r \in Request : /\ Update(r) /\ request[r].op = "submit"
                                  /\ request[r].event = e
<1>1. JobsOf(e) \subseteq JobsOf(e)'
  BY OutboxGrows DEF JobsOf
<1>2. ASSUME outbox' # outbox
      PROVE  \E r \in Request : Update(r)
  BY <1>2, OnlyUpdatesWrite
<1>3. ASSUME NEW r \in Request, Update(r),
             request[r].op # "submit" \/ request[r].event # e
      PROVE  JobsOf(e)' = JobsOf(e)
  <2>1. CASE outbox' = outbox
    BY <2>1 DEF JobsOf
  <2>2. CASE outbox' # outbox
    <3> DEFINE m == [key |-> KeyOf(request[r].op), event |-> request[r].event]
    <3>1. outbox' = Append(outbox, m)
      BY <1>3, <2>2 DEF Update, WithOutbox
    <3>2. m.key # "moderation" \/ m.event # e
      BY <1>3 DEF KeyOf
    <3>3. /\ Len(outbox) \in Nat /\ DOMAIN outbox = 1..Len(outbox)
          /\ DOMAIN outbox' = 1..(Len(outbox) + 1)
          /\ outbox'[Len(outbox) + 1] = m
          /\ \A k \in DOMAIN outbox : outbox'[k] = outbox[k]
      BY <3>1 DEF Shape, JobShape
    <3> HIDE DEF m
    <3>4. ASSUME NEW k \in JobsOf(e)'
          PROVE  k \in JobsOf(e)
      <4>1. /\ k \in DOMAIN outbox'
            /\ outbox'[k].event = e /\ outbox'[k].key = "moderation"
        BY DEF JobsOf
      <4>2. k \in DOMAIN outbox
        BY <3>2, <3>3, <4>1
      <4> QED
        BY <3>3, <4>1, <4>2 DEF JobsOf
    <3> QED
      BY <1>1, <3>4
  <2> QED
    BY <2>1, <2>2
<1>4. CASE outbox' = outbox
  BY <1>4 DEF JobsOf
<1> QED
  BY <1>1, <1>2, <1>3, <1>4

(* An event that a job has nothing to do with any more comes under review  *)
(* only together with a later job.                                         *)
LEMMA PassedLasts ==
  ASSUME Shape, SoundRows, Next, NEW id \in DOMAIN outbox, Passed(id)
  PROVE  Passed(id)'
<1>1. outbox[id].event \in Event /\ id \in Nat
  <2>1. id \in 1..Len(outbox) /\ Len(outbox) \in Nat
    BY DEF Shape, JobShape
  <2>2. outbox[id] \in Message
    BY DEF Shape, JobShape
  <2> QED
    BY <2>1, <2>2 DEF Message
<1>2. PICK e \in Event : e = outbox[id].event
  BY <1>1
<1>3. outbox'[id].event = e
  BY <1>2, OutboxGrows
<1>4. CASE \E k \in JobsOf(e) : k > id
  BY <1>3, <1>4, JobsGrow DEF Passed
<1>5. CASE event'[e].status # "PENDING_REVIEW"
  BY <1>3, <1>5 DEF Passed
<1>6. CASE /\ event'[e].status = "PENDING_REVIEW"
           /\ event[e].status # "PENDING_REVIEW"
  <2>1. PICK r \in Request : /\ Update(r)
                             /\ request[r].op = "submit"
                             /\ request[r].event = e
    BY <1>6, EventsWritten
  <2>2. PICK k \in Nat : k = Len(outbox) + 1
    BY DEF Shape, JobShape
  <2>3. k \in JobsOf(e)' /\ id < k
    BY <2>1, <2>2, NewJob DEF IsLast
  <2>4. k > id
    BY <1>1, <2>3
  <2> QED
    BY <1>3, <2>3, <2>4 DEF Passed
<1> QED
  BY <1>2, <1>4, <1>5, <1>6 DEF Passed

(* A worker keeps its promise till it has answered.                        *)
LEMMA SettledStep ==
  ASSUME Shape, SoundRows, Settled, Next
  PROVE  Settled'
<1> USE DEF Shape, JudgeShape
<1> SUFFICES ASSUME NEW w \in Worker, NEW id \in Nat,
                    worker'[w].at \in {"decide", "audit", "answered"},
                    worker'[w].job.id = id
             PROVE  Promised(w, id)'
  BY DEF Settled, Promised
<1>0. worker[w].at \in {"insert", "decide", "audit", "answered"} =>
          /\ worker[w] # Free
          /\ worker[w].job \in JobRecord /\ worker[w].job.id \in DOMAIN outbox
  BY DEF Free, Hand, Scanning, Inserting, Deciding, JobRecord
<1>1. ASSUME worker[w].at \in {"decide", "audit", "answered"},
             worker'[w].job = worker[w].job,
             worker'[w].verdict = worker[w].verdict,
             worker[w].at = "decide" => worker'[w].at = "decide"
      PROVE  Promised(w, id)'
  <2>1. id \in DOMAIN outbox /\ worker[w].job.id = id
    BY <1>0, <1>1
  <2>2. Promised(w, id)
    BY <1>1, <2>1 DEF Settled
  <2> QED
    BY <1>1, <2>1, <2>2, AskedLasts, PassedLasts DEF Promised
<1>2. CASE worker'[w] = worker[w]
  BY <1>1, <1>2
<1>3. CASE InsertReview(w)
  <2>1. worker[w].at = "insert" /\ worker[w].job.id = id
    BY <1>3 DEF InsertReview, Working
  <2>2. /\ worker'[w].at = "decide"
        /\ worker'[w].verdict = worker[w].verdict
    BY <1>3 DEF InsertReview
  <2> DEFINE v == [event |-> EventOf(w), job |-> id,
                   verdict |-> worker[w].verdict, human |-> "none"]
  <2>3. review' = Append(review, v)
    BY <1>3, <2>1 DEF InsertReview
  <2>4. Len(review) + 1 \in DOMAIN review' /\ review'[Len(review) + 1] = v
    BY <2>3
  <2>5. worker[w].verdict = "NEEDS_HUMAN" => Asked(id)'
    BY <2>4 DEF Asked
  <2> QED
    BY <2>2, <2>5 DEF Promised
<1>4. CASE Decide(w)
  <2>1. worker[w].at = "decide" /\ outbox' = outbox
    BY <1>4 DEF Decide, Working
  <2>2. PICK at \in {"refused", "audit"} : Goes(w, at)
    BY <1>4 DEF Decide
  <2>3. /\ worker'[w].at = at /\ worker'[w].job = worker[w].job
        /\ worker'[w].verdict = worker[w].verdict
    BY <1>0, <2>1, <2>2, GoesOn
  <2>4. id \in DOMAIN outbox /\ worker[w].job.id = id
    BY <1>0, <2>1, <2>3
  <2>5. CASE worker[w].verdict = "NEEDS_HUMAN"
    <3>1. Asked(id)
      BY <2>1, <2>4, <2>5 DEF Settled, Promised
    <3> QED
      BY <2>3, <2>5, <3>1, AskedLasts DEF Promised
  <2>6. CASE worker[w].verdict # "NEEDS_HUMAN"
    <3>1. PICK e \in Event : e = outbox[id].event
      BY <1>0, <2>1, <2>4, JobsAreMessages
    <3>2. worker[w].row # NoRow
      <4>1. worker[w].row = NoRow => Goes(w, "refused")
        BY <1>4 DEF Decide
      <4>2. Goes(w, "refused") => worker'[w].at = "refused"
        BY <1>0, <2>1, GoesOn
      <4> QED
        BY <4>1, <4>2
    <3>3. event' = [event EXCEPT ![e] = worker[w].row]
      BY <1>4, <2>4, <2>6, <3>1, <3>2 DEF Decide, EventOf
    <3>4. event'[e] = worker[w].row
      BY <3>1, <3>3 DEF CatalogueShape
    <3>5. worker[w].row.status # "PENDING_REVIEW"
      BY <2>1, <2>6 DEF SoundRows
    <3>6. Passed(id)'
      BY <2>1, <3>1, <3>4, <3>5 DEF Passed
    <3> QED
      BY <2>3, <2>6, <3>6 DEF Promised
  <2> QED
    BY <2>5, <2>6
<1>5. CASE Audit(w)
  <2>1. worker[w].at = "audit" /\ Goes(w, "answered")
    BY <1>5 DEF Audit, Working
  <2>2. /\ worker'[w].job = worker[w].job
        /\ worker'[w].verdict = worker[w].verdict
    BY <1>0, <2>1, GoesOn
  <2> QED
    BY <1>1, <2>1, <2>2
<1>6. CASE CallFails(w)
  <2>1. /\ worker[w].at \in {"scan", "insert", "decide", "audit", "answered"}
        /\ Goes(w, "failed") /\ worker[w] # Free
    BY <1>6 DEF CallFails, Working, Free
  <2>2. worker'[w].at = "failed"
    BY <2>1, GoesOn
  <2> QED
    BY <2>2
<1>7. CASE Scan(w) \/ Denied(w)
  <2>1. worker[w].at = "scan" /\ worker[w] # Free
    BY <1>7 DEF Scan, Denied, Working, Free
  <2>2. Goes(w, "failed") => worker'[w].at = "failed"
    BY <2>1, GoesOn
  <2>3. ASSUME NEW verdict, Call(w, verdict)
        PROVE  worker'[w].at = "insert"
    BY <2>3 DEF Call
  <2> QED
    BY <1>7, <2>2, <2>3 DEF Scan, Denied
<1>8. CASE Take(w) \/ Finish(w) \/ WorkerCrash(w)
  BY <1>8 DEF Take, Finish, WorkerCrash, Free
<1>9. CASE ~(WorkerStep(w) \/ CallFails(w) \/ WorkerCrash(w))
  BY <1>2, <1>9, OthersStay
<1> QED
  BY <1>3, <1>4, <1>5, <1>6, <1>7, <1>8, <1>9 DEF WorkerStep

-----------------------------------------------------------------------------
(* A job somebody looks after is looked after in the next state, unless it *)
(* is one that nobody needs any more.                                      *)
LEMMA LookedLasts ==
  ASSUME Shape, SoundRows, Settled, Next, NEW id \in DOMAIN outbox,
         Looked(id), ~Passed(id)
  PROVE  Looked(id)'
<1> USE DEF Shape, JobShape, JudgeShape
<1>0. id \in Nat
  OBVIOUS
<1>1. CASE Asked(id)
  BY <1>1, AskedLasts DEF Looked
<1>2. CASE id \in dlq
  <2>1. dlq \subseteq dlq'
    BY QueuesGrow
  <2> QED
    BY <1>2, <2>1 DEF Looked
<1>3. CASE Queued(id)
  <2>1. PICK job \in BagToSet(queue) : job.id = id
    BY <1>3 DEF Queued
  <2>2. CASE job \in BagToSet(queue')
    BY <2>1, <2>2 DEF Looked, Queued
  <2>3. CASE job \notin BagToSet(queue')
    <3>1. PICK w \in Worker : worker'[w] = [at |-> "scan", job |-> job]
      BY <2>1, <2>3, QueuesGrow
    <3>2. worker'[w] # Free /\ worker'[w].job.id = id
      BY <2>1, <3>1 DEF Free
    <3> QED
      BY <3>2 DEF Looked, Held
  <2> QED
    BY <2>2, <2>3
<1>4. CASE id \notin published
  BY <1>4, QueuesGrow DEF Looked, Queued
<1>5. ASSUME NEW w \in Worker, worker[w] # Free, worker[w].job.id = id
      PROVE  Looked(id)'
  <2>0. worker[w] \in Hand /\ worker[w].job \in JobRecord
    BY <1>5 DEF Hand, Scanning, Inserting, Deciding
  <2>1. ASSUME worker'[w] # Free, worker'[w].job = worker[w].job
        PROVE  Looked(id)'
    BY <1>5, <2>1 DEF Looked, Held
  <2>2. CASE worker'[w] = worker[w]
    BY <1>5, <2>1, <2>2
  <2>3. CASE Finish(w)
    <3>1. PICK at \in {"answered", "failed", "refused"} : worker[w].at = at
      BY <2>3 DEF Finish, Working
    <3>2. CASE at = "answered"
      <4>1. IF worker[w].verdict = "NEEDS_HUMAN" THEN Asked(id) ELSE Passed(id)
        BY <1>0, <1>5, <3>1, <3>2 DEF Settled, Promised
      <4> QED
        BY <1>1, <4>1
    <3>3. CASE at = "failed" /\ Again(worker[w].job)
      <4> DEFINE next == Job(id, worker[w].job.attempt + 1)
      <4>1. queue' = BagAdd(queue, next)
        BY <1>5, <2>3, <3>1, <3>3 DEF Finish, Working
      <4>2. next \in BagToSet(queue') /\ next.id = id
        BY <4>1, AddToBag DEF Job
      <4> QED
        BY <4>2 DEF Looked, Queued
    <3>4. CASE at # "answered" /\ ~(at = "failed" /\ Again(worker[w].job))
      <4>1. dlq' = dlq \cup {id}
        BY <1>5, <2>3, <3>1, <3>4 DEF Finish, Working
      <4> QED
        BY <4>1 DEF Looked
    <3> QED
      BY <3>2, <3>3, <3>4
  <2>4. CASE WorkerCrash(w)
    <3>1. queue' = BagAdd(queue, worker[w].job)
      BY <2>4 DEF WorkerCrash
    <3>2. worker[w].job \in BagToSet(queue')
      BY <3>1, AddToBag
    <3> QED
      BY <1>5, <3>2 DEF Looked, Queued
  <2>5. CASE \/ Scan(w) \/ Denied(w) \/ InsertReview(w) \/ Decide(w)
             \/ Audit(w) \/ CallFails(w)
    <3>1. worker' = [worker EXCEPT ![w] = worker'[w]]
      BY <2>5 DEF Scan, Denied, InsertReview, Decide, Audit, CallFails, Call,
                  Goes
    <3>2. ASSUME NEW at, Goes(w, at)
          PROVE  /\ worker'[w].job = worker[w].job
                 /\ at # "idle" => worker'[w] # Free
      <4>1. worker'[w] = [worker[w] EXCEPT !.at = at]
        BY <3>2 DEF Goes
      <4> QED
        BY <2>0, <4>1 DEF Hand, Scanning, Inserting, Deciding, Free
    <3>3. ASSUME NEW verdict, Call(w, verdict)
          PROVE  worker'[w].job = worker[w].job /\ worker'[w] # Free
      BY <3>3 DEF Call, Free
    <3>4. CASE InsertReview(w)
      BY <2>1, <3>4 DEF InsertReview, Free
    <3>5. CASE Scan(w) \/ Denied(w)
      BY <2>1, <3>2, <3>3, <3>5 DEF Scan, Denied
    <3>6. CASE Decide(w) \/ Audit(w) \/ CallFails(w)
      BY <2>1, <3>2, <3>6 DEF Decide, Audit, CallFails
    <3> QED
      BY <2>5, <3>4, <3>5, <3>6
  <2>6. CASE Take(w)
    BY <1>5, <2>6 DEF Take, Working, Free, Hand, Scanning, Inserting, Deciding
  <2>7. CASE ~(WorkerStep(w) \/ CallFails(w) \/ WorkerCrash(w))
    BY <2>2, <2>7, OthersStay
  <2> QED
    BY <2>3, <2>4, <2>5, <2>6, <2>7 DEF WorkerStep
<1> QED
  BY <1>1, <1>2, <1>3, <1>4, <1>5 DEF Looked, Held

(* An event comes under review with a job, and loses it to a decision, to  *)
(* the dead-letter queue or to a human.                                    *)
LEMMA PendingStep ==
  ASSUME Shape, SoundRows, Settled, PendingHasJob, Next
  PROVE  PendingHasJob'
<1> SUFFICES ASSUME NEW e \in Event, event'[e].status = "PENDING_REVIEW"
             PROVE  (\E id \in JobsOf(e) : IsLast(e, id) /\ Looked(id))'
  BY DEF PendingHasJob
<1>1. ASSUME NEW r \in Request, Update(r), request[r].op = "submit",
             request[r].event = e
      PROVE  (\E id \in JobsOf(e) : IsLast(e, id) /\ Looked(id))'
  <2>1. PICK id : id = Len(outbox) + 1
    OBVIOUS
  <2>2. IsLast(e, id)' /\ id \notin published'
    BY <1>1, <2>1, NewJob
  <2> QED
    BY <2>2 DEF IsLast, Looked
<1>2. CASE event'[e] # event[e]
  BY <1>1, <1>2, EventsWritten
<1>3. CASE event'[e] = event[e] /\ JobsOf(e)' = JobsOf(e)
  <2>1. PICK id \in JobsOf(e) : IsLast(e, id) /\ Looked(id)
    BY <1>3 DEF PendingHasJob
  <2>2. IsLast(e, id)' /\ id \in JobsOf(e)'
    BY <1>3, <2>1 DEF IsLast
  <2>3. id \in DOMAIN outbox /\ outbox[id].event = e
    BY DEF JobsOf
  <2>4. ~Passed(id)
    <3>1. \A k \in JobsOf(e) : k \in Nat
      BY DEF JobsOf, Shape, JobShape
    <3>2. ~ \E k \in JobsOf(e) : k > id
      BY <2>1, <3>1 DEF IsLast
    <3> QED
      BY <1>3, <2>3, <3>2 DEF Passed
  <2>5. Looked(id)'
    BY <2>1, <2>3, <2>4, LookedLasts
  <2> QED
    BY <2>2, <2>5
<1> QED
  BY <1>1, <1>2, <1>3, JobsGrow
-----------------------------------------------------------------------------
(* The invariant holds at the start                                        *)
LEMMA InvInitially == Init => CatalogueInv
<1> SUFFICES ASSUME Init PROVE CatalogueInv
  OBVIOUS
<1>1. CatalogueShape
  BY Numbers DEF Init, CatalogueShape, Time, Stock
<1>2. BagToSet(queue) = {}
  BY DEF Init, EmptyBag, SetToBag, BagToSet
<1>3. JobShape /\ JudgeShape
  BY <1>2 DEF Init, JobShape, JudgeShape
<1>4. SoundRows
  BY Numbers DEF Init, SoundRows, Free
<1>5. QuotaIsCapacity /\ PendingHasJob /\ Settled
  BY DEF Init, QuotaIsCapacity, PendingHasJob, Settled, NoRow, Free
<1> QED
  BY <1>1, <1>3, <1>4, <1>5 DEF CatalogueInv, Shape

(* and after every step.                                                   *)
LEMMA CatalogueKeepsInv == CatalogueInv /\ [Next]_vars => CatalogueInv'
<1>1. ASSUME CatalogueInv, Next
      PROVE  CatalogueInv'
  BY <1>1, CatalogueStep, JobStep, JudgeStep, SoundStep, QuotaStep,
     SettledStep, PendingStep DEF CatalogueInv, Shape
<1>2. ASSUME CatalogueInv, UNCHANGED vars
      PROVE  CatalogueInv'
  <2>1. UNCHANGED <<now, event, tier, sold, request, outbox, published, queue,
                    dlq, worker, review, audited, faults>>
    BY <1>2 DEF vars, catalogueVars, jobVars, judgeVars
  <2> USE <1>2, <2>1 DEF CatalogueInv
  <2>2. CatalogueShape'
    BY DEF Shape, CatalogueShape
  <2>3. JobShape'
    BY DEF Shape, JobShape, JobRecord
  <2>4. JudgeShape'
    BY DEF Shape, JudgeShape, Hand, Scanning, Inserting, Deciding, JobRecord
  <2>5. SoundRows'
    BY DEF SoundRows, Sound
  <2>6. QuotaIsCapacity'
    BY DEF QuotaIsCapacity
  <2>7. /\ \A e \in Event : JobsOf(e)' = JobsOf(e)
        /\ \A id \in Nat : Asked(id)' <=> Asked(id)
        /\ \A id : Queued(id)' <=> Queued(id)
        /\ \A id : Held(id)' <=> Held(id)
    BY DEF JobsOf, Asked, Queued, Held
  <2>8. \A id \in Nat : Passed(id)' <=> Passed(id)
    BY DEF Passed, JobsOf
  <2>9. Settled'
    BY <2>7, <2>8 DEF Settled, Promised
  <2>10. PendingHasJob'
    BY DEF PendingHasJob, IsLast, Looked, JobsOf, Asked, Queued, Held
  <2> QED
    BY <2>2, <2>3, <2>4, <2>5, <2>6, <2>9, <2>10 DEF Shape
<1> QED
  BY <1>1, <1>2

(* Events, requests, jobs and verdicts are what they are declared to be,   *)
(* rows that are written are sound, and a job is looked after.             *)
THEOREM CatalogueInvariant == CatalogueSpec => []CatalogueInv
BY InvInitially, CatalogueKeepsInv, PTL DEF CatalogueSpec

(* The types of Catalogue's variables.                                     *)
THEOREM CatalogueTypes == CatalogueSpec => []CatalogueTypeOK
<1>1. CatalogueInv => CatalogueTypeOK
  <2> SUFFICES ASSUME CatalogueInv PROVE CatalogueTypeOK
    OBVIOUS
  <2>1. \A r \in Request : request[r].at \in {"idle", "tier", "row", "note"}
    BY DEF CatalogueInv, Shape, CatalogueShape, Idle, Asking
  <2>2. \A e \in Event : {tier[e].quota, tier[e].capacity,
                          tier[e].available, sold[e]} \subseteq Nat
    BY DEF CatalogueInv, Shape, CatalogueShape, Stock
  <2> QED
    BY <2>1, <2>2 DEF CatalogueInv, Shape, CatalogueShape, JobShape,
                      JudgeShape, CatalogueTypeOK
<1> QED
  BY <1>1, CatalogueInvariant, PTL

(* BR-E3: however changes of a quota and purchases run into each other,    *)
(* the buckets of a tier hold as many tickets as its quota says.           *)
THEOREM BucketsHoldQuota == CatalogueSpec => []QuotaIsCapacity
<1>1. CatalogueInv => QuotaIsCapacity
  BY DEF CatalogueInv
<1> QED
  BY <1>1, CatalogueInvariant, PTL

(* No sale is open before sale_start_at, however many requests write back  *)
(* rows they read before somebody else changed them.                       *)
THEOREM SalesOpenInTime == CatalogueSpec => []NotOnSaleEarly
<1>1. CatalogueInv => NotOnSaleEarly
  BY DEF CatalogueInv, SoundRows, Sound, NotOnSaleEarly
<1> QED
  BY <1>1, CatalogueInvariant, PTL

(* Whatever fails, an event under review has a job that is on its way to   *)
(* the AI worker, in its hands, in the dead-letter queue, or has asked for *)
(* a human.                                                                *)
THEOREM ReviewsHaveJobs == CatalogueSpec => []PendingHasJob
<1>1. CatalogueInv => PendingHasJob
  BY DEF CatalogueInv
<1> QED
  BY <1>1, CatalogueInvariant, PTL
=============================================================================
