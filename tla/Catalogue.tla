------------------------------ MODULE Catalogue ------------------------------
(***************************************************************************)
(* The event service: an organizer writes an event and its tiers, submits  *)
(* it, the AI worker or a moderator judges it, it opens at sale_start_at.  *)
(* Every use case reads the event, checks the copy it read and then writes *)
(* the whole row back, so two of them may run into each other: a request   *)
(* keeps the row it is going to write.  An event has one tier here, whose  *)
(* buckets are added up.  sale_end_at, titles and texts change nothing the *)
(* properties see.  MarkSoldOut, CloseSale and Complete have no caller.    *)
(***************************************************************************)
EXTENDS Integers, SequencesExt, BagsExt

CONSTANTS
    Event,
    Request,      \* use cases in progress on behalf of people
    Does,         \* Does[r]: what the caller of r may ask for
    Worker,       \* slots of the AI worker's moderation pool
    Lead,         \* MinSaleLead
    StartsAt,     \* starts_at
    MaxTime,      \* bound: the clock stops here
    MaxQuota,     \* bound: the largest quota an organizer asks for
    MaxRows,      \* bound: messages written to the outbox
    Batch,        \* OutboxRelayConfig.Batch
    MaxAttempts,  \* MAX_ATTEMPTS
    Faults,       \* the kinds of failure that may occur
    MaxFaults     \* bound: how many failures occur

FaultKind == {"unconfirmed", "gemini_down", "db_down", "audit_down",
              "svc_crash", "lost_answer", "worker_crash", "request_crash"}

Op == {"update", "add", "quota", "submit", "cancel",   \* organizer
       "approve", "reject",                            \* moderator
       "publish"}                                      \* ops

ASSUME CatalogueAssumption ==
    /\ {Lead, StartsAt, MaxTime, MaxQuota, MaxRows, MaxFaults} \subseteq Nat
    /\ Batch \in Nat \ {0} /\ MaxAttempts \in Nat \ {0}
    /\ Faults \subseteq FaultKind
    /\ Does \in [Request -> SUBSET Op]

VARIABLES
    now,        \* the clock
    event,      \* event[e]: status and sale_start_at
    tier,       \* tier[e]: quota, and the capacity and stock of its buckets
    sold,       \* sold[e]: tickets ticketing has taken from the stock
    request,    \* request[r]: what r has read and is about to write
    outbox,     \* outbox_events of the aggregate type event
    published,  \* ids of the rows with a published_at
    queue,      \* the jobs in ai.moderation.q and its retry queue
    dlq,        \* the jobs in ai.dlq
    worker,     \* worker[w]: the job w is at and its callback
    review,     \* moderation_reviews, in the order they are created
    audited,    \* the reviews whose outcome is in audit_logs
    faults      \* how many failures have occurred

catalogueVars == <<event, tier, sold>>
jobVars == <<outbox, published, queue, dlq>>
judgeVars == <<worker, review, audited>>
vars == <<now, catalogueVars, request, jobVars, judgeVars, faults>>

Time == 0..MaxTime
EventStatus == {"NONE", "DRAFT", "PENDING_REVIEW", "REJECTED", "SCHEDULED",
                "ON_SALE", "SOLD_OUT", "COMPLETED", "CANCELLED"}
Row == [status : EventStatus, sale : Time]
NoRow == [status |-> "NONE", sale |-> 0]
AiVerdict == {"AUTO_APPROVED", "NEEDS_HUMAN", "AUTO_REJECTED"}

Fault(f) ==
    /\ f \in Faults
    /\ faults < MaxFaults
    /\ faults' = faults + 1

-----------------------------------------------------------------------------
(* Requests.  One begins by reading the event; where the domain refuses,   *)
(* it answers with the error and nothing has changed.                      *)
Idle == [op |-> "none", at |-> "idle"]

Writers == {"submit", "cancel"}
OutboxFits ==
    Len(outbox) + Cardinality({r \in Request : request[r].op \in Writers})
        < MaxRows

Begin(r, op, at, e, row, quota) ==
    /\ request[r] = Idle
    /\ op \in Does[r]
    /\ op \in Writers => OutboxFits
    /\ request' = [request EXCEPT ![r] =
           [op |-> op, at |-> at, event |-> e, row |-> row, quota |-> quota,
            read |-> IF op = "quota" THEN tier[e].quota ELSE 0]]
    /\ UNCHANGED <<now, catalogueVars, jobVars, judgeVars, faults>>

Editable == {"DRAFT", "SCHEDULED", "REJECTED"}
MayEditAny(row) == row.status # "NONE"   \* mutant: the check is dropped
MayEdit(row) == row.status \in Editable

CreateEvent(e) ==
    /\ event[e].status = "NONE"
    /\ \E s \in Time :
           /\ s < StartsAt
           /\ event' = [event EXCEPT ![e] = [status |-> "DRAFT", sale |-> s]]
    /\ UNCHANGED <<now, tier, sold, request, jobVars, judgeVars, faults>>

UpdateDetails(r, e) == \E s \in Time :
    LET row == event[e]
    IN /\ MayEdit(row)
       \* dates out of order: no error, and the row read is written back
       /\ Begin(r, "update", "row", e,
              IF s < StartsAt THEN [row EXCEPT !.sale = s] ELSE row, 0)

AddTier(r, e) == \E n \in 1..MaxQuota :
    /\ MayEdit(event[e])
    /\ tier[e].quota = 0
    /\ Begin(r, "add", "tier", e, NoRow, n)

UpdateTierQuota(r, e) == \E n \in 1..MaxQuota :
    LET status == event[e].status
        old == tier[e].quota
        reopened == IF status = "SOLD_OUT" /\ n > old
                        THEN "ON_SALE" ELSE status
    IN /\ status \in Editable \cup {"ON_SALE", "SOLD_OUT"}
       /\ status = "ON_SALE" => n >= old
       /\ old > 0
       /\ Begin(r, "quota", "tier", e,
              [event[e] EXCEPT !.status = reopened], n)

Transition(r, op, e, from, to) ==
    /\ event[e].status \in from
    /\ Begin(r, op, "row", e, [event[e] EXCEPT !.status = to], 0)

SubmitForReview(r, e) ==
    /\ tier[e].quota > 0
    /\ Transition(r, "submit", e, {"DRAFT", "REJECTED"}, "PENDING_REVIEW")

InTime(row) == row.sale >= now + Lead

ApproveOverride(r, e) ==
    /\ InTime(event[e])
    /\ Transition(r, "approve", e, {"PENDING_REVIEW", "REJECTED"},
                  "SCHEDULED")

Reject(r, e) == Transition(r, "reject", e, {"PENDING_REVIEW"}, "REJECTED")

Publish(r, e) ==
    /\ now >= event[e].sale
    /\ Transition(r, "publish", e, {"SCHEDULED"}, "ON_SALE")

Cancel(r, e) ==
    Transition(r, "cancel", e, EventStatus \ {"NONE", "COMPLETED",
                                              "CANCELLED"}, "CANCELLED")

-----------------------------------------------------------------------------
(* What a request writes.                                                  *)
KeyOf(op) == IF op = "submit" THEN "moderation" ELSE "event.cancelled"

NoOutbox(q) == outbox   \* mutant: the job is not in the transaction
WithOutbox(q) ==
    IF q.op \in Writers
        THEN Append(outbox, [key |-> KeyOf(q.op), event |-> q.event])
        ELSE outbox

Update(r) ==
    LET q == request[r]
    IN /\ q.at = "row"
       /\ event' = [event EXCEPT ![q.event] = q.row]
       /\ outbox' = WithOutbox(q)
       /\ request' = [request EXCEPT ![r] =
              IF q.op \in {"approve", "reject"} THEN [q EXCEPT !.at = "note"]
                                                ELSE Idle]
       /\ UNCHANGED <<now, tier, sold, published, queue, dlq, judgeVars,
                      faults>>

ReadBefore(t, q) ==   \* mutant: the difference to the quota checked
    IF q.quota > q.read
        THEN [quota |-> q.quota, capacity |-> t.capacity + q.quota - q.read,
              available |-> t.available + q.quota - q.read]
        ELSE [quota |-> q.quota, capacity |-> q.quota, available |-> q.quota]
Resized(t, q) ==   \* a smaller quota sets the buckets, a larger adds to them
    LET delta == q.quota - t.quota
    IN CASE delta > 0 -> [quota |-> q.quota, capacity |-> t.capacity + delta,
                          available |-> t.available + delta]
         [] delta < 0 -> [quota |-> q.quota, capacity |-> q.quota,
                          available |-> q.quota]
         [] OTHER -> t

InsertTier(r) ==
    LET q == request[r]
        n == q.quota
    IN /\ q.at = "tier" /\ q.op = "add"
       \* UNIQUE (event_id, name): the second of two answers an error
       /\ tier' = [tier EXCEPT ![q.event] =
              IF @.quota > 0 THEN @
              ELSE [quota |-> n, capacity |-> n, available |-> n]]
       /\ request' = [request EXCEPT ![r] = Idle]
       /\ UNCHANGED <<now, event, sold, jobVars, judgeVars, faults>>

UpdateTier(r) ==
    LET q == request[r]
    IN /\ q.at = "tier" /\ q.op = "quota"
       /\ tier' = [tier EXCEPT ![q.event] = Resized(@, q)]
       /\ request' = [request EXCEPT ![r].at = "row"]
       /\ UNCHANGED <<now, event, sold, jobVars, judgeVars, faults>>

ReviewsOf(e) == {i \in DOMAIN review : review[i].event = e}

SetHumanDecision(r) ==
    LET q == request[r]
    IN /\ q.at = "note"
       /\ review' = IF ReviewsOf(q.event) = {} THEN review
                    ELSE [review EXCEPT ![Max(ReviewsOf(q.event))].human =
                              q.op]
       /\ request' = [request EXCEPT ![r] = Idle]
       /\ UNCHANGED <<now, catalogueVars, jobVars, worker, audited, faults>>

RequestCrash(r) ==
    /\ request[r] # Idle
    /\ Fault("request_crash")
    /\ request' = [request EXCEPT ![r] = Idle]
    /\ UNCHANGED <<now, catalogueVars, jobVars, judgeVars>>

RequestStep(r) ==
    Update(r) \/ InsertTier(r) \/ UpdateTier(r) \/ SetHumanDecision(r)

-----------------------------------------------------------------------------
(* The clock, the scheduler that opens sales, and ticketing's holds.       *)
Tick ==
    /\ now < MaxTime
    /\ now' = now + 1
    /\ UNCHANGED <<catalogueVars, request, jobVars, judgeVars, faults>>

DueBefore(row) ==   \* mutant: <= written as <
    row.status = "SCHEDULED" /\ row.sale < now
Due(row) == row.status = "SCHEDULED" /\ row.sale <= now

OpenDueSales ==
    /\ \E e \in Event : Due(event[e])
    /\ event' = [e \in Event |->
           IF Due(event[e]) THEN [event[e] EXCEPT !.status = "ON_SALE"]
                            ELSE event[e]]
    /\ UNCHANGED <<now, tier, sold, request, jobVars, judgeVars, faults>>

Sell(e) ==
    /\ event[e].status = "ON_SALE"
    /\ tier[e].available > 0
    /\ tier' = [tier EXCEPT ![e].available = @ - 1]
    /\ sold' = [sold EXCEPT ![e] = @ + 1]
    /\ UNCHANGED <<now, event, request, jobVars, judgeVars, faults>>

-----------------------------------------------------------------------------
(* The relay: a batch of the oldest rows.  A row without a route is passed *)
(* over and stays; a row that fails ends the batch.                        *)
Routes == {"moderation"}

Unpublished == DOMAIN outbox \ published

InBatch ==
    {id \in Unpublished : Cardinality({k \in Unpublished : k < id}) < Batch}

StopAtUnrouted(ids) ==   \* mutant: break instead of continue
    {id \in ids : \A k \in ids : k <= id => outbox[k].key \in Routes}
Routed(ids) == {id \in ids : outbox[id].key \in Routes}

Job(id, n) == [id |-> id, attempt |-> n]

Relay == \E last \in Routed(InBatch) :
    LET out == {id \in Routed(InBatch) : id <= last}
    IN /\ published' = published \cup out
       /\ queue' = queue (+) SetToBag({Job(id, 1) : id \in out})
       /\ UNCHANGED <<now, catalogueVars, request, outbox, dlq, judgeVars,
                      faults>>

(* The broker has the message, its confirmation is lost.                   *)
RelayUnconfirmed == \E id \in Routed(InBatch) :
    /\ \A k \in Routed(InBatch) : id <= k
    /\ Fault("unconfirmed")
    /\ queue' = BagAdd(queue, Job(id, 1))
    /\ UNCHANGED <<now, catalogueVars, request, outbox, published, dlq,
                   judgeVars>>

-----------------------------------------------------------------------------
(* The AI worker takes a job, asks Gemini and calls the event service,     *)
(* which reads the event, inserts a review, writes the event and audits.   *)
Free == [at |-> "idle"]

Working(w, at) ==
    /\ worker[w].at = at
    /\ UNCHANGED <<now, tier, sold, request, outbox, published>>

Goes(w, at) == worker' = [worker EXCEPT ![w].at = at]

Take(w) == \E job \in BagToSet(queue) :
    /\ Working(w, "idle")
    /\ worker' = [worker EXCEPT ![w] = [at |-> "scan", job |-> job]]
    /\ queue' = BagRemove(queue, job)
    /\ UNCHANGED <<event, dlq, review, audited, faults>>

InReview(row) == row.status = "PENDING_REVIEW"

Judged(verdict, row) ==
    CASE verdict = "NEEDS_HUMAN" -> row
      [] verdict = "AUTO_APPROVED" /\ InReview(row) /\ InTime(row) ->
             [row EXCEPT !.status = "SCHEDULED"]
      [] verdict = "AUTO_REJECTED" /\ InReview(row) ->
             [row EXCEPT !.status = "REJECTED"]
      [] OTHER -> NoRow

EventOf(w) == outbox[worker[w].job.id].event

Call(w, verdict) ==   \* HandleAiVerdict reads the event
    worker' = [worker EXCEPT ![w] =
        [at |-> "insert", job |-> worker[w].job, verdict |-> verdict,
         row |-> Judged(verdict, event[EventOf(w)])]]

Scan(w) == \E verdict \in AiVerdict :
    /\ Working(w, "scan")
    /\ Call(w, verdict)
    /\ UNCHANGED <<event, queue, dlq, review, audited, faults>>

(* The limiter or Gemini says not now: later, and the last time a human.   *)
Denied(w) ==
    /\ Working(w, "scan")
    /\ IF worker[w].job.attempt < MaxAttempts THEN Goes(w, "failed")
                                              ELSE Call(w, "NEEDS_HUMAN")
    /\ UNCHANGED <<event, queue, dlq, review, audited, faults>>

InsertReview(w) ==
    /\ Working(w, "insert")
    /\ review' = Append(review,
           [event |-> EventOf(w), job |-> worker[w].job.id,
            verdict |-> worker[w].verdict, human |-> "none"])
    /\ worker' = [worker EXCEPT ![w] =
           [at |-> "decide", job |-> @.job, verdict |-> @.verdict,
            row |-> @.row, review |-> Len(review) + 1]]
    /\ UNCHANGED <<event, queue, dlq, audited, faults>>

Decide(w) ==
    LET row == worker[w].row
    IN /\ Working(w, "decide")
       /\ Goes(w, IF row = NoRow THEN "refused" ELSE "audit")
       /\ event' = IF row = NoRow \/ worker[w].verdict = "NEEDS_HUMAN"
                       THEN event ELSE [event EXCEPT ![EventOf(w)] = row]
       /\ UNCHANGED <<queue, dlq, review, audited, faults>>

Audit(w) ==   \* a failure of the audit log is ignored
    /\ Working(w, "audit")
    /\ \/ audited' = audited \cup {worker[w].review} /\ UNCHANGED faults
       \/ Fault("audit_down") /\ UNCHANGED audited
    /\ Goes(w, "answered")
    /\ UNCHANGED <<event, queue, dlq, review>>

(* The service or its database fails, or its answer does not arrive.       *)
CallFails(w) == \E at \in {"scan", "insert", "decide", "audit", "answered"} :
    /\ Working(w, at)
    /\ Fault(CASE at = "scan" -> "gemini_down"
               [] at = "audit" -> "svc_crash"
               [] at = "answered" -> "lost_answer"
               [] OTHER -> "db_down")
    /\ Goes(w, "failed")
    /\ UNCHANGED <<event, queue, dlq, review, audited>>

Again(job) == job.attempt < MaxAttempts

(* Acknowledge; a 4xx is permanent, anything else is tried again.          *)
Finish(w) == \E at \in {"answered", "failed", "refused"} :
    LET job == worker[w].job
        again == at = "failed" /\ Again(job)
    IN /\ Working(w, at)
       /\ worker' = [worker EXCEPT ![w] = Free]
       /\ queue' = IF again THEN BagAdd(queue, Job(job.id, job.attempt + 1))
                            ELSE queue
       /\ dlq' = IF at = "answered" \/ again THEN dlq ELSE dlq \cup {job.id}
       /\ UNCHANGED <<event, review, audited, faults>>

WorkerCrash(w) ==   \* what is not acknowledged is delivered again
    /\ worker[w] # Free
    /\ Fault("worker_crash")
    /\ worker' = [worker EXCEPT ![w] = Free]
    /\ queue' = BagAdd(queue, worker[w].job)
    /\ UNCHANGED <<now, catalogueVars, request, outbox, published, dlq,
                   review, audited>>

WorkerStep(w) ==
    \/ Take(w) \/ Scan(w) \/ Denied(w) \/ InsertReview(w) \/ Decide(w)
    \/ Audit(w) \/ Finish(w)

-----------------------------------------------------------------------------
Init ==
    /\ now = 0
    /\ event = [e \in Event |-> NoRow]
    /\ tier = [e \in Event |-> [quota |-> 0, capacity |-> 0, available |-> 0]]
    /\ sold = [e \in Event |-> 0]
    /\ request = [r \in Request |-> Idle]
    /\ outbox = <<>> /\ published = {}
    /\ queue = EmptyBag /\ dlq = {}
    /\ worker = [w \in Worker |-> Free]
    /\ review = <<>> /\ audited = {}
    /\ faults = 0

Organize(r, e) ==
    UpdateDetails(r, e) \/ AddTier(r, e) \/ UpdateTierQuota(r, e)
        \/ SubmitForReview(r, e) \/ Cancel(r, e)
Moderate(r, e) == ApproveOverride(r, e) \/ Reject(r, e)

Next ==
    \/ \E e \in Event : CreateEvent(e) \/ Sell(e)
    \/ \E r \in Request, e \in Event :
           Organize(r, e) \/ Moderate(r, e) \/ Publish(r, e)
    \/ \E r \in Request : RequestStep(r) \/ RequestCrash(r)
    \/ \E w \in Worker : WorkerStep(w) \/ CallFails(w) \/ WorkerCrash(w)
    \/ Relay \/ RelayUnconfirmed \/ OpenDueSales \/ Tick

CatalogueSpec == Init /\ [][Next]_vars

(* The relay's and the scheduler's tickers, the worker's pool, and the     *)
(* clock; nobody has to write, submit or judge anything.                   *)
FairCatalogueSpec ==
    /\ CatalogueSpec
    /\ WF_vars(Tick) /\ WF_vars(OpenDueSales) /\ WF_vars(Relay)
    /\ \A w \in Worker : WF_vars(WorkerStep(w))

-----------------------------------------------------------------------------
JobRecord == [id : DOMAIN outbox, attempt : 1..MaxAttempts]

(* The variables hold what their declarations say, and every job, entry of *)
(* the audit log and message of the dead-letter queue belongs to something *)
(* that was written before.                                                *)
CatalogueTypeOK ==
    /\ now \in Time /\ faults \in 0..MaxFaults
    /\ event \in [Event -> Row]
    /\ \A e \in Event : {tier[e].quota, tier[e].capacity, tier[e].available,
                         sold[e]} \subseteq Nat
    /\ \A r \in Request : request[r].at \in {"idle", "tier", "row", "note"}
    /\ published \subseteq DOMAIN outbox /\ dlq \subseteq DOMAIN outbox
    /\ BagToSet(queue) \subseteq JobRecord
    /\ audited \subseteq DOMAIN review

(* The buckets of a tier hold its quota, however two changes of the quota  *)
(* run into each other (UpdateTier takes the difference to the row it has  *)
(* locked, not to the copy it checked).                                    *)
QuotaIsCapacity == \A e \in Event : tier[e].capacity = tier[e].quota

(* No event is on sale before its sale_start_at, although requests write   *)
(* back rows they read earlier, dates and status together.                 *)
NotOnSaleEarly == \A e \in Event :
    event[e].status = "ON_SALE" => event[e].sale <= now

JobsOf(e) == {id \in DOMAIN outbox : /\ outbox[id].event = e
                                     /\ outbox[id].key = "moderation"}
Queued(id) == \E job \in BagToSet(queue) : job.id = id
Held(id) == \E w \in Worker : worker[w] # Free /\ worker[w].job.id = id
Asked(id) == \E i \in DOMAIN review :
    review[i].job = id /\ review[i].verdict = "NEEDS_HUMAN"
Waits(id) == \E i \in DOMAIN review :   \* it is in ListNeedsHuman
    /\ review[i].job = id
    /\ review[i].verdict = "NEEDS_HUMAN" /\ review[i].human = "none"

(* transition_state.go:49: the job goes in one transaction with the event, *)
(* so that none is left in PENDING_REVIEW with nobody to judge it: its     *)
(* last job is on its way, in the dead-letter queue, or asked for a human. *)
IsLast(e, id) == id \in JobsOf(e) /\ \A k \in JobsOf(e) : k <= id
Looked(id) ==
    id \notin published \/ Queued(id) \/ Held(id) \/ id \in dlq \/ Asked(id)

PendingHasJob == \A e \in Event :
    event[e].status = "PENDING_REVIEW" =>
        \E id \in JobsOf(e) : IsLast(e, id) /\ Looked(id)

(* An event under review is judged, or a human is asked to, or its job is  *)
(* in the dead-letter queue: a row the relay cannot route stops nobody.    *)
ReviewsEnd == \A e \in Event :
    event[e].status = "PENDING_REVIEW" ~>
        \/ event[e].status # "PENDING_REVIEW"
        \/ \E id \in JobsOf(e) : id \in dlq \/ Asked(id)

(* A scheduled event does not stay scheduled: its sale opens at the latest *)
(* when sale_start_at has come, whoever changes it meanwhile.              *)
SalesOpen == \A e \in Event :
    event[e].status = "SCHEDULED" ~> event[e].status # "SCHEDULED"

-----------------------------------------------------------------------------
(* What documents say and the code does not do.                            *)

(* docs/01-nghiep-vu.md:30 (BR-E3): once on sale a quota is never reduced, *)
(* so that what has been sold stays within the capacity.                   *)
SoldWithinQuota == \A e \in Event : tier[e].available + sold[e]
                                        <= tier[e].capacity

(* docs/01-nghiep-vu.md:25 (life cycle): nothing follows CANCELLED.        *)
CancelledStays == [][\A e \in Event :
    event[e].status = "CANCELLED" => event'[e].status = "CANCELLED"]_vars

(* docs/01-nghiep-vu.md:29 (BR-E2): an approved event leaves the lead to   *)
(* warm up the sale, so its date is not moved any closer.                  *)
LeadKept == [][\A e \in Event :
    event[e].status = "SCHEDULED" /\ event'[e].status = "SCHEDULED" =>
        event'[e].sale = event[e].sale \/ event'[e].sale >= now + Lead]_vars

(* docs/01-nghiep-vu.md:32 (BR-E5): a moderator can overrule the AI, so an *)
(* AI verdict does not undo what a human has decided on the submission.    *)
HumanHasTheLastWord == [][\A w \in Worker :
    worker[w].at = "decide" /\ event'[EventOf(w)] # event[EventOf(w)] =>
        event[EventOf(w)].status = "PENDING_REVIEW"]_vars

(* The same: every decision of the AI is in audit_logs in the end.         *)
DecisionsAudited ==
    (\A w \in Worker : worker[w] = Free) /\ BagToSet(queue) = {} =>
        \A i \in DOMAIN review : i \in audited \/ review[i].job \in dlq

(* handle_ai_verdict.go: a verdict is about the submission it was asked    *)
(* for, not about a later one.                                             *)
VerdictIsCurrent == [][\A w \in Worker :
    worker[w].at = "decide" /\ event'[EventOf(w)] # event[EventOf(w)] =>
        worker[w].job.id = Max(JobsOf(EventOf(w)))]_vars

(* transition_state.go:115: the message of a cancelled event is published, *)
(* which starts the refunds.                                               *)
CancellationsHeard == \A id \in 1..MaxRows :
    id \in DOMAIN outbox /\ outbox[id].key = "event.cancelled" ~>
        id \in published

(* consumers/moderation.py:29: no event stays in PENDING_REVIEW, one that  *)
(* the AI has not decided is in the moderators' queue.                     *)
NeverStuck == \A e \in Event :
    event[e].status = "PENDING_REVIEW" ~>
        \/ event[e].status # "PENDING_REVIEW"
        \/ \E id \in JobsOf(e) : Waits(id)

(* transition_state.go:49 again: once its last job has asked for a human,  *)
(* an event in PENDING_REVIEW is in the moderators' queue.                 *)
QueueShowsPending == \A e \in Event :
    event[e].status = "PENDING_REVIEW" =>
        LET id == Max(JobsOf(e) \cup {0})
        IN Asked(id) => Waits(id)
=============================================================================
