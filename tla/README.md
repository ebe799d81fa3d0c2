# Formal models of EventFlow

EventFlow sells tickets of events to many more people than there are tickets.
An organizer submits an event and an AI and moderators judge it. A waiting room
draws lots among those who came early and lets people in at the rate the
checkout can bear. A ticketing service sets tickets aside for ten minutes, a
payment service collects the money, tickets are issued, announced by e-mail and
checked at the door. This directory holds TLA+ models of that path, the TLC
configurations that check them and proofs that TLAPS checks. Paths below are
those of the repository; rule names (BR-O1, BR-Q5.1 ...) are those of
`docs/01-nghiep-vu.md`.

Contents: 1 the system, 2 the models and the code, 3 the runs, 4 where the code
and its documents disagree, 5 bounds, assumptions and fairness, 6 proofs,
7 what is not modelled, 8 what could come next, 9 how to run.

## 1. The system

### Components

| component | state it keeps | operations |
|---|---|---|
| ticketing, Postgres (`services/ticketing/internal/adapter/postgres`) | `ticket_inventory` (stock in buckets), `orders` and `order_items`, `seat_holds`, `tickets`, `outbox_events` | PersistHold, ReleaseHold, CancelHold, IssueTicketsTx, check-in |
| ticketing, hold gate in Redis (`adapter/redis`, `hold.lua`, `release.lua`) | `inv:` counters per bucket, `hold:*:h` and `:z`, `uhold:` (customer to hold) | TryHold, Release, Consume, ExpiredHolds, SeedInventory |
| ticketing, use cases and workers (`app`, `worker`) | none of their own between calls, except id lists in memory | CreateHold with compensation, CancelHold, IssueTickets, HoldSweeper, InventorySeeder |
| ticketing, InventoryReconciler | the drift seen one round ago | compare Redis with Postgres, correct what differs twice |
| ticketing, SoldOutWatcher | what it last published | set `stock_zero` and `sold_out` for the waiting room |
| ticket door | status of a row of `tickets` | sign and verify QR codes, check a ticket in once |
| payment (`services/payment`) | `payments`, `payment_inbox`, `refunds`; writes `orders`, `seat_holds`, `outbox_events` | initiate a payment, webhooks of the gateways, reconcile late orders, replay the inbox, refund an event |
| outbox relays and consumer (`worker/outbox_relay.go` of three services, `libs/go/mq`) | `outbox_events.published_at`, queues | publish at least once, retry, dead-letter |
| notification (`services/notification`) | dedup records in memory | one message, one e-mail |
| idempotency (`libs/go/idem`) | stored keys and responses, with a lease | claim a key, take over after the lease, replay the response |
| waiting room, keys and scripts (`services/waitingroom/internal/adapter/redis`) | `wr:{ev}:*`: tokens, lobby, queue, admitted, meta | join.lua, shuffle.lua, admit.lua, set_rate.lua, status.lua |
| waiting room, admit controller (`app/admit_controller.go`) | rate, override, cooldown in memory; `meta.admit_rate` in Redis | restore, tick (override, adjust, publish, admit) |
| leader election (`libs/go/leader`) | lock and epoch key in Redis; the term in memory | acquire, renew, release |
| waiting room, join use case and event supervisor | none; one goroutine per active event | checks before join.lua; start and stop controllers |
| event catalogue (`services/event`) | rows of events, ticket types, buckets, reviews, audit log, its outbox | create, edit, submit, moderate, cancel, publish, AI verdict, open due sales |
| ai-worker (`services/ai-worker`) | the job it is at | scan a submission, call back with a verdict, retry, dead-letter; chat |
| identity, gateway, antibot | users and sessions, rate-limit counters, scores | log in, route, limit, score |
| web application, deployment, shared libraries | - | user interface, manifests, wrappers |

### How they interact

* Ticketing, payment and the event service share one Postgres database; row
  locks order their transactions. Redis and Postgres are changed by separate
  calls, one after the other, and nothing makes the two atomic.
* Nothing is called inside a payment transaction: a gateway is asked first and
  its answer is written afterwards, when the tables may be others.
* A transaction leaves its messages in `outbox_events`; a relay publishes them
  and a consumer may see each of them more than once. `order.paid` makes
  ticketing issue the tickets; `ticketing.ticket.issued` announces them.
* Ticketing writes T0 and the sold-out flags into the waiting room's `meta`
  hash; the waiting room's controller reads ticketing's load signals.
* The event service's use cases read a row of `events`, change the copy and
  write it back whole; the ai-worker calls back minutes after it was asked.
* Several instances of every service run. Sweepers, relays and tickers run on
  each of them; of the controllers of one event only the leader works.

### What is hard

* Two tiers, Redis and Postgres, that requests, the sweeper, cancellation,
  issuing, the seeder and the reconciler change in steps of their own, with
  crashes in between, and a Redis that may come back empty.
* Scripts that the Redis client repeats when a reply is late.
* One statement of PersistHold counts and a later one inserts.
* An order that is being paid while its hold expires; callbacks of gateways
  that come late, twice, out of order, before the order exists, or never.
* Money that goes back through gateways that do not recognise a repetition.
* Publish, mark, commit on one side and handle, copy, acknowledge on the other,
  either of which may stop anywhere; memory that a crash empties.
* Leaders that do not know that they are not leaders any more; the loss of the
  epoch key; T0 that is not there yet, or moves; clocks that differ.
* Orders of Ops that arrive, go, and must survive their leader.
* Copies of an event row written back after somebody else changed it, and
  verdicts about a submission that was replaced.

The lines where each of these bites are the hazards of `PROJECT.json`.

### What makes each part correct

| part | correctness |
|---|---|
| tables | stock is conserved (BR-O1, BR-O7), a HELD order has its hold, an order gets one set of tickets |
| gate | the counter and the holds add up; one live hold per customer (BR-O3); never more than the bucket has |
| both tiers | a hold that is open in Postgres is held in Redis; the quota of a customer (BR-O4); every hold ends |
| reconciler, watcher | the tiers agree again once the sale rests (EVF-37); the flags become right (BR-Q6) |
| payment | one page to pay per order, an acknowledged success is recorded (BR-O6), refunds match orders, nothing hangs in PAYMENT_PENDING |
| relays, consumer, notification | a published message is worked on, waits or is dead-lettered; one e-mail per message unless memory was lost; who paid gets tickets |
| door | one entry per ticket (BR-O8), none after a refund |
| waiting room | one place per person (BR-Q3), the lottery's people first (BR-Q2), ranks kept (BR-Q5.7), nothing before T0 (BR-Q1), nobody forgotten (BR-Q5.6) |
| controller | Ops are obeyed (BR-Q5.5), the ceiling holds (BR-Q5.4), the next leader goes on from the last rate (BR-Q5.6), the rate returns to the band and sinks under pressure (BR-Q5.3) |
| idempotency store | a handler runs once per key while its request may still answer and while its response lives (BR-O5); a stored response stays, and goes to its own caller only |
| leader election | what is accepted from leaders comes in the order of their terms (BR-Q5.1) |
| catalogue | the buckets hold the quota, nothing is on sale early, a submission is judged or asked about, sales open |

## 2. The models and the code

```
Orders -------- StockLedger                 LeaderLease
  |    \             |    \                   |      \
SaleDatabase   RedisGate   |            WaitingRoom  AdmitController
  |       \      /    \    |
PaymentFlow  HoldFlow  Upkeep           Delivery   Catalogue   IdemStore
```

The lower module EXTENDS the upper one; SaleDatabase and HoldFlow reach
StockLedger by INSTANCE, as the abstract specification they implement, and
HoldFlow reaches Upkeep by INSTANCE (`Traffic`), because what it does is the
traffic that Upkeep's reconciler and watcher meet. A module `XMC` gives X's
constants small values for TLC; `XProofs` holds the theorems about X, except
that those about IdemStore are in DeliveryProofs, the other place where
something is handled that may have been handled before. Delivery and Catalogue
stand alone: they see the sale through the messages and rows they share with
it. IdemStore stands alone too: it wraps any handler.

**Orders** has the constants of a sale: orders, customers, buckets, capacities,
limits. One member of `Order` stands for a request's hold id, order and item,
which the code ties together with one fresh UUID. `Tickets(S)` is
`SUM(quantity)` over a set of orders, written as a cardinality so that lemmas
about finite sets apply.

**StockLedger** is the abstract promise of a stock: tickets are claimed while
enough are free, and each claim ends once, in a sale or back in the stock. It
keeps no counter.

**SaleDatabase** has one action per transaction that commits a change:

| action | code |
|---|---|
| CountQuota, CommitHold, RollbackHold | `repository.go` PersistHold; the count is a statement of its own, so it may be stale when the rows are written |
| ReleaseHold | `repository.go` releaseHold, of the sweeper |
| CancelHold | `order_repository.go` CancelHold |
| IssueTicketsTx | `ticket_repository.go` IssueTicketsTx |
| CreatePaymentAndMarkPending, ProcessPaymentSuccessTx, ProcessPaymentFailedTx, ProcessOrderCancellationTx, MarkOrderRefundingTx, ProcessRefundSuccessTx | payment's `repository.go` |

A transaction that finds nothing to do changes no row and is no step. `outbox`
keeps every message ever written, so that a handler may see it again.

**RedisGate** has the scripts: `GateAccept`, `GateAlreadyHolding` and
`GateSoldOut` are the outcomes of `hold.lua`, `Release` is `release.lua`,
`Consume` and `SeedInventory` are calls of `gate.go`. `RedisLoss` empties the
hash, `TimeUp` passes a hold's `expires_at`. `rhold` remembers what became of a
hold that is not in Redis any more; the scripts look only at "held".

**HoldFlow** composes the two. `pc[o]` walks a request through `create_hold.go`:
early count, gate, count, commit, compensation. `cancelling`, `issuing`,
`listed`, `swept` and `rows` are what cancellation, the issuer, each sweeper
and the seeder have done in one tier and not yet in the other. Every process
may fail or die between its steps. The constant `Faults` turns the rarer events
on: a reply lost after `hold.lua` ran, a commit whose reply is an error, a
request that outlives its own hold, the loss of Redis, an event that leaves
the sale.

`serving` is the set of instances whose `EventDiscovery` lists the event
(`Discover` takes one away): sweeper and seeder work for listed events only
(`hold_sweeper.go:76`), and `active_events.go:15-20` lists those that are on
sale, sold out or about to open, not those that were completed or cancelled. The events of `ACTIVE_EVENT_IDS` are always listed.

**PaymentFlow** puts payment's use cases around the transactions of
SaleDatabase. A payment's gateway is a constant, and so is what it may do:
call before the order exists (`Early`), let a declined card try again
(`Retried`).

Only a success can be early. A failure that is reported before the order exists
is answered with an error and leaves nothing behind: `ProcessPaymentFailedTx`
inserts a payment whose order is missing, the foreign key aborts its
transaction, and the commit fails. It never returns the `ErrOrderNotFound` that
`process_webhook.go:249-278` waits for, so that branch, which would save the
failure to the inbox, is never taken.

| action | code |
|---|---|
| CheckOrder, StartPayment, ResumePayment (`Checkout`) | `initiate_payment.go`: the order is read, the gateway asked, and only then the transaction marks the order; a repetition renews or resumes the session |
| Pay | the customer at the gateway: charged, declined, and a callback that may come any time and again |
| Webhook with Record, WebhookRecorded, WebhookEarly, SavePaymentInbox | `process_webhook.go`: apply, or see that there is no order, and save to the inbox in a step of its own |
| AskGateway, ApplyAnswer, Heal, HealCancelled, DropAnswer | `reconcile_orders.go`: QueryPayment, then what the answer (by now old) makes of the order |
| ReplayApply, MarkPaymentInboxProcessed | `replay_inbox.go`: apply a row, mark it in another transaction, count attempts |
| ListOrder, MarkRefunding, RefundPayment, RecordRefund | `refund_event.go`: list, mark, refund at the gateway, record; a crash between any two |
| Deploy | the sandbox gateway is configured another way while sessions are open |

`SandboxTxn`, `VNPayTxn`, `MoMoTxn`, `StripeTxn` say which transaction id an
adapter reports: the one it was initiated with or another one.
`KeyedRefund` and `FreshRefund` tell the gateways that recognise a repeated
refund from those that do not.

**Upkeep** is the reconciler and the watcher over RedisGate, with StockLedger
as what Postgres has. A round is `ListInventory` (Postgres), `Compare` (one MULTI
reads counters and holds of Redis, `Snapshot`, and what differs is `Drift`),
`Correct` per bucket, `EndPass`, and a second pass that confirms; a check is
`CheckStock` and `SetSaleState`. `serving` is, as in HoldFlow, who works for the
event; it stays as it is, and `Deployments` has the sets it may be. What the
sale does meanwhile is:

| action | stands for |
|---|---|
| Pass | `hold.lua`, taking a hold or noting that a customer met a bucket without room |
| Commit | PersistHold |
| Settle | the tables give a hold back or sell it |
| Follow | somebody gives a hold up in Redis: `release.lua` whatever Postgres says, or the issuer's Consume after the hold was sold or returned |
| Expire | a hold's `expires_at` passes (with "expiry" in `Faults`) |
| SeedRead, SeedWrite, LoseRedis | the seeder, in two steps; Redis comes back empty |

That this is wide enough is not left to the eye: `FeedsUpkeep` says that every
behaviour of HoldFlow is one of Upkeep with nobody reconciling, and is checked
and proved. Proving it widened the environment: in earlier versions nothing was
released that Postgres still had open, and no hold was consumed after its
tickets had gone back to the stock, both of which the code does.

**Delivery** goes from the transaction that writes to the outbox to the door.

| action | code |
|---|---|
| Pay, MarkRefunding, Refund, IssueTickets | the transactions of payment and ticketing that matter here, mapped again as far as they write a message or a ticket |
| ReadBatch, Publish, StopBatch, CommitBatch, RelayCrash | `outbox_relay.go` of payment and of ticketing: lock with SKIP LOCKED, publish with confirmation, mark, commit; `Route` is `mq/topology.go` |
| Take, Forward, Ack, Crash | `mq/consumer.go`: a delivery is handled, copied to the retry or dead-letter queue when it failed, and acknowledged last |
| HandleOrderPaid | ticketing's `OrderPaidHandler` with `issue_tickets.go` |
| CheckOrSetDedup, Send, SendFails, LookupFails, ManualSend, ManualAnswer | notification's use cases over `memory_store.go`, per channel |
| VerifyTicket, CheckIn, Expire | `verify_ticket.go` and `check_in_ticket.go`, two steps of a scanner; the QR code carries `orders.expires_at` |

A retry waits in a queue with a TTL; here the copy is simply ready at some later
time. `asked` (what operators sent by hand) and `sent` are history.

**Catalogue** is the event service with the moderation pool of the ai-worker.
Each request reads the row (`Begin`), and writes what it made of the copy in
`RequestStep`: tier first, then row, then note, as the use case does; it may die
in between.

| action | code |
|---|---|
| CreateEvent, Organize (UpdateDetails, AddTier, UpdateTierQuota, SubmitForReview, Cancel) | `update_event.go`, `manage_tiers.go`, `transition_state.go` with `domain/event.go` |
| Moderate (ApproveOverride, Reject), Publish | `moderation_action.go`, ops' publish |
| Relay, RelayUnconfirmed | the event service's `outbox_relay.go`, which skips what has no route |
| Take, Scan, Call, CallFails, Again, Finish, WorkerCrash (`WorkerStep`) | `mq/runtime.py`, `consumers/moderation.py`, `mq/protocol.py` |
| Decide, InsertReview, Audit | `handle_ai_verdict.go`: load, judge, update, insert a review, write the audit log |
| OpenDueSales, Tick | `sale_opener.go`, `sale_schedule.go`; the clock |
| Sell | ticketing takes a ticket of a bucket of the event |

**IdemStore** is `libs/go/idem` for one key at one endpoint, that is one row of
`idempotency_keys`; rows do not meet. `stage[r]` is where `serve` is with
request r, or what it answered.

| action | code |
|---|---|
| Claim, NotClaimed | `beginSQL`: INSERT .. ON CONFLICT DO UPDATE takes the row when there is none, when it expired, or when its owner has not finished within the lease; its `created_at` is the token. The reply may be lost |
| Peek, PeekFindsNothing, BeginFails | `peekSQL`, a statement of its own: the row may be another one by now, or gone, and Begin tries again `maxBeginAttempts` times |
| HandlerEnds | the handler, with no lock and for as long as it likes: a response below 500, or none |
| Complete, Abandon, FinishFails | `completeSQL` and `abandonSQL`, both tied to the claim by the token only; the client gets its response either way |
| ProcessDies, TimePasses | anywhere; `now()` of Postgres |

`fate` and `source` are history: what came of the key in a request's hand, and
whose response was replayed to it.

**LeaderLease** is `libs/go/leader`: `acquire`'s script with its epoch drawn from
Redis's clock, a renewal that finds the lock lost, a release, crashes (`Ghost`
holds the lock until the lease ends), pauses (`LeaseExpires` under a leader),
lost replies and the loss of the epoch key. `Write` is the fence at the top of
every script of a leader.

**WaitingRoom** puts the scripts on top of it. The queue is the sorted set in
score order; `fifo` marks the tokens whose score has the offset that places
them behind the lottery. `work` is where a leader's goroutine is: waiting for
T0 to be published, for T0, or ticking. Customers join by the clock of the
server that answers, which is off by `Skew` at most.

**AdmitController** is the arithmetic and the calls of one tick, one action per
call to Redis: `SyncOverride`, `Adjust` (memory only), `SetAdmitRate`, `Admit`.
`due` (the order of Ops when the tick began) and `passed` (people let in by this
tick) are history for the properties. Rates are integers.

## 3. The runs

| run | configuration | what it asks |
|---|---|---|
| flow | `Flow.cfg` | two customers compete for one bucket, two sweepers, a payment, lost replies, crashes: `OpenHoldIsGated` and `GateConservation` between the tiers, `Conservation`, `HoldMatchesOrder`, `IssuedOnce` in the tables, and all of it is traffic that Upkeep allows for (`FeedsUpkeep`) |
| flow_after_loss | `FlowAfterLoss.cfg` | three requests of one customer, releases, a stale seeder, requests that outlive their hold, and Redis that comes back empty: `OneLiveHold`, `GateWithinCapacity` |
| flow_live | `FlowLive.cfg` | two requests of one customer with a payment, while the event may leave the sale: `PerIdentityQuota` is kept and, with fair sweepers, `HoldsEnd` |
| payment | `Payment.cfg` | sandbox, Stripe and MoMo; two requests start a payment of one order, a third payment is announced early, by a gateway that also lets a declined card try again; reconciler, inbox, a refund, a redeployed sandbox: `OnePayable`, `AckedIsRecorded`, `RefundsMatch` and, with fair tickers, `PendingEnds`, `EarlyIsReplayed` |
| upkeep | `Upkeep.cfg` | a reconciler and a watcher, or two watchers that write over each other, against requests in flight, the seeder and one loss of Redis: `TiersAgree`, `FlagsRight` |
| delivery | `Delivery.cfg` | payment's relay twice and ticketing's, two consumers, an operator, two scanners, eight kinds of failure: `NothingLost`, `SentOncePerLoss`, `OneEntry` and, with fairness, `PaidGetsTickets` |
| catalogue | `Catalogue.cfg` | an organizer and a second caller, the AI worker, relay and scheduler, eight kinds of failure: `QuotaIsCapacity`, `NotOnSaleEarly`, `PendingHasJob` and, with fairness, `ReviewsEnd`, `SalesOpen` |
| room | `Room.cfg` | three customers, two instances, T0 unpublished at first and then moved, skewed clocks: `OnePlace`, `NobodyStranded`, `LotteryFirstIn`, `RanksKept`, `WritesInOrderOfTerms` |
| room_live | `RoomLive.cfg` | T0 published in time and left alone: `NothingBeforeSale` and, with fairness, `NobodyForgotten` over two faults |
| admit | `Admit.cfg` | two instances, orders of Ops, changing health, failed calls: `OpsObeyed`, `WithinCeiling`, `HandOver`, `ReturnsToBand`, `SinksToFloor` |
| idem | `Idem.cfg` | four requests with one key, one of them of other content, that die, fail, outlive their lease or hear nothing: `RunsApart`, `ResponsesStand` |
| sale_oversell | `SaleOversell.cfg` | a violation, see the next section |

The type invariants (`DbTypeOK`, `FlowTypeOK`, `PayTypeOK`, `UpkeepTypeOK`,
`DeliveryTypeOK`, `IdemTypeOK`, `CatalogueTypeOK`, `LeaseTypeOK`, `RoomTypeOK`,
`RateTypeOK`) hold under the constants of the runs; add the line
`INVARIANT FlowTypeOK` to a configuration to see it. All but Upkeep's are also
proved (section 6).

`CHECK_DEADLOCK FALSE` stands in every configuration because a sale ends: all
orders are done, the tokens are handed out, or a bound of the model is reached;
and the system is then right to do nothing.

What the runs show together: in `flow` each tier alone never sells more than
it has; what fails is what the two promise together (next section). `upkeep`
takes the ledger for Postgres and shows that the tiers find together again, and
`FeedsUpkeep` ties the two runs: what the first does to Redis and Postgres the
second was checked against. `payment` makes only transactions of SaleDatabase
(proved), so what is proved of the tables holds there too.

Variations that hold:

| change | what holds |
|---|---|
| `SaleOversell.cfg`, `NBuckets = 2`, `Capacity <- MCCapacity` | INVARIANTS DbTypeOK, Conservation, HoldMatchesOrder, IssuedOnce and PROPERTY ImplementsLedger: three orders, two buckets, two payments, transactions in any order |
| `Flow.cfg` | PROPERTIES GateImplementsLedger, ImplementsLedger: both counters implement the same ledger |
| `AdmitTwice.cfg`, `Failures = {}` | INVARIANT QueueMoves |
| `AdmitUnread.cfg`, `Failures = {}` | PROPERTY StaysObeyed |
| `AdmitUnread.cfg`, `OpsRates = {2, 9}`, `Failures = {"failed_read", "failed_call"}` | INVARIANTS InBand, QueueMoves |

## 4. Where the code and its documents disagree

One of them is a run that ends in a counterexample:

* **sale_oversell** (`NoOversell`, BR-O1). The sweeper's `releaseHold` gives the
  tickets of an open hold back also when the order is `PAYMENT_PENDING` or
  `PAID`; the order is then paid and issued although its tickets were sold
  again. `Conservation` holds all the same: the counter is right, the order has
  no claim behind it any more.

The others have configurations of their own beside the runs, and TLC finds each
within a minute or so:

| configuration | property | what happens |
|---|---|---|
| `FlowInflated.cfg` | RedisNotInflated | `hold_sweeper.go:109` calls Release in Redis also when the hold was consumed meanwhile: Redis offers tickets that Postgres has sold, contrary to the comment at line 102 |
| `FlowClosed.cfg` | HoldsEndAfterSale | a hold that is open when its event leaves the sale, cancelled or completed, is swept by nobody: only events that `ListSellableEvents` returns are (`active_events.go:15-20`, `hold_sweeper.go:76`), although `hold_sweeper.go:16` wants no ticket locked for ever. An event of `ACTIVE_EVENT_IDS` stays listed |
| `FlowStuckAfterLoss.cfg` | HoldsEnd | the ids to sweep come from Redis only: after Redis lost its memory an open hold in Postgres is listed by nobody |
| `FlowStuckAfterCommit.cfg` | HoldsEnd | a commit whose reply is an error: the compensation removes the hold from Redis and nobody lists it |
| `PayRefundTwice.cfg` | RefundedOnce | a gateway without idempotency key refunds again when a run that died before its record is repeated, contrary to `refund_event.go:41` |
| `UpkeepTwice.cfg` | NoOvershoot | the client repeats `reconcile.lua` after a late reply and the relative correction is applied twice |
| `UpkeepFlagsLost.cfg` | FlagsRightAfterLoss | the watcher compares with what it remembers to have published: after Redis lost the flags they stay wrong, contrary to `sold_out_watcher.go:25` |
| `DeliveryByHand.cfg` | NothingLostByHand | a notification that an operator is just sending counts as sent (`memory_store.go:37`): the delivery is acknowledged, the operator's attempt fails, nobody is told |
| `DeliveryDeadLetter.cfg` | PaidGetsTickets | as many failures as attempts: `order.paid` ends in a dead-letter queue that nothing reads, and the order stays paid without tickets |
| `CatalogueQuotaCut.cfg` | SoldWithinQuota | BR-E3 (`docs/01:30`): a quota is reduced after the check that the event is not on sale, and overwrites what was sold meanwhile |
| `CatalogueStuck.cfg` | NeverStuck | a job in the dead-letter queue leaves its event in PENDING_REVIEW and in nobody's list, contrary to `consumers/moderation.py:29` |
| `CatalogueStarved.cfg` | ReviewsEnd | a batch full of rows without a route is read again and again (`outbox_relay.go:138`), and the jobs behind it are never published |
| `RoomReschedule.cfg` | NothingBeforeSale | BR-Q1: the leader reads T0 once per term; when the organizer puts T0 off, the running term draws the lottery at the old T0 |
| `RoomLapsed.cfg` | LapsedMayQueueAgain | whose admission expired is told ADMITTED for as long as the keys live, and never queued again |
| `AdmitUnread.cfg` | StaysObeyed | a new leader whose first read of the override fails lets people in although Ops had stopped the event (BR-Q5.5) |
| `AdmitTwice.cfg` | WithinCeiling | the client repeats `admit.lua` after a late reply and the batch is let in twice |

And these are variations of those configurations:

| change | property | what happens |
|---|---|---|
| `FlowStuckAfterLoss.cfg`, `SPECIFICATION FlowSpec`, `Owner <- OneCustomer`, `Capacity <- Plenty` | INVARIANT PerIdentityQuota | with the holds lost from Redis, two requests of one customer pass the count of PersistHold before either commits (BR-O4) |
| `PayRefundTwice.cfg` | INVARIANT PaidOnlyIfCharged | the sandbox answers SUCCEEDED for a session nobody paid (`docs/05:37`) |
| `PayRefundTwice.cfg` | PROPERTY TerminalKept | a late FAILED overwrites SUCCEEDED, which `domain/payment.go:43` calls terminal |
| `UpkeepTwice.cfg`, `Order = {o1, o2}`, `Faults = {}` | PROPERTY NoiseIgnored | requests in flight look like the same drift in two rounds and are corrected (`inventory_reconciler.go:37-38`) |
| `UpkeepFlagsLost.cfg`, `Faults = {"lost_flags"}` | PROPERTY FlagsRight | flags that were set by a call that returned an error are not what the watcher remembers |
| `DeliveryByHand.cfg`, `Manual = {}`, `Scanner = {s1, s2}`, `Faults = {}` | INVARIANT UnusedTicketOpens | the QR code expires with the hold (`issue_tickets.go:116`), ten minutes after the order, not at the end of the entrance (`authx/qr.go:38`) |
| `CatalogueQuotaCut.cfg` | PROPERTY CancelledStays | a request that read the row before writes CANCELLED over (`docs/01:25`) |
| `CatalogueQuotaCut.cfg` | PROPERTY LeadKept | an approved event's date is moved closer than the lead (BR-E2, `docs/01:29`) |
| `CatalogueQuotaCut.cfg` | PROPERTY HumanHasTheLastWord | a verdict of the AI that was loaded before overwrites the moderator's (BR-E5, `docs/01:32`) |
| `CatalogueQuotaCut.cfg` | INVARIANT QueueShowsPending | the moderator's decision and its note on the event's latest review are two writes: in between the event is submitted again, and the note ticks off the new review, so that the event waits in no list |
| `CatalogueQuotaCut.cfg`, `Faults = {"lost_answer"}`, `MaxFaults = 1` | PROPERTY VerdictIsCurrent | a callback that is repeated judges a submission that was made after it |
| `CatalogueQuotaCut.cfg`, `Faults = {"audit_down"}`, `MaxFaults = 1` | INVARIANT DecisionsAudited | the audit log is written last and its error is swallowed |
| `CatalogueStuck.cfg`, `Request = {r1}`, no CONSTRAINT | PROPERTY CancellationsHeard | `event.cancelled` has no route in the event service's relay, so no refunds start |
| `RoomReschedule.cfg`, `Schedule = {"unpublished"}` | INVARIANT NothingBeforeSale | `join.lua` takes a missing T0 for 0 and gives ranks before the lottery |
| `AdmitUnread.cfg`, `Failures = {}` | INVARIANT InBand | when Ops let go of 0, an earlier cooldown keeps the rate at 0 for some ticks |
| `AdmitTwice.cfg`, `Unit = 5`, `Failures = {}` | INVARIANT QueueMoves | a floor below half a person per tick rounds to an empty batch, which `config/admit.go:69` means to rule out |

Read off the code rather than found by a run: payment's server makes its
middleware without `WithIdentity` (`services/payment/cmd/server/main.go:139`),
so there `Hash` does not tell callers apart, while `idem.go:15` promises that a
response goes to no other caller. `ResponsesStand` holds for what `Hash` tells
apart. And the webhook's branch for a failure of an unknown order
(`process_webhook.go:249`) waits for an error that `ProcessPaymentFailedTx`
never returns (section 2, PaymentFlow): such a callback is answered with 500,
not with 200.

## 5. Bounds, assumptions and fairness

### Bounds

| bound | where | why it is enough |
|---|---|---|
| 2-3 orders, 1-2 customers, 1 bucket, 1 payment | flow | contention for the last tickets needs two orders; a stale mapping needs a third of the same customer. Two buckets, and two payments, are in the variation of `SaleOversell.cfg` (section 3); for the gate any number is proved (section 6). The window of three buckets in `hold.lua` is whole with one |
| `MaxLosses` = 1 | flow, upkeep | one loss with releases and a seeder from before it; a second one starts from a state that is no worse |
| `Sweeper` of one or two | flow | two reach one hold together; where one is enough the run is smaller |
| payments p1 (sandbox), p2 (Stripe) of one order, e1 (MoMo) of another, `MaxAttempts` = 2, one refund, sandbox modes success and fail | payment | a double charge needs two payments of one order, of different gateways; a callback before its order one that is early, and e1 may be declined first and try again; VNPay differs from MoMo only in what `VNPayTxn` reports. The mode "delay" answers as "success" does |
| `OneAtATime` | payment | one of the two orders is alone at a time: no transaction or loop of the service touches two orders together but in lists, which are handled one by one |
| `Deployments` of a reconciler and a watcher, and of two watchers; one order of one ticket, `ConfirmTicks` = 2 | upkeep | a round and a check differ by what a request did in between; the lock lets one reconciler run at a time; what two watchers do to each other is in the flags and in what each remembers. All three together are 3.7 million states; reconciler and watchers share counters and holds, which watchers only read. A larger sale is in UpkeepTwice and its variation |
| one order, `Batch` = 2, `MaxAttempts` = 2, `MaxFaults` = 1 | delivery | an order writes three messages; a batch that ends halfway needs two rows; a retry and a last attempt. That more orders change nothing is proved (section 6) |
| `Apart` in DeliveryMC | delivery | door, failures, second relay and manual calls are explored one at a time, each with everything else; together they are covered by the proofs |
| one event, two requests, one worker, `MaxRows` = 2, `MaxQuota` = 2, `MaxTime` = 1, `Lead` = 1, `MaxFaults` = 1 | catalogue | two copies of a row; a submission and the next one; before and at the opening of the sale |
| `Apart` in CatalogueMC | catalogue | quotas change and tickets are sold where no job is under way; two requests meet before a job is published and one meets the worker. They share the event's row and nothing else |
| `MaxTime` = 4 or 5 | lease, room, admit | epochs that may be drawn. Three terms are needed for a leader, its successor and the successor's successor |
| `MaxFaults` = 0 to 2 | room, admit | pauses, crashes, lost and failed calls |
| `MaxClock` = 3, `T0` = 2, `Skew` = 1 | room | a time before, at and after T0 for every clock |
| `MaxBatch` = 2 | room | one person, and more people than wait |
| `Unit` = 2, `MinRate` = 2, `MaxRate` = 6, `StepUp` = 2, `Backoff` = 7 tenths, `DecreaseCooldown` = 2 | admit | floor, ceiling and a rate between them, a decrease that truncates, a cooldown of more than one tick |
| `TTL` = 4, `Lease` = 2, `MaxBeginAttempts` = 3, `EndOfTime` = 5 | idem | a lease ends, a taken-over lease ends, and a response expires, each with time left to claim again; a day and 30 seconds in the code, of which only the order matters |
| four requests, three of them the same | idem | an owner, one that takes over, one that comes between the two, and one that must be told apart. The three are symmetric |
| `OpsRates` = {0, 9} | admit | the emergency stop, and an order above the ceiling |

A constraint cuts a liveness run: what fairness would take past it is not
examined, so `PaidGetsTickets`, `ReviewsEnd`, `SalesOpen`, `PendingEnds` and
`EarlyIsReplayed` are checked for the behaviours that stay within it, those with
one kind of trouble at a time. That each of them can fail within its constraint
is shown by its mutant in `PROJECT.json`, and by `DeliveryDeadLetter.cfg` and
`CatalogueStarved.cfg`.

### Assumptions

* Two terms do not begin in one millisecond of Redis's clock (LeaderLease). The
  epoch key makes them differ also then, unless it was lost in between.
* A customer is one token: `identity_id` to token is one field of `tok`.
* The life time of the waiting room's keys (24 hours) does not end.
* In AdmitController the queue never runs dry; WaitingRoom has short queues and
  any batch.
* `NobodyForgotten` needs batches of one person at least: a floor of half a
  person per tick, and Ops who do not stop an event for ever.
* `Skew` bounds the clocks of the servers and also the time between reading the
  clock and writing T0 in `active_events.go`.
* A script is atomic; a Postgres transaction is atomic but for the two
  statements of PersistHold, whose count takes no lock.
* Redis repeats a call after a lost reply: for `release.lua`, HDEL and HSETNX a
  repetition is one more action of the model; for `hold.lua` it is
  `GateReplyLost`, for `acquire` it is `AcquireReplyLost`.
* Signatures of callbacks and of QR codes are valid: what the gateways and the
  door do with forged ones is not a question of these models.
* `now()` of Postgres does not go back, and each statement of the idempotency
  store is atomic.
* RabbitMQ keeps what it confirmed, and delivers again what was not
  acknowledged.
* One process reads the notification queue (`services/notification/cmd/server/main.go:198`
  runs one `mq.Consume`, which handles one delivery at a time).

### Fairness

* `SweeperFairness` (flow_live): the ticker of `hold_sweeper.go` fires again
  after every round, failed or not, and a round goes on or stops: weak. Strong
  for the transaction of each id, because failures and crashes interrupt it
  again and again without failing for ever. The calls to Redis may fail always:
  Postgres comes first, so the end of a hold there does not wait for them.
  Nothing is assumed of requests, payments or the customer,
  nor that an instance goes on serving the event: `HoldsEnd` asks for the end of
  a hold, or of the sale on every instance.
* `TickerFairness` (payment): the two tickers of payment's `main.go` go on.
  Strong for asking the gateway and applying its answer, which fail now and
  then; weak for the replay of the inbox, which is enabled until it ran.
  Customers need not pay and gateways need not call back.
* `UpkeepFairness` (upkeep): the tickers of the reconciler and of the watcher go
  on, and calls tried again and again do not fail for ever. What has to hold still first is a premise of both properties:
  the sale rests from some time on, which the code does not promise. Reconciler
  and watcher, too, work for the events that their instance lists:
  `TiersAgree` has a reconciler that serves the event as its premise,
  `FlagsRight` a watcher.
* `FairDeliverySpec` (delivery): relays and consumers run on, weak. Not the
  payment, not the scanners, not the operators. Failures are bounded by
  `MaxFaults`, and there are fewer of them than attempts.
* `FairCatalogueSpec` (catalogue): clock, scheduler, relay and worker go on,
  weak; no organizer or moderator has to act.
* `RoomFairness` (room_live): the clock goes on, a lease that is not renewed
  ends, an instance tries to become leader on a ticker, and a leader's loop
  goes on. Weak. Customers need not join, Ops and organizers need not act; that
  the sale goes on for good is a premise of `NobodyForgotten` itself.
* `KeenRoomSpec` (RoomLapsed): customers also ask again, which makes the
  counterexample mean more.
* `RateFairness` (admit): ticks and elections go on, leases end, a leader that
  lost its lock learns of it at its next renewal. Weak; health and Ops are free,
  and the premises of `ReturnsToBand` and `SinksToFloor` say when they settle.

Faults are bounded in number, so every fair behaviour has a last one; that is
what the liveness properties need and what they say: recovery after it.

## 6. Proofs

`tlapm` checks all of these, for every value of the constants: any number of
orders, customers, buckets, instances, consumers, failures, and any limits.

**SaleDatabaseProofs.** `DbInvariant` is `DbSpec => []DbInv`. `Conservation` is
not inductive alone: returning a hold adds to the bucket the hold names, so a
hold that exists must have one (`HoldShape`); `HoldMatchesOrder` for a cancelled
order needs that an order being paid has no consumed hold, which `HoldShape`
also says; and `IssuedOnce` claims the `order.paid` message, which needs
`PaidAnnounced`. The arithmetic comes first in the module: tickets of disjoint
sets of orders add up. From `DbInv` follow `DbTypes`, `StockIsConserved`,
`HoldsMatchOrders`, `TicketsIssuedOnce`, and `DatabaseImplementsLedger`: with
`Conservation` the guard `available >= quantity` of the UPDATE is the ledger's
`Free(b) >= Qty[o]`; every other transaction is a return, a sale or a stutter.

**HoldFlowProofs.** `FlowInvariant` and `FlowTypes`: `FlowInv` has the types and
what a request knows of its own hold at each `pc`. `FlowImplementsDb`: every
step of the flow is a step of SaleDatabase or none, so everything above holds
of requests, workers and crashes together; `FlowImplementsStock` spells it out.
Three more results hold over all faults of the model:

* `NobodyHoldsTwice`: a customer has one live hold of an event. `LiveIsMapped`
  is inductive: a live hold is the one its customer's key names, and lives as
  long as the key. That every step is one of the gate's scripts or leaves it
  alone (`FlowStepIsScript`) makes the case split short.
* `GateStaysInCapacity`: what a bucket of Redis offers and holds together never
  exceeds its capacity. `GateRoom` adds that a row a seeder carries does not
  either, and that a hold has its bucket.
* `FlowIsUpkeepTraffic` is `FlowSpec => FeedsUpkeep`: each script is matched
  with Upkeep's and each transaction with the ledger's. The step that does not
  follow from the types is the issuer's Consume, which Upkeep lets happen only
  to what is not open in Postgres any more: `IssuingEnds` says that an issuer
  has an order in hand only after its hold ended there.

Four need a hypothesis, and section 4 shows why:

* `OpenHoldsAreGated` when only replies of `hold.lua` get lost and the event
  may leave the sale (`Faults \subseteq {"lost_reply", "closing"}`; with a lost
  commit or a lost Redis it is false). The invariant `HandsOff` says who may touch a hold: what is listed or
  expired belongs to a request that is done, what a sweeper has swept or a
  cancellation has in hand is not open any more.
* `GateIsConserved` without a loss of Redis. `GateBooks` adds `Unsold`: a row
  the seeder carries and may still write is the whole capacity, because a
  bucket that is absent has never had a hold.
* `QuotaIsKept` under the hypothesis of the first. `QuotaCounts` says
  that what `PersistHold` counted is still no less than what the customer has:
  a request between its count and its commit holds the customer's only live
  hold (`LiveIsMapped`, `HandsOff`), so no other request commits in between.
* `GateImplementsStock`, the refinement of StockLedger, from the same.

**PaymentFlowProofs.** `PayInvariant` proves `PayInv`: `DbInv`, the types, a
payment's row has its transaction id (`RowTxns`), a refund under way belongs to
an order that is being refunded (`RefundShape`), and every page, callback and
inbox row to an initiation (`PageShape`). `PaymentImplementsDb`: payment makes
transactions of SaleDatabase only. `RefundsMatchOrders` needs nothing else.
`OnePageToPay` holds when an early payment is the only one of its order
(`EarlyAlone`; `OneRow` is its invariant: an order has one payment row).
`AcksAreKept` has no hypothesis: every callback of a success tells what the
session came to, and what an inbox row has, once it is there, is a success
(`InboxShape`), so a row that was kept for an earlier report of the same
transaction says the same.
`OneCharge` takes `OnePageToPay` to the customer's money: a gateway charges on a
page only, or runs ahead (`ChargedOnPage`), so at most one payment of an order
is charged, whichever answers get lost. `RefundsAreKeyed` is the positive side
of `PayRefundTwice.cfg`: where every payment is of one provider that derives the
refund's id from the order's (`OneKeyedProvider`: Stripe, or the sandbox), every
repetition of a refund asks for the same refund (`SameProvider`), so
`RefundedOnce` holds over all crashes and overlapping refunds of the event.

**DeliveryProofs.** `Shape` is the typed part, with what a process may have in
hand. `NothingIsLost` has no hypothesis. `NothingLost` is not inductive: an
e-mail is taken for sent when the memory says SENT or PENDING, so `Remembers`
says that SENT is out and PENDING in the hand of somebody who will settle it;
and a delivery that is "done" is about to be acknowledged, so `Unforgotten`
does without it: a message is in its queue, at work, or its work is done.
`OneEntryEach` follows from `TicketsFit`, the combinations of order, ticket and
door that occur. `NotifiedOncePerLoss` assumes `OneNotifier`, one reader of the
notification queue as in the service; `SendsAlone` says that a mail about to be
sent is PENDING and in one hand, and counts a mail as one until it is SENT.
`DeliveryTypes` is more than types: an order that has written a message has
passed the state in which it is written, so it is not written again
(`WrittenOnce`); SKIP LOCKED gives a row to one relay at a time and never again
once it is published (`LocksApart`); and no copy is at more than its last
attempt, in whichever queue or hand it is (`CopiesFit`).

The second half of the module is about IdemStore. `IdemInvariant` proves
`IdemInv`, from which `HandlersRunApart` and `StoredResponsesStand` follow
without a hypothesis. Neither property speaks of the row alone: two requests
that both ran may have left it long ago. The parts that carry it: within its
term, the lease or the life time, the row of a request that did not give it up
is still its own (`Undisturbed`), nobody had the key later than the row says
(`LatestRow`), no two requests that keep the key have one token (`OneToken`),
and a row that a request's token names is of its own content (`RowHash`). The
last two are what lets `completeSQL` and `abandonSQL` name a row by its
`created_at`. `TermsEnd` is the lemma behind a claim: whoever had the key before
gave it up or has had its time. The lemmas hold for any lease and life time, also
a lease longer than the life time, for which `Term` is then the life time.

**LeaderLeaseProofs.** `LeaseInvariant` proves `LeaseInv`: every epoch that was
used is behind Redis's clock (so a lost epoch key does no harm), the epoch key
is the latest, every epoch has one owner, and whoever may take its own lock
again owns the epoch that is in the key. `LeadersWriteInOrder` is the action
property `WritesInOrderOfTerms` from it: a write passes the fence only under
the epoch in the key.

**WaitingRoomProofs.** `RoomImplementsLease`: the room with its lotteries and
ticks is a lease, so `RoomWritesInOrder` is the theorem above about real
writes. `EverybodyOnePlace` and `LobbyStaysEmpty` come from an invariant
`PlacesInv`: everybody who has a place has a token (without which `join.lua`
could give a second one), no two places are the same person's, and after the
lottery the lobby is empty. `LotteryGoesFirst` needs `TurnsInv`: who came after
the sale began stands behind everybody else in the queue (`InTurn`), and before
the lottery there is nobody else in it and nobody was let in. `NobodyOvertakes`
follows from `PlacesInv` step by step: each of the scripts appends, shuffles a
queue nobody is in, or takes from the front. `RoomTypes` collects the types of
the places and the controllers' work, which are parts of the invariants above,
with those of `meta.*` and the clocks. `NothingIsEarly` holds when no organizer
moves the sale (`Schedule = {}`; with it `RoomReschedule.cfg` is the
counterexample).

**AdmitControllerProofs.** `RateInvariant` (the lease and the types) gives
`RateTypes`, for every band, step, back-off and cooldown, and
`RatesWriteInOrder`. `OpsAreObeyed` when reads of the override do not fail
(else see `AdmitUnread.cfg`): `OrderInForce` says that a tick that saw an order
has it as its rate from the read to the batch. `OrdersStayObeyed` is the same
over changes of the leader, under the same condition. `CeilingHolds` when `admit.lua`
is not repeated (else see `AdmitTwice.cfg`): `AdmittedOnce`, nobody is let in
before the tick's own batch. `RateIsHandedOver` when reads and calls succeed:
`StartsFromLast` says that a leader that has not written in its term stands at
the published rate, which nobody else can change while it has the latest epoch.
`RateStaysInBand` and `QueueKeepsMoving` are about rates that Ops do not order.
Both are false as the documents state them (section 4: an order below the floor
is not raised while a cooldown runs), and true under either of two conditions:
Ops never order less than the floor (`FloorForOps`; then `AboveFloor` is
inductive), or the cooldown is switched off, as `config/admit.go:79` allows, and
reads do not fail (`AdjustsAtOnce`; `FreeOfOps` says that a tick without an
order adjusts, and so publishes what AIMD bounded). `QueueKeepsMoving` adds the
check that `config/admit.go:69` misses, `2 * MinRate >= Unit`: half a person per
tick rounds up.

**CatalogueProofs.** `CatalogueInvariant` proves `CatalogueInv`. The types say
what a request and a callback have in hand. `SoundRows` is the reason for
`SalesOpenInTime`: requests write back rows they read, so every row in
somebody's hand must be one that may be written at any later time; it uses that
`MarkSoldOut` has no caller, without which a changed quota could reopen a sale.
`BucketsHoldQuota` is inductive. `ReviewsHaveJobs` needs `Settled`: a worker
that decided has asked a human, or has taken the event out of review, or there
is a later job by now, and only a submission puts an event under review
(`EventsWritten`), with a job that is the last one (`NewJob`).

Assumed: the named assumptions on constants in the modules, which TLC evaluates
in every run, and the standard theorems about finite sets, sequences and
functions. Hypotheses of single theorems (a fault that is absent, a schedule
that does not move) are in their statements, and the text above names the
counterexample that needs what they exclude. `OneNotifier` is how notification
runs; `EarlyAlone` leaves out a gateway that charges ahead of the tables for an
order that another payment is started for. The properties were checked by TLC
on the instances of the runs, or of the variations, before they were proved.

Only model-checked:

* Upkeep, whose two properties say what the tiers and the flags come to in the
  long run (what is proved of it is that the flow is its traffic);
* every other liveness property (fairness and ENABLED are out of the prover's reach,
  and so is induction over what a recursive function computes).

## 7. What is not modelled

* **Identity, gateway, antibot**: users, sessions, limits and scores share no
  state with the sale; their verdicts are inputs.
* **Waiting room's join use case and event supervisor**: checks of the pass and
  the token before `join.lua`, and a goroutine per active event.
* **Admit controller**, partly: the in-memory `SetRateOverride`, which only tests
  call; hence its CompareAndSwap never fails and `adjust` is one step.
* **Notification**, partly: history, templates and the Postgres store.
* **ai-worker**, partly: the chat assistant, its quota and the prompts; of the
  moderation the verdict is any of the three. Every failure of Gemini is tried
  again, as a 429, a 5xx and a timeout are in the code; another 4xx, and a body
  that cannot be read, go to the dead-letter queue at once. What becomes of an
  event whose job is there is `CatalogueStuck.cfg`, and `ReviewsEnd` is about
  jobs that do not get there.
* **Acknowledgements of the worker**: `Finish` sends a job on to the retry or
  dead-letter queue and acknowledges it in one step. A worker that dies between
  the two leaves a second copy; `WorkerCrash` and `CallFails` with
  "lost_answer" already make the worker handle a job twice.
* **Catalogue**, what is left out of it: listings, and more than one tier per
  event (tiers share nothing but the event's status).
* **Web application, deployment, dashboards, wrappers around clients**: no state
  of their own that the sale depends on. The in-memory repositories of the
  tests are not part of the running system.
* The depth of the queue, metrics, positions and estimates shown to people.
* Messages without a consumer (`hold.released`, `ticketing.hold.*`).
* `admit.lua` unpacks two values per person after it popped them; a batch of
  some thousands exceeds the interpreter's stack. The default ceiling is far
  below it.

* Rows of `idempotency_keys` that expired: nothing in the repository deletes
  them, and a claim takes them as if they were not there.

Hazards without a property that holds: the sweeper's old list
(`hold_sweeper.go:109`) and the lapsed admission (`join.lua:41`), which have
counterexamples in section 4. That a handler outlives its lease and runs beside
its repetition is allowed by `RunsApart`, as by `idem.go:21`; what the sale makes
of a handler that runs twice is in HoldFlow and PaymentFlow: two requests of one
customer, two payments of one order.

## 8. What could come next

* IdemStore composed with HoldFlow's request and PaymentFlow's checkout, instead
  of side by side with them.
* Safety theorems about Upkeep's corrections: what a confirmed drift may still
  get wrong is in its counterexamples, not in a theorem.

Runs are kept few: a run asks one question of a component, and properties that
share a configuration share a run.

## 9. How to run

```
tlasany SaleDatabase.tla
tlc -workers 2 -config Flow.cfg HoldFlowMC
tlapm DeliveryProofs.tla
```

The module to give TLC is `SaleDatabaseMC` for `Sale*.cfg`, `HoldFlowMC` for
`Flow*.cfg`, `PaymentFlowMC` for `Pay*.cfg`, `UpkeepMC`, `DeliveryMC`,
`CatalogueMC` for those of their names, `IdemStoreMC` for `Idem.cfg`,
`WaitingRoomMC` for `Room*.cfg` and `AdmitControllerMC` for `Admit*.cfg`.

`PROJECT.json` lists components, runs, mutants (for every property a change of
a definition, kept beside it with the comment "mutant", under which TLC finds
the property violated), the source lines of every definition, hazards and
theorems. The longest run takes some three minutes.
