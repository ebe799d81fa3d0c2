------------------------------ MODULE HoldFlow ------------------------------
(***************************************************************************)
(* Selling tickets through both tiers.  A purchase passes the Redis gate   *)
(* and then the database; the sweeper, a customer's cancellation, the      *)
(* issuer and the seeder of the gate's stock each change one tier and then *)
(* the other, with nothing that makes the two steps one.  Any call may     *)
(* fail and any of these processes may die between its steps.  Faults      *)
(* names the rarer events that a run lets happen:                          *)
(*   "redis_loss"    Redis comes back empty, at most MaxLosses times       *)
(*   "lost_reply"    hold.lua has run but its reply never arrives          *)
(*   "lost_commit"   PersistHold has committed but its reply is an error   *)
(*   "slow_request"  a request is still at work when its hold expires      *)
(*   "closing"       the event leaves the sale (CLOSED or CANCELLED)       *)
(***************************************************************************)
EXTENDS SaleDatabase, RedisGate

CONSTANTS
    Sweeper,     \* instances of the ticketing service, one sweeper each
    Faults,
    MaxLosses    \* bound of the model, see the README

ASSUME FaultsAssumption ==
    /\ Faults \subseteq {"redis_loss", "lost_reply", "lost_commit",
                         "slow_request", "closing"}
    /\ MaxLosses \in Nat

VARIABLES
    pc,          \* pc[o]: how far the request CreateHold got
    cancelling,  \* cancelled or found released in Postgres, not yet in Redis
    issuing,     \* issued in Postgres, the Redis hold not yet consumed
    listed,      \* listed[w]: ids sweeper w still has to work on
    swept,       \* swept[w]: ids it has released in Postgres only
    rows,        \* rows[b]: stock the seeder has read and not yet written
    losses,      \* how often Redis was lost
    serving      \* instances whose list of active events has this event

flowVars == <<pc, cancelling, issuing, listed, swept, rows, losses, serving>>
vars == <<dbVars, gateVars, flowVars>>

RequestStep == {"idle", "checked", "gated", "compensate", "done"}
NoRow == -1

FlowInit ==
    /\ DbInit
    /\ GateInit
    /\ pc = [o \in Order |-> "idle"]
    /\ cancelling = {}
    /\ issuing = {}
    /\ listed = [w \in Sweeper |-> {}]
    /\ swept = [w \in Sweeper |-> {}]
    /\ rows = [b \in Bucket |-> NoRow]
    /\ losses = 0
    /\ serving = Sweeper

GoTo(o, step) == pc' = [pc EXCEPT ![o] = step]
RequestOnly == UNCHANGED <<cancelling, issuing, listed, swept, rows, losses,
                           serving>>

-----------------------------------------------------------------------------
(* CreateHold.  The early check counts settled orders only and is not      *)
(* repeated when the request goes on.                                      *)
CountPurchased(o) ==
    /\ pc[o] = "idle"
    /\ IF Tickets(OrdersOf(Owner[o], SettledOrderStatuses)) + Qty[o]
             <= MaxPerIdentity
       THEN GoTo(o, "checked")
       ELSE GoTo(o, "done")
    /\ RequestOnly
    /\ UNCHANGED <<dbVars, gateVars>>

PassGate(o) ==
    /\ pc[o] = "checked"
    /\ \/ \E b \in Bucket : GateAccept(o, b) /\ GoTo(o, "gated")
       \/ GateSoldOut(o) /\ GoTo(o, "done")
       \/ GateAlreadyHolding(o) /\ GoTo(o, "done")
    /\ RequestOnly
    /\ UNCHANGED dbVars

(* The client library repeats a call whose answer did not come, and is     *)
(* told ALREADY_HOLDING; or the call fails.  The request ends either way.  *)
GateReplyLost(o) ==
    /\ "lost_reply" \in Faults
    /\ pc[o] = "checked"
    /\ \E b \in Bucket : GateAccept(o, b)
    /\ GoTo(o, "done")
    /\ RequestOnly
    /\ UNCHANGED dbVars

PersistCount(o) ==
    /\ pc[o] = "gated"
    /\ CountQuota(o)
    /\ RequestOnly
    /\ UNCHANGED <<gateVars, pc>>

PersistCommit(o) ==
    /\ pc[o] = "gated"
    /\ CommitHold(o, rbucket[o])
    /\ \/ GoTo(o, "done")
       \/ "lost_commit" \in Faults /\ GoTo(o, "compensate")
    /\ RequestOnly
    /\ UNCHANGED gateVars

PersistRollback(o) ==
    /\ pc[o] = "gated"
    /\ RollbackHold(o)
    /\ GoTo(o, "compensate")
    /\ RequestOnly
    /\ UNCHANGED gateVars

(* The transaction may fail to begin, before anything is counted.          *)
PersistFail(o) ==
    /\ pc[o] = "gated"
    /\ counted[o] = NotCounting
    /\ GoTo(o, "compensate")
    /\ RequestOnly
    /\ UNCHANGED <<dbVars, gateVars>>

(* When the release fails as well, the error is logged and that is all.    *)
Compensate(o) ==
    /\ pc[o] = "compensate"
    /\ Release(o) \/ UNCHANGED gateVars
    /\ GoTo(o, "done")
    /\ RequestOnly
    /\ UNCHANGED dbVars

(* The process dies: Postgres drops its open transaction.                  *)
RequestCrash(o) ==
    /\ pc[o] \in {"checked", "gated", "compensate"}
    /\ counted' = [counted EXCEPT ![o] = NotCounting]
    /\ GoTo(o, "done")
    /\ RequestOnly
    /\ UNCHANGED <<tables, gateVars>>

-----------------------------------------------------------------------------
(* CancelHold of the customer: Postgres, then Redis, and Redis also when   *)
(* Postgres says it was done before.                                       *)
CancelInDb(o) ==
    /\ \/ CancelHold(o)
       \/ hold[o] = "released" /\ UNCHANGED dbVars
    /\ cancelling' = cancelling \cup {o}
    /\ UNCHANGED <<gateVars, pc, issuing, listed, swept, rows, losses,
                   serving>>

CancelInRedis(o) ==
    /\ o \in cancelling
    /\ Release(o) \/ UNCHANGED gateVars
    /\ cancelling' = cancelling \ {o}
    /\ UNCHANGED <<dbVars, pc, issuing, listed, swept, rows, losses, serving>>

(* IssueTickets, for every delivery of order.paid: tickets first, and then *)
(* the Redis hold, which is tried again whenever the tickets are there.    *)
IssueInDb(o) ==
    /\ Msg("order.paid", o) \in outbox
    /\ \/ IssueTicketsTx(o)
       \/ order[o] = "ISSUED" /\ tickets[o] > 0 /\ UNCHANGED dbVars
    /\ issuing' = issuing \cup {o}
    /\ UNCHANGED <<gateVars, pc, cancelling, listed, swept, rows, losses,
                   serving>>

IssueInRedis(o) ==
    /\ o \in issuing
    /\ Consume(o) \/ UNCHANGED gateVars
    /\ issuing' = issuing \ {o}
    /\ UNCHANGED <<dbVars, pc, cancelling, listed, swept, rows, losses,
                   serving>>

-----------------------------------------------------------------------------
(* EventDiscovery of an instance no longer finds the event among those on  *)
(* sale: its workers finish what they are at and begin nothing for it.     *)
Discover(w) ==
    /\ "closing" \in Faults
    /\ w \in serving
    /\ serving' = serving \ {w}
    /\ UNCHANGED <<dbVars, gateVars, pc, cancelling, issuing, listed, swept,
                   rows, losses>>

(* The sweeper reads the ids from Redis once per tick, for the events that *)
(* its instance serves.  Postgres first: a hold that is not open there is  *)
(* no error, and Redis is told in any case.                                *)
SweepList(w) ==
    /\ w \in serving
    /\ listed[w] = {} /\ swept[w] = {}
    /\ ExpiredHolds # {}
    /\ listed' = [listed EXCEPT ![w] = ExpiredHolds]
    /\ UNCHANGED <<dbVars, gateVars, pc, cancelling, issuing, swept, rows,
                   losses, serving>>

SweepRedisFirst(w, o) ==   \* mutant: the two tiers swapped
    /\ swept[w] = {}
    /\ o \in listed[w]
    /\ Release(o)
    /\ listed' = [listed EXCEPT ![w] = @ \ {o}]
    /\ swept' = [swept EXCEPT ![w] = {o}]
    /\ UNCHANGED <<dbVars, pc, cancelling, issuing, rows, losses, serving>>

SweepInDb(w, o) ==
    /\ swept[w] = {}
    /\ o \in listed[w]
    /\ \/ ReleaseHold(o)
       \/ hold[o] # "open" /\ UNCHANGED dbVars
    /\ listed' = [listed EXCEPT ![w] = @ \ {o}]
    /\ swept' = [swept EXCEPT ![w] = {o}]
    /\ UNCHANGED <<gateVars, pc, cancelling, issuing, rows, losses, serving>>

SweepInRedis(w, o) ==
    /\ o \in swept[w]
    /\ Release(o)
    /\ swept' = [swept EXCEPT ![w] = {}]
    /\ UNCHANGED <<dbVars, pc, cancelling, issuing, listed, rows, losses,
                   serving>>

(* A failed call skips to the next id, a crash forgets them all.           *)
SweepFail(w) ==
    /\ listed[w] # {} \/ swept[w] # {}
    /\ swept' = [swept EXCEPT ![w] = {}]
    /\ \E rest \in SUBSET listed[w] : listed' = [listed EXCEPT ![w] = rest]
    /\ UNCHANGED <<dbVars, gateVars, pc, cancelling, issuing, rows, losses,
                   serving>>

-----------------------------------------------------------------------------
(* InventorySeeder reads Postgres and then fills the fields Redis lacks.   *)
SeedRead ==
    /\ serving # {}
    /\ \A b \in Bucket : rows[b] = NoRow
    /\ rows' = available
    /\ UNCHANGED <<dbVars, gateVars, pc, cancelling, issuing, listed, swept,
                   losses, serving>>

SeedWrite(b) ==
    /\ rows[b] # NoRow
    /\ SeedInventory(b, rows[b]) \/ UNCHANGED gateVars
    /\ rows' = [rows EXCEPT ![b] = NoRow]
    /\ UNCHANGED <<dbVars, pc, cancelling, issuing, listed, swept, losses,
                   serving>>

Clock(o) ==
    /\ pc[o] = "done" \/ "slow_request" \in Faults
    /\ TimeUp(o)
    /\ UNCHANGED <<dbVars, flowVars>>

LoseRedis ==
    /\ "redis_loss" \in Faults
    /\ losses < MaxLosses
    /\ RedisLoss
    /\ losses' = losses + 1
    /\ UNCHANGED <<dbVars, pc, cancelling, issuing, listed, swept, rows,
                   serving>>

(* The payment service writes to the same tables and knows no Redis.       *)
PaymentService ==
    /\ \/ \E p \in Payment : PaymentTx(p)
       \/ \E o \in Order : \/ ProcessOrderCancellationTx(o)
                           \/ MarkOrderRefundingTx(o)
                           \/ ProcessRefundSuccessTx(o)
    /\ UNCHANGED <<gateVars, flowVars>>

Request(o) ==
    \/ CountPurchased(o)
    \/ PassGate(o)
    \/ GateReplyLost(o)
    \/ PersistCount(o)
    \/ PersistCommit(o)
    \/ PersistRollback(o)
    \/ PersistFail(o)
    \/ Compensate(o)
    \/ RequestCrash(o)

AfterHold(o) ==
    \/ CancelInDb(o)
    \/ CancelInRedis(o)
    \/ IssueInDb(o)
    \/ IssueInRedis(o)
    \/ Clock(o)

Sweep(w) ==
    \/ Discover(w)
    \/ SweepList(w)
    \/ \E o \in Order : SweepInDb(w, o) \/ SweepInRedis(w, o)
    \/ SweepFail(w)

FlowNext ==
    \/ \E o \in Order : Request(o) \/ AfterHold(o)
    \/ \E w \in Sweeper : Sweep(w)
    \/ SeedRead
    \/ \E b \in Bucket : SeedWrite(b)
    \/ LoseRedis
    \/ PaymentService

FlowSpec == FlowInit /\ [][FlowNext]_vars

(* The sweeper's ticker fires again whatever happened in the round before, *)
(* a round that has begun goes on or stops, and the transaction that is    *)
(* tried again and again with one id does not fail for ever.               *)
SweeperFairness ==
    \A w \in Sweeper :
        /\ WF_vars(SweepList(w))
        /\ \A o \in Order : SF_vars(SweepInDb(w, o))
        /\ WF_vars(\E o \in Order : SweepInRedis(w, o))

FairFlowSpec == FlowSpec /\ SweeperFairness

-----------------------------------------------------------------------------
FlowTypeOK ==
    /\ DbTypeOK
    /\ GateTypeOK
    /\ pc \in [Order -> RequestStep]
    /\ cancelling \subseteq Order
    /\ issuing \subseteq Order
    /\ listed \in [Sweeper -> SUBSET Order]
    /\ swept \in [Sweeper -> SUBSET Order]
    /\ rows \in [Bucket -> Nat \cup {NoRow}]
    /\ losses \in 0..MaxLosses
    /\ serving \subseteq Sweeper

(* What the order "Postgres first, Redis second" of sweeper, cancellation  *)
(* and issuer is for: while Postgres still sets tickets aside for a        *)
(* customer who has not paid, Redis does not offer them to anybody else.   *)
OpenHoldIsGated ==
    \A o \in Order : hold[o] = "open" => rhold[o] = "held"

(* BR-O1 on the Redis side: the counter of a seeded bucket and the holds   *)
(* it was taken for add up to the capacity, so release.lua gives no ticket *)
(* back twice, whichever of compensation, cancellation, issuer and         *)
(* sweepers reach one hold, and a late seeder overwrites no decrement.     *)
GateConservation ==
    \A b \in Bucket :
        inv[b] # Absent =>
            inv[b] + Tickets({o \in Order :
                        rhold[o] \in {"held", "consumed"} /\ rbucket[o] = b})
              = Capacity[b]

(* After Redis came back empty its counters are refilled from a row of     *)
(* Postgres that the seeder may have read long ago, and releases of holds  *)
(* from before the loss are still on their way: Redis never comes to offer *)
(* and hold more tickets than the bucket ever had.                         *)
GateWithinCapacity ==
    \A b \in Bucket :
        inv[b] + Tickets({o \in InRedis : rbucket[o] = b}) <= Capacity[b]

(* BR-O3 in Redis: a customer never has two live holds, although stale     *)
(* mappings are dropped by the next request and by late releases.          *)
OneLiveHold ==
    \A o, q \in InRedis \ expired : Owner[o] = Owner[q] => o = q

(* BR-O4: the tickets a customer holds, is paying for or has bought stay   *)
(* within max_per_identity, with requests of one customer side by side.    *)
PerIdentityQuota ==
    \A id \in Identity :
        Tickets(OrdersOf(id, QuotaOrderStatuses)) <= MaxPerIdentity

(* worker/hold_sweeper.go:102-103: at the worst Postgres has the tickets   *)
(* back and Redis has not.  Redis offering more than Postgres has left is  *)
(* what the comment rules out; the tickets of requests on their way, which *)
(* only Redis has subtracted, count as offered.                            *)
OnlyInRedis(b) ==
    {o \in InRedis : rbucket[o] = b /\ hold[o] \notin {"open", "consumed"}}

RedisNotInflated ==
    \A b \in Bucket :
        inv[b] # Absent => inv[b] + Tickets(OnlyInRedis(b)) <= available[b]

(* The life cycle of docs/01-nghiep-vu.md: when a hold's ten minutes are   *)
(* up, its tickets do not stay blocked; they are sold or go back, although *)
(* one instance after the other stops serving the event, as long as one    *)
(* goes on: holds of an event that nobody serves are swept by nobody.      *)
HoldsEnd ==
    \A o \in Order :
        (hold[o] = "open" /\ o \in expired)
            ~> (hold[o] # "open" \/ serving = {})

(* hold_sweeper.go:16: no ticket stays locked for ever, also after the     *)
(* event was closed or cancelled (README, section 4).                      *)
HoldsEndAfterSale ==
    \A o \in Order :
        (hold[o] = "open" /\ o \in expired) ~> hold[o] # "open"

(* The gate keeps the same ledger as the database: however its scripts and *)
(* the seeder interleave, its counter lets nobody claim what is taken, and *)
(* a hold it gave up or saw consumed stays so.                             *)
GateClaimOf(h) ==
    CASE h = "none" -> "none"
      [] h = "held" -> "claimed"
      [] h = "consumed" -> "sold"
      [] h \in {"released", "lost"} -> "returned"

GateLedger == INSTANCE StockLedger WITH
    claim <- [o \in Order |-> GateClaimOf(rhold[o])],
    place <- rbucket

GateImplementsLedger == GateLedger!LedgerSpec

(* Upkeep checks the reconciler and the watcher against traffic that it    *)
(* describes in a few actions.  What requests, sweepers, cancellations,    *)
(* payments, the issuer and the seeder do to the two tiers, whatever they  *)
(* know of each other and whatever fails, is such traffic and nothing else.*)
Nobodys == [w \in {} |-> 0]

Traffic == INSTANCE Upkeep WITH
    claim <- [o \in Order |-> ClaimOf(hold[o])],
    place <- bucket,
    Faults <- (Faults \cap {"redis_loss"}) \cup {"expiry"},
    Reconciler <- {}, Watcher <- {}, ConfirmTicks <- 1,
    Deployments <- {{}}, serving <- {},
    round <- Nobodys, seen <- Nobodys,
    zeroTicks <- Nobodys, remembered <- Nobodys, want <- Nobodys,
    flags <- [stockZero |-> FALSE, soldOut |-> FALSE]

FeedsUpkeep == Traffic!UpkeepSpec
=============================================================================
