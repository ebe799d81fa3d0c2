------------------------------- MODULE Upkeep -------------------------------
(***************************************************************************)
(* The two workers that look after Redis while tickets are sold: the       *)
(* reconciler compares the counters of the gate with Postgres and corrects *)
(* what differs twice, the watcher tells the waiting room that the tickets *)
(* are gone.  Both read, in several steps, what everybody else keeps       *)
(* changing.  Postgres is the ledger that SaleDatabase implements; who     *)
(* moves tickets, and why, is left to HoldFlow: here they pass Redis first *)
(* on their way in, Postgres first on their way out, or get lost between.  *)
(* Members of Faults:                                                      *)
(*   "redis_loss"   Redis comes back empty, at most MaxLosses times        *)
(*   "expiry"       a hold is still there when its time is up              *)
(*   "lost_adjust"  the client repeats reconcile.lua after a late reply    *)
(*   "lost_flags"   the flags are set, but the call returns an error       *)
(***************************************************************************)
EXTENDS RedisGate, StockLedger, FiniteSetsExt

CONSTANTS
    Reconciler,    \* instances of the service that run InventoryReconciler,
    Watcher,       \* and those that run SoldOutWatcher
    Deployments,   \* which of them may be those that serve the event
    ConfirmTicks,  \* SoldOutWatcherConfig.ConfirmTicks
    Faults,
    MaxLosses      \* bound of the model, see the README

ASSUME UpkeepAssumption ==
    /\ ConfirmTicks \in Nat \ {0}
    /\ Deployments \subseteq SUBSET (Reconciler \cup Watcher)
    /\ Faults \subseteq {"redis_loss", "expiry", "lost_adjust", "lost_flags"}
    /\ MaxLosses \in Nat

VARIABLES
    serving,     \* instances whose list of active events has this event
    rows,        \* rows[b]: stock the seeder has read and not yet written
    losses,      \* how often Redis was lost
    round,       \* round[w]: what reconciler w has read so far
    seen,        \* seen[w][b]: the drift its pass before this one left
    zeroTicks,   \* zeroTicks[w]: how often in a row watcher w saw nothing
    remembered,  \* remembered[w]: what its watcher takes for published
    want,        \* want[w]: what the watcher is about to publish
    flags        \* the fields sold_out and stock_zero of the room's meta

roundVars == <<round, seen>>
watchVars == <<zeroTicks, remembered, want, flags>>
saleVars == <<ledgerVars, rhold, rbucket, uhold, expired, losses>>
trafficVars == <<saleVars, rows, serving>>
vars == <<trafficVars, inv, roundVars, watchVars>>

NoRow == -1
Available == [b \in Bucket |-> Free(b)]   \* ticket_inventory.available

-----------------------------------------------------------------------------
(* What the reconciler expects of Redis: the stock of Postgres without the *)
(* holds that only Redis has subtracted, on their way in or out.           *)
OnTheWay(holds, b) ==
    {o \in holds : rbucket[o] = b /\ claim[o] \notin {"claimed", "sold"}}

Expected(stock, holds, b) == Max({0, stock - Tickets(OnTheWay(holds, b))})

(* Counters and holds in one MULTI.                                        *)
Snapshot == [counter |-> [b \in Bucket |-> Avail(b)], holds |-> InRedis]

Off(stock, redis) ==
    [b \in Bucket |->
        redis.counter[b] - Expected(stock[b], redis.holds, b)]

Drift == Off(Available, Snapshot)

SameSign(m, n) == m * n > 0
Confirmed(w, drift) == {b \in Bucket : SameSign(seen[w][b], drift[b])}
Fresh(w) == \E b \in Bucket :
    round[w].drift[b] # 0 /\ ~SameSign(seen[w][b], round[w].drift[b])

NoDrift == [b \in Bucket |-> 0]
Resting == [at |-> "idle", stock |-> NoDrift, drift |-> NoDrift,
            todo |-> {}, second |-> FALSE]

RoundUnchanged == UNCHANGED <<trafficVars, watchVars>>

(* SETNX with a TTL: the lock ends by itself, after the round in it.       *)
TryReconcileLock == \A w \in Reconciler : round[w].at = "idle"

(* A pass begins with Postgres; the second pass of a round confirms.       *)
ListInventory(w) ==
    /\ \/ w \in serving /\ round[w].at = "idle" /\ TryReconcileLock
       \/ round[w].at = "confirm"
    /\ round' = [round EXCEPT ![w] =
           [Resting EXCEPT !.at = "listed", !.stock = Available,
                           !.second = round[w].at = "confirm"]]
    /\ UNCHANGED <<inv, seen>> /\ RoundUnchanged

(* The holds and counters of Redis, compared with what Postgres said.      *)
Compare(w) ==
    LET drift == Off(round[w].stock, Snapshot) IN
    /\ round[w].at = "listed"
    /\ round' = [round EXCEPT ![w] =
           [Resting EXCEPT !.at = "compared", !.drift = drift,
                           !.todo = Confirmed(w, drift),
                           !.second = round[w].second]]
    /\ UNCHANGED <<inv, seen>> /\ RoundUnchanged

(* The smaller of the two drifts, with the sign turned round.              *)
Sure(m, n) == IF n > 0 THEN Min({m, n}) ELSE Max({m, n})

(* reconcile.lua: the counter is raised or lowered, never below zero.      *)
DrainAlways(b, n) ==   \* mutant: the direction is not looked at
    [inv EXCEPT ![b] = Max({0, Avail(b) - Max({n, 0 - n})})]
AdjustInventory(b, n) == [inv EXCEPT ![b] = Max({0, Avail(b) - n})]

Runs == IF "lost_adjust" \in Faults THEN {1, 2} ELSE {1}

Correct(w, b) ==
    LET n == Sure(seen[w][b], round[w].drift[b]) IN
    /\ round[w].at = "compared"
    /\ b \in round[w].todo
    /\ \E times \in Runs : inv' = AdjustInventory(b, times * n)
    /\ round' = [round EXCEPT ![w].todo = @ \ {b}, ![w].drift[b] = @ - n]
    /\ UNCHANGED seen /\ RoundUnchanged

CorrectFails(w, b) ==
    /\ round[w].at = "compared"
    /\ b \in round[w].todo
    /\ round' = [round EXCEPT ![w].todo = @ \ {b}]
    /\ UNCHANGED <<inv, seen>> /\ RoundUnchanged

EndPass(w) ==
    /\ round[w].at = "compared"
    /\ round[w].todo = {}
    /\ seen' = [seen EXCEPT ![w] = round[w].drift]
    /\ round' = [round EXCEPT ![w] =
           IF Fresh(w) /\ ~@.second THEN [Resting EXCEPT !.at = "confirm"]
                                    ELSE Resting]
    /\ UNCHANGED inv /\ RoundUnchanged

(* A call failed or the round took longer than the interval.               *)
AbandonRound(w) ==
    /\ round[w].at # "idle"
    /\ round' = [round EXCEPT ![w] = Resting]
    /\ UNCHANGED <<inv, seen>> /\ RoundUnchanged

-----------------------------------------------------------------------------
(* SoldOutWatcher.Check.  An empty hash was not seeded yet: nothing to say.*)
SaleState(zero, out) == [stockZero |-> zero, soldOut |-> out]
OnSale == SaleState(FALSE, FALSE)
Unknown == [stockZero |-> FALSE, soldOut |-> TRUE]   \* never a wanted state

Seeded == \E b \in Bucket : inv[b] # Absent
StockZero == Seeded /\ \A b \in Bucket : Avail(b) = 0
Gone == StockZero /\ InRedis = {}

WatchUnchanged == UNCHANGED <<trafficVars, inv, roundVars>>

CheckStock(w) ==
    LET ticks == IF Gone THEN Min({zeroTicks[w] + 1, ConfirmTicks}) ELSE 0
        state == SaleState(StockZero, ticks >= ConfirmTicks)
    IN
    /\ w \in serving
    /\ want[w] = remembered[w]
    /\ zeroTicks' = [zeroTicks EXCEPT ![w] = ticks]
    /\ want' = [want EXCEPT ![w] = IF Seeded THEN state ELSE @]
    /\ UNCHANGED <<remembered, flags>> /\ WatchUnchanged

(* What was not published is published with the next check.                *)
RememberAnyway(w) ==   \* mutant: remembered before the call returned
    /\ want' = want
    /\ remembered' = [remembered EXCEPT ![w] = want[w]]
ForgetWish(w) ==
    /\ want' = [want EXCEPT ![w] = remembered[w]]
    /\ remembered' = remembered

SetSaleState(w) ==
    /\ want[w] # remembered[w]
    /\ \/ /\ flags' = want[w]
          /\ remembered' = [remembered EXCEPT ![w] = want[w]]
          /\ UNCHANGED want
       \/ /\ flags' = IF "lost_flags" \in Faults THEN want[w] ELSE flags
          /\ ForgetWish(w)
    /\ UNCHANGED zeroTicks /\ WatchUnchanged

-----------------------------------------------------------------------------
(* Tickets on their way, and Redis that loses everything, the flags of the *)
(* waiting room included.                                                  *)
DbOnly == UNCHANGED <<gateVars, rows, losses>>
GateOnly == UNCHANGED <<ledgerVars, rows, losses>>

Pass(o) ==
    /\ rhold[o] = "none"
    /\ GateSoldOut(o) \/ \E b \in Bucket : GateAccept(o, b)
    /\ GateOnly

Commit(o) ==
    /\ rhold[o] # "none"
    /\ Claim(o, rbucket[o])
    /\ DbOnly

Settle(o) == (Return(o) \/ Sell(o)) /\ DbOnly

(* Whoever gives a hold up in Redis knows less than Postgres: a request    *)
(* whose commit was answered with an error and a sweeper with an old list  *)
(* release what is claimed or sold; the issuer consumes a hold whose       *)
(* tickets went back to the stock before the payment was seen.             *)
Follow(o) ==
    /\ o \in InRedis
    /\ \/ Release(o)
       \/ claim[o] \in {"sold", "returned"} /\ Consume(o)
    /\ GateOnly

Expire(o) ==
    /\ "expiry" \in Faults
    /\ TimeUp(o)
    /\ GateOnly

(* The seeder, as in HoldFlow.                                             *)
SeedRead ==
    /\ \A b \in Bucket : rows[b] = NoRow
    /\ rows' = Available
    /\ UNCHANGED <<ledgerVars, gateVars, losses>>

SeedWrite(b) ==
    /\ rows[b] # NoRow
    /\ SeedInventory(b, rows[b]) \/ UNCHANGED gateVars
    /\ rows' = [rows EXCEPT ![b] = NoRow]
    /\ UNCHANGED <<ledgerVars, losses>>

LoseRedis ==
    /\ "redis_loss" \in Faults
    /\ losses < MaxLosses
    /\ RedisLoss
    /\ losses' = losses + 1
    /\ UNCHANGED <<ledgerVars, rows>>

Selling ==
    /\ \/ \E o \in Order : \/ Pass(o) \/ Commit(o) \/ Settle(o)
                          \/ Follow(o) \/ Expire(o)
       \/ SeedRead
       \/ \E b \in Bucket : SeedWrite(b)
       \/ LoseRedis
    /\ flags' = IF losses' = losses THEN flags ELSE OnSale
    /\ UNCHANGED <<roundVars, zeroTicks, remembered, want, serving>>

UpkeepInit ==
    /\ GateInit /\ LedgerInit
    /\ serving \in Deployments
    /\ rows = [b \in Bucket |-> NoRow]
    /\ losses = 0
    /\ round = [w \in Reconciler |-> Resting]
    /\ seen = [w \in Reconciler |-> NoDrift]
    /\ zeroTicks = [w \in Watcher |-> 0]
    /\ remembered = [w \in Watcher |-> Unknown]
    /\ want = [w \in Watcher |-> Unknown]
    /\ flags = OnSale

Reconcile(w) ==
    \/ ListInventory(w)
    \/ Compare(w)
    \/ \E b \in Bucket : Correct(w, b) \/ CorrectFails(w, b)
    \/ EndPass(w)
    \/ AbandonRound(w)

UpkeepNext ==
    \/ Selling
    \/ \E w \in Reconciler : Reconcile(w)
    \/ \E w \in Watcher : CheckStock(w) \/ SetSaleState(w)

UpkeepSpec == UpkeepInit /\ [][UpkeepNext]_vars

(* Tickers fire again after a round that failed, and a call that is made   *)
(* again and again does not fail for ever.                                 *)
UpkeepFairness ==
    /\ \A w \in Reconciler :
          /\ SF_vars(ListInventory(w))
          /\ SF_vars(Compare(w))
          /\ \A b \in Bucket : SF_vars(Correct(w, b))
          /\ SF_vars(EndPass(w))
    /\ \A w \in Watcher :
          /\ WF_vars(CheckStock(w))
          /\ SF_vars(SetSaleState(w) /\ remembered' # remembered)

FairUpkeepSpec == UpkeepSpec /\ UpkeepFairness

-----------------------------------------------------------------------------
UpkeepTypeOK ==
    /\ serving \in Deployments
    /\ GateTypeOK
    /\ claim \in [Order -> ClaimStatus]
    /\ rows \in [Bucket -> Nat \cup {NoRow}]
    /\ \A w \in Reconciler :
          /\ round[w].at \in {"idle", "listed", "compared", "confirm"}
          /\ round[w].todo \subseteq Bucket
          /\ \A b \in Bucket : seen[w][b] \in Int
    /\ \A w \in Watcher :
          /\ zeroTicks[w] \in 0..ConfirmTicks
          /\ remembered[w] = Unknown \/ ~remembered[w].soldOut
                \/ remembered[w].stockZero
    /\ flags.soldOut => flags.stockZero

(* EVF-37, the purpose of the reconciler: whatever losses, half done       *)
(* releases, stale seeds and corrections of its own made the two tiers     *)
(* differ, once the traffic rests they come to agree and stay so, as long  *)
(* as a reconciler serves the event.                                       *)
TiersAgree ==
    (Reconciler \cap serving # {} /\ <>[][FALSE]_saleVars)
        => <>[](Drift = NoDrift)

(* BR-Q6: the waiting room learns that the tickets are gone, and that they *)
(* are back, although watchers of several instances write what each of     *)
(* them read a moment ago and their calls fail.  Redis must not have been  *)
(* lost, and a call that failed must not have set the flags after all      *)
(* ("lost_flags"; README, section 4).                                      *)
FlagsRight ==
    (Watcher \cap serving # {} /\ <>[][FALSE]_saleVars)
        => <>[](losses = 0 => flags = SaleState(StockZero, Gone))

-----------------------------------------------------------------------------
(* A correction of a sale at rest does not go past the truth; the client   *)
(* library repeats a call whose reply is late (hazard, README section 4).  *)
NoOvershoot ==
    [][\A b \in Bucket :
          (rhold = rhold' /\ inv' # inv /\ round' # round /\ Drift[b] < 0)
              => Drift'[b] <= 0]_vars

(* What comments say and the code does not keep (README, section 4).       *)

(* inventory_reconciler.go:37-38: what is no drift is never corrected.     *)
NoiseIgnored ==
    [][\A w \in Reconciler, b \in Bucket :
          b \in round[w].todo /\ b \notin round'[w].todo /\ inv'[b] # inv[b]
              => Drift[b] # 0]_vars

(* sold_out_watcher.go:25: the flags come right by the next rounds, also   *)
(* after Redis was lost.                                                   *)
FlagsRightAfterLoss ==
    (Watcher \cap serving # {} /\ <>[][FALSE]_saleVars)
        => <>[](flags = SaleState(StockZero, Gone))
=============================================================================
