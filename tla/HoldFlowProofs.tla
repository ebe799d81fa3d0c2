--------------------------- MODULE HoldFlowProofs ---------------------------
(***************************************************************************)
(* Proofs about a sale through both tiers, for every number of orders,     *)
(* customers, payments, sweepers and buckets.                              *)
(***************************************************************************)
EXTENDS HoldFlow, SaleDatabaseProofs

(* A request that has not passed the gate has left no trace, one behind it *)
(* has a Redis hold in a bucket, and only there is a transaction counting. *)
RequestShape ==
    \A o \in Order :
        /\ pc[o] \in {"idle", "checked"} => rhold[o] = "none"
        /\ pc[o] \in {"idle", "checked", "gated"} => order[o] = "none"
        /\ pc[o] = "gated" => rhold[o] # "none"
        /\ rhold[o] # "none" => rbucket[o] \in Bucket
        /\ counted[o] # NotCounting => pc[o] = "gated"

FlowInv == DbInv /\ FlowTypeOK /\ RequestShape

-----------------------------------------------------------------------------
(* What use cases and workers do to the tables are transactions of         *)
(* SaleDatabase, so all that is proved of those holds of the whole flow.   *)
LEMMA RequestIsDbStep ==
  ASSUME DbTypeOK, RequestShape, NEW o \in Order, Request(o)
  PROVE  [DbNext]_dbVars
<1>1. CASE CountPurchased(o) \/ PersistFail(o) \/ Compensate(o)
  BY <1>1 DEF CountPurchased, PersistFail, Compensate
<1>2. CASE PassGate(o) \/ GateReplyLost(o)
  BY <1>2 DEF PassGate, GateReplyLost
<1>3. CASE PersistCount(o) \/ PersistRollback(o)
  BY <1>3 DEF PersistCount, PersistRollback, DbNext, HoldTx
<1>4. CASE PersistCommit(o)
  BY <1>4 DEF PersistCommit, DbNext, HoldTx, RequestShape
<1>5. CASE RequestCrash(o)
  <2>1. CASE counted[o] # NotCounting
    BY <1>5, <2>1 DEF RequestCrash, DbNext, HoldTx, RollbackHold
  <2>2. CASE counted[o] = NotCounting
    BY <1>5, <2>2 DEF RequestCrash, DbTypeOK, tables, dbVars
  <2> QED
    BY <2>1, <2>2
<1> QED
  BY <1>1, <1>2, <1>3, <1>4, <1>5 DEF Request

(* Every step of a request, worker or seeder commits at most one of the    *)
(* transactions of SaleDatabase.                                           *)
LEMMA FlowStepIsDbStep ==
  ASSUME DbTypeOK, RequestShape, [FlowNext]_vars
  PROVE  [DbNext]_dbVars
<1>1. ASSUME NEW o \in Order, AfterHold(o)
      PROVE  [DbNext]_dbVars
  <2>1. CASE CancelInDb(o)
    BY <2>1 DEF CancelInDb, DbNext, HoldTx
  <2>2. CASE CancelInRedis(o) \/ IssueInRedis(o) \/ Clock(o)
    BY <2>2 DEF CancelInRedis, IssueInRedis, Clock
  <2>3. CASE IssueInDb(o)
    BY <2>3 DEF IssueInDb, DbNext, SettleTx
  <2> QED
    BY <1>1, <2>1, <2>2, <2>3 DEF AfterHold
<1>2. ASSUME NEW w \in Sweeper, Sweep(w)
      PROVE  [DbNext]_dbVars
  BY <1>2 DEF Sweep, Discover, SweepList, SweepInDb, SweepInRedis, SweepFail,
              DbNext, HoldTx
<1>3. CASE SeedRead \/ (\E b \in Bucket : SeedWrite(b)) \/ LoseRedis
  BY <1>3 DEF SeedRead, SeedWrite, LoseRedis
<1>4. CASE PaymentService
  BY <1>4 DEF PaymentService, DbNext, SettleTx
<1>5. CASE UNCHANGED vars
  BY <1>5 DEF vars
<1> QED
  BY <1>1, <1>2, <1>3, <1>4, <1>5, RequestIsDbStep DEF FlowNext

-----------------------------------------------------------------------------
(* The scripts keep the types of the keys.                                 *)
LEMMA GateAcceptTypes ==
  ASSUME GateTypeOK, NEW o \in Order, NEW b \in Bucket, GateAccept(o, b)
  PROVE  GateTypeOK'
<1>1. Qty[o] \in Nat \ {0} /\ Owner[o] \in Identity
  BY OrdersAssumption
<1>2. inv[b] \in Nat /\ inv[b] - Qty[o] \in Nat
  BY <1>1 DEF GateAccept, GateTypeOK, Enough, Avail, Absent
<1> QED
  BY <1>1, <1>2 DEF GateAccept, GateTypeOK, RedisHoldStatus

(* release.lua keeps the types.                                            *)
LEMMA ReleaseTypes ==
  ASSUME GateTypeOK, NEW o \in Order, Release(o) \/ UNCHANGED gateVars,
         rhold[o] # "none" => rbucket[o] \in Bucket
  PROVE  GateTypeOK'
<1>1. Qty[o] \in Nat /\ Owner[o] \in Identity
  BY OrdersAssumption
<1>2. CASE o \in InRedis /\ GiveBack(o)
  <2>1. Avail(rbucket[o]) + Qty[o] \in Nat
    BY <1>1, <1>2 DEF GateTypeOK, InRedis, Avail, Absent
  <2> QED
    BY <1>1, <1>2, <2>1 DEF GateTypeOK, GiveBack, UnmapOwn, RedisHoldStatus
<1>3. CASE UNCHANGED gateVars
  BY <1>3 DEF GateTypeOK, gateVars
<1> QED
  BY <1>2, <1>3 DEF Release

(* So do the calls that change the keys of a hold,                         *)
LEMMA HoldKeysTypes ==
  ASSUME GateTypeOK, NEW o \in Order,
         \/ GateSoldOut(o) \/ GateAlreadyHolding(o)
         \/ Consume(o) \/ TimeUp(o) \/ UNCHANGED gateVars
  PROVE  GateTypeOK'
BY OrdersAssumption
   DEF GateTypeOK, GateSoldOut, GateAlreadyHolding, Consume, TimeUp,
       gateVars, RedisHoldStatus

(* and those that change the counters.                                     *)
LEMMA StockKeysTypes ==
  ASSUME GateTypeOK,
         \/ \E b \in Bucket, n \in Nat : SeedInventory(b, n)
         \/ RedisLoss \/ UNCHANGED gateVars
  PROVE  GateTypeOK'
BY DEF GateTypeOK, SeedInventory, RedisLoss, gateVars, RedisHoldStatus

-----------------------------------------------------------------------------
(* The types of everything, step by step.                                  *)
LEMMA RequestKeepsTypes ==
  ASSUME FlowTypeOK, RequestShape, DbTypeOK', NEW o \in Order, Request(o)
  PROVE  FlowTypeOK'
<1> USE DEF FlowTypeOK, RequestStep, GoTo, RequestOnly
<1>1. CASE CountPurchased(o)
  BY <1>1, HoldKeysTypes DEF CountPurchased
<1>2. CASE PassGate(o)
  BY <1>2, GateAcceptTypes, HoldKeysTypes DEF PassGate
<1>3. CASE GateReplyLost(o)
  BY <1>3, GateAcceptTypes DEF GateReplyLost
<1>4. CASE \/ PersistCount(o) \/ PersistCommit(o) \/ PersistRollback(o)
           \/ PersistFail(o) \/ RequestCrash(o)
  BY <1>4, HoldKeysTypes
     DEF PersistCount, PersistCommit, PersistRollback, PersistFail,
         RequestCrash
<1>5. CASE Compensate(o)
  BY <1>5, ReleaseTypes DEF Compensate, RequestShape
<1> QED
  BY <1>1, <1>2, <1>3, <1>4, <1>5 DEF Request

(* Every step of the flow keeps the types.                                 *)
LEMMA FlowStepTypes ==
  ASSUME FlowTypeOK, RequestShape, DbTypeOK', [FlowNext]_vars
  PROVE  FlowTypeOK'
<1> USE DEF FlowTypeOK
<1>1. ASSUME NEW o \in Order, AfterHold(o)
      PROVE  FlowTypeOK'
  <2>1. CASE CancelInDb(o) \/ IssueInDb(o)
    BY <2>1, HoldKeysTypes DEF CancelInDb, IssueInDb
  <2>2. CASE CancelInRedis(o)
    BY <2>2, ReleaseTypes DEF CancelInRedis, RequestShape
  <2>3. CASE IssueInRedis(o)
    BY <2>3, HoldKeysTypes DEF IssueInRedis
  <2>4. CASE Clock(o)
    BY <2>4, HoldKeysTypes DEF Clock, flowVars
  <2> QED
    BY <1>1, <2>1, <2>2, <2>3, <2>4 DEF AfterHold
<1>2. ASSUME NEW w \in Sweeper, Sweep(w)
      PROVE  FlowTypeOK'
  <2>1. CASE Discover(w) \/ SweepList(w)
    BY <2>1, StockKeysTypes DEF Discover, SweepList, ExpiredHolds, InRedis
  <2>2. ASSUME NEW o \in Order, SweepInDb(w, o)
        PROVE  FlowTypeOK'
    BY <2>2, StockKeysTypes DEF SweepInDb
  <2>3. ASSUME NEW o \in Order, SweepInRedis(w, o)
        PROVE  FlowTypeOK'
    BY <2>3, ReleaseTypes DEF SweepInRedis, RequestShape
  <2>4. CASE SweepFail(w)
    BY <2>4, StockKeysTypes DEF SweepFail
  <2> QED
    BY <1>2, <2>1, <2>2, <2>3, <2>4 DEF Sweep
<1>3. CASE SeedRead
  BY <1>3, StockKeysTypes DEF SeedRead, DbTypeOK
<1>4. ASSUME NEW b \in Bucket, SeedWrite(b)
      PROVE  FlowTypeOK'
  <2>1. rows[b] \in Nat
    BY <1>4 DEF SeedWrite
  <2> QED
    BY <1>4, <2>1, StockKeysTypes DEF SeedWrite
<1>5. CASE LoseRedis
  BY <1>5, StockKeysTypes, FaultsAssumption DEF LoseRedis
<1>6. CASE PaymentService
  BY <1>6, StockKeysTypes DEF PaymentService, flowVars
<1>7. CASE UNCHANGED vars
  BY <1>7, StockKeysTypes DEF vars, flowVars
<1> QED
  BY <1>1, <1>2, <1>3, <1>4, <1>5, <1>6, <1>7, RequestKeepsTypes
     DEF FlowNext

-----------------------------------------------------------------------------
(* Only CommitHold makes an order, and only a count starts to count.       *)
LEMMA OnlyCommitMakesOrders ==
  ASSUME DbInv, NEW o \in Order, order[o] = "none",
         \/ \E q \in Order : \/ ReleaseHold(q) \/ CancelHold(q)
                             \/ SettleTx(q) \/ RollbackHold(q)
                             \/ CountQuota(q)
         \/ \E p \in Payment : PaymentTx(p)
         \/ UNCHANGED dbVars
  PROVE  order'[o] = "none"
<1>1. hold[o] = "none" /\ order \in [Order -> OrderStatus]
  BY DEF DbInv, StockInv, HoldShape, DbTypeOK
<1> QED
  BY <1>1, ConstantTypes
     DEF ReleaseHold, CancelHold, SettleTx, RollbackHold, CountQuota,
         PaymentTx, CreatePaymentAndMarkPending, ProcessPaymentSuccessTx,
         ProcessPaymentFailedTx, ProcessOrderCancellationTx,
         MarkOrderRefundingTx, ProcessRefundSuccessTx, IssueTicketsTx,
         Issuable, ReturnStock, Open, Expire, tables, dbVars,
         ActiveOrderStatuses, SettledOrderStatuses

(* Redis hold and its bucket: written once, by hold.lua.                   *)
LEMMA HoldKeysKept ==
  ASSUME GateTypeOK, NEW o \in Order,
         \/ \E q \in Order : \/ Release(q) \/ Consume(q) \/ TimeUp(q)
                             \/ GateSoldOut(q) \/ GateAlreadyHolding(q)
         \/ \E b \in Bucket, n \in Nat : SeedInventory(b, n)
         \/ RedisLoss
         \/ UNCHANGED gateVars
  PROVE  (rhold'[o] = "none" <=> rhold[o] = "none") /\ rbucket' = rbucket
BY DEF GateTypeOK, Release, GiveBack, InRedis, Consume, TimeUp, GateSoldOut,
       GateAlreadyHolding, SeedInventory, RedisLoss, gateVars

(* A request keeps RequestShape: what it knows of its hold in either tier  *)
(* is what it did there.                                                   *)
LEMMA RequestKeepsShape ==
  ASSUME FlowInv, NEW o \in Order, Request(o)
  PROVE  RequestShape'
<1>0. DbTypeOK /\ GateTypeOK /\ pc \in [Order -> RequestStep]
  BY DEF FlowInv, FlowTypeOK
<1> USE <1>0 DEF FlowInv, RequestShape, RequestStep, GoTo
<1>1. CASE CountPurchased(o)
  BY <1>1 DEF CountPurchased, dbVars, gateVars
<1>2. ASSUME pc[o] = "checked", NEW b \in Bucket, GateAccept(o, b),
             NEW c \in {"gated", "done"}, GoTo(o, c), UNCHANGED dbVars
      PROVE  RequestShape'
  <2>1. counted[o] = NotCounting /\ order[o] = "none"
    BY <1>2
  <2> QED
    BY <1>2, <2>1 DEF GateAccept, GateTypeOK, dbVars
<1>3. ASSUME pc[o] = "checked", GoTo(o, "done"),
             GateSoldOut(o) \/ GateAlreadyHolding(o), UNCHANGED dbVars
      PROVE  RequestShape'
  <2>1. UNCHANGED <<rhold, rbucket>>
    BY <1>3 DEF GateSoldOut, GateAlreadyHolding, gateVars
  <2> QED
    BY <1>3, <2>1 DEF dbVars
<1>4. CASE PassGate(o) \/ GateReplyLost(o)
  BY <1>2, <1>3, <1>4 DEF PassGate, GateReplyLost
<1>5. CASE PersistCount(o)
  BY <1>5 DEF PersistCount, CountQuota, tables, gateVars, DbTypeOK
<1>6. CASE PersistCommit(o)
  BY <1>6 DEF PersistCommit, CommitHold, gateVars, DbTypeOK
<1>7. CASE PersistRollback(o) \/ RequestCrash(o)
  BY <1>7 DEF PersistRollback, RequestCrash, RollbackHold, tables, gateVars,
              DbTypeOK
<1>8. CASE PersistFail(o)
  BY <1>8 DEF PersistFail, dbVars, gateVars
<1>9. CASE Compensate(o)
  <2>1. \A q \in Order : rhold'[q] = "none" <=> rhold[q] = "none"
    BY <1>9, HoldKeysKept DEF Compensate
  <2>2. rbucket' = rbucket
    BY <1>9, HoldKeysKept DEF Compensate
  <2> QED
    BY <1>9, <2>1, <2>2 DEF Compensate, dbVars
<1> QED
  BY <1>1, <1>4, <1>5, <1>6, <1>7, <1>8, <1>9 DEF Request

(* Nobody but the request itself changes how far it got.                   *)
LEMMA OthersKeepShape ==
  ASSUME FlowInv, [FlowNext]_vars, ~ \E o \in Order : Request(o)
  PROVE  RequestShape'
<1>0. /\ DbTypeOK /\ GateTypeOK /\ pc \in [Order -> RequestStep]
      /\ rows \in [Bucket -> Nat \cup {NoRow}]
  BY DEF FlowInv, FlowTypeOK
<1>1. pc' = pc /\ counted' = counted
  BY DEF FlowNext, AfterHold, CancelInDb, CancelInRedis, IssueInDb,
         IssueInRedis, Clock, Sweep, Discover, SweepList, SweepInDb,
         SweepInRedis, SweepFail, SeedRead, SeedWrite, LoseRedis,
         PaymentService, flowVars, vars, dbVars, CancelHold, ReleaseHold,
         IssueTicketsTx, PaymentTx, CreatePaymentAndMarkPending,
         ProcessPaymentSuccessTx, ProcessPaymentFailedTx,
         ProcessOrderCancellationTx, MarkOrderRefundingTx,
         ProcessRefundSuccessTx
<1>2. ASSUME NEW o \in Order, order[o] = "none"
      PROVE  order'[o] = "none"
  <2>1. \/ \E q \in Order : \/ ReleaseHold(q) \/ CancelHold(q)
                            \/ SettleTx(q)
        \/ \E p \in Payment : PaymentTx(p)
        \/ UNCHANGED dbVars
    BY DEF FlowNext, AfterHold, CancelInDb, CancelInRedis, IssueInDb,
           IssueInRedis, Clock, Sweep, Discover, SweepList, SweepInDb,
           SweepInRedis, SweepFail, SeedRead, SeedWrite, LoseRedis,
           PaymentService, SettleTx, vars
  <2> QED
    BY <1>2, <2>1, OnlyCommitMakesOrders DEF FlowInv
<1>3. /\ \A o \in Order : rhold'[o] = "none" <=> rhold[o] = "none"
      /\ rbucket' = rbucket
  <2>1. \/ \E q \in Order : Release(q) \/ Consume(q) \/ TimeUp(q)
        \/ \E b \in Bucket, n \in Nat : SeedInventory(b, n)
        \/ RedisLoss
        \/ UNCHANGED gateVars
    BY <1>0 DEF FlowNext, AfterHold, CancelInDb, CancelInRedis, IssueInDb,
           IssueInRedis, Clock, Sweep, Discover, SweepList, SweepInDb,
           SweepInRedis, SweepFail, SeedRead, SeedWrite, LoseRedis,
           PaymentService, vars
  <2>2. CASE Order = {}
    BY <1>0, <2>1, <2>2 DEF GateTypeOK, RedisLoss, SeedInventory, gateVars
  <2>3. CASE Order # {}
    BY <1>0, <2>1, <2>3, HoldKeysKept
  <2> QED
    BY <2>2, <2>3
<1> QED
  BY <1>1, <1>2, <1>3 DEF FlowInv, RequestShape

(* Before the first request.                                               *)
LEMMA FlowInitially == FlowInit => FlowInv
<1> SUFFICES ASSUME FlowInit
             PROVE  FlowInv
  OBVIOUS
<1>1. DbInv
  BY DbInitInv DEF FlowInit
<1>2. FlowTypeOK
  BY <1>1, FaultsAssumption
     DEF FlowInit, GateInit, FlowTypeOK, GateTypeOK, DbInv, StockInv,
         RequestStep, RedisHoldStatus
<1>3. RequestShape
  BY DEF FlowInit, GateInit, DbInit, RequestShape
<1> QED
  BY <1>1, <1>2, <1>3 DEF FlowInv

(* The invariant is inductive.                                             *)
LEMMA FlowStep ==
  ASSUME FlowInv, [FlowNext]_vars
  PROVE  FlowInv'
<1>1. DbInv' /\ DbTypeOK'
  BY FlowStepIsDbStep, DbStepKeepsInv DEF FlowInv, DbInv, StockInv
<1>2. FlowTypeOK'
  BY <1>1, FlowStepTypes DEF FlowInv
<1>3. RequestShape'
  BY RequestKeepsShape, OthersKeepShape
<1> QED
  BY <1>1, <1>2, <1>3 DEF FlowInv

(* The invariant of the whole flow, with every fault and every loss.       *)
THEOREM FlowInvariant == FlowSpec => []FlowInv
<1> QED
  BY FlowInitially, FlowStep, PTL DEF FlowSpec

(* Every call that create_hold.go, the sweeper, cancellation, issuing and  *)
(* the seeder make leaves both tiers with the types they have.             *)
THEOREM FlowTypes == FlowSpec => []FlowTypeOK
BY FlowInvariant, PTL DEF FlowInv

(* What use cases, workers and the payment service do to the tables are    *)
(* transactions of SaleDatabase: everything proved of these holds with     *)
(* Redis, its losses and all crashes around them.                          *)
THEOREM FlowImplementsDb == FlowSpec => DbSpec
<1>1. FlowInit => DbInit
  BY DEF FlowInit
<1>2. FlowInv /\ [FlowNext]_vars => [DbNext]_dbVars
  BY FlowStepIsDbStep DEF FlowInv, FlowTypeOK
<1> QED
  BY <1>1, <1>2, FlowInvariant, PTL DEF FlowSpec, DbSpec

(* So in every run of the flow, whatever Redis loses and whoever crashes,  *)
(* the sale tables implement the stock ledger, every seat is counted once, *)
(* holds and orders agree, and no order gets its tickets twice.            *)
THEOREM FlowImplementsStock ==
  FlowSpec => /\ ImplementsLedger
              /\ [](Conservation /\ HoldMatchesOrder /\ IssuedOnce)
BY FlowImplementsDb, DatabaseImplementsLedger, StockIsConserved,
   HoldsMatchOrders, TicketsIssuedOnce, PTL

-----------------------------------------------------------------------------
(* Postgres first, Redis second.  Redis gives a hold up only after the     *)
(* hold in Postgres has ended, or will never begin: the ids a worker has   *)
(* in hand, and a request that compensates, are such holds.  A sweeper     *)
(* sees expired holds only, and no request is slower than its hold.        *)
HandsOff ==
    \A o \in Order :
        /\ hold[o] = "open" => rhold[o] = "held"
        /\ pc[o] = "gated" => rhold[o] = "held"
        /\ pc[o] = "compensate" => order[o] = "none"
        /\ o \in expired => pc[o] = "done"
        /\ order[o] = "ISSUED" => hold[o] # "open"
        /\ o \in cancelling => hold[o] = "released"
        /\ o \in issuing => hold[o] \in {"released", "consumed"}
        /\ \A w \in Sweeper :
              /\ o \in listed[w] \cup swept[w] => pc[o] = "done"
              /\ o \in swept[w] => hold[o] # "open"

(* What the transactions do to one hold: it ends for good, it opens with   *)
(* its order, and an order that is issued has consumed it.                 *)
LEMMA DbHoldMoves ==
  ASSUME DbInv, [DbNext]_dbVars, NEW o \in Order
  PROVE  /\ hold[o] \in {"released", "consumed"} => hold'[o] = hold[o]
         /\ hold'[o] = "open" => hold[o] = "open" \/ order[o] = "none"
         /\ order'[o] = "ISSUED" => order[o] = "ISSUED" \/ hold'[o] # "open"
         /\ order[o] # "none" => order'[o] # "none"
<1>0. DbTypeOK /\ HoldShape
  BY DEF DbInv, StockInv
<1> USE <1>0, ConstantTypes DEF DbTypeOK, HoldShape
<1>1. ASSUME NEW q \in Order, HoldTx(q)
      PROVE  /\ hold[o] \in {"released", "consumed"} => hold'[o] = hold[o]
             /\ hold'[o] = "open" => hold[o] = "open" \/ order[o] = "none"
             /\ order'[o] = "ISSUED" => order[o] = "ISSUED"
             /\ order[o] # "none" => order'[o] # "none"
  BY <1>1 DEF HoldTx, CountQuota, CommitHold, RollbackHold, ReleaseHold,
     CancelHold, ReturnStock, Open, Expire, tables
<1>2. ASSUME NEW p \in Payment, PaymentTx(p)
      PROVE  /\ hold' = hold
             /\ order'[o] = "ISSUED" => order[o] = "ISSUED"
             /\ order[o] # "none" => order'[o] # "none"
  BY <1>2 DEF PaymentTx, CreatePaymentAndMarkPending,
     ProcessPaymentSuccessTx, ProcessPaymentFailedTx
<1>3. ASSUME NEW q \in Order, SettleTx(q)
      PROVE  /\ hold[o] \in {"released", "consumed"} => hold'[o] = hold[o]
             /\ hold'[o] = "open" => hold[o] = "open"
             /\ order'[o] = "ISSUED" =>
                   order[o] = "ISSUED" \/ hold'[o] # "open"
             /\ order[o] # "none" => order'[o] # "none"
  BY <1>3 DEF SettleTx, ProcessOrderCancellationTx, MarkOrderRefundingTx,
     ProcessRefundSuccessTx, IssueTicketsTx, ReturnStock, KeepStock, Open,
     ConsumeOpen
<1> QED
  BY <1>1, <1>2, <1>3 DEF DbNext, dbVars

(* A request does not take a hold out of Redis that it has committed.      *)
LEMMA RequestKeepsHandsOff ==
  ASSUME FlowInv, FlowInv', HandsOff,
         Faults \subseteq {"lost_reply", "closing"}, NEW o \in Order, Request(o)
  PROVE  HandsOff'
<1>0. /\ DbInv /\ GateTypeOK /\ pc \in [Order -> RequestStep]
      /\ HoldShape /\ RequestShape /\ DbTypeOK
  BY DEF FlowInv, FlowTypeOK, DbInv, StockInv
<1> USE <1>0 DEF HandsOff, RequestStep, GoTo, RequestOnly, RequestShape,
                 HoldShape
<1>1. CASE CountPurchased(o) \/ PersistFail(o)
  BY <1>1 DEF CountPurchased, PersistFail, dbVars, gateVars
<1>2. ASSUME pc[o] = "checked", NEW b \in Bucket, GateAccept(o, b),
             NEW c \in {"gated", "done"}, GoTo(o, c), UNCHANGED dbVars,
             RequestOnly
      PROVE  HandsOff'
  BY <1>2 DEF GateAccept, GateTypeOK, dbVars
<1>3. ASSUME pc[o] = "checked", GoTo(o, "done"),
             GateSoldOut(o) \/ GateAlreadyHolding(o), UNCHANGED dbVars,
             RequestOnly
      PROVE  HandsOff'
  <2>1. UNCHANGED <<rhold, expired>>
    BY <1>3 DEF GateSoldOut, GateAlreadyHolding, gateVars
  <2> QED
    BY <1>3, <2>1 DEF dbVars
<1>4. CASE PassGate(o) \/ GateReplyLost(o)
  BY <1>2, <1>3, <1>4 DEF PassGate, GateReplyLost
<1>5. CASE PersistCount(o)
  BY <1>5 DEF PersistCount, CountQuota, tables, gateVars
<1>6. CASE PersistCommit(o)
  <2>1. /\ pc[o] = "gated" /\ pc' = [pc EXCEPT ![o] = "done"]
        /\ hold' = [hold EXCEPT ![o] = "open"]
        /\ order' = [order EXCEPT ![o] = "HELD"]
    BY <1>6 DEF PersistCommit, CommitHold
  <2> QED
    BY <1>6, <2>1 DEF PersistCommit, gateVars, DbTypeOK
<1>7. CASE PersistRollback(o) \/ RequestCrash(o)
  BY <1>7 DEF PersistRollback, RequestCrash, RollbackHold, tables, gateVars
<1>8. CASE Compensate(o)
  <2>1. \A q \in Order : q # o => rhold'[q] = rhold[q]
    BY <1>8 DEF Compensate, Release, GiveBack, GateTypeOK, gateVars
  <2>2. expired' = expired /\ hold[o] = "none"
    BY <1>8 DEF Compensate, Release, GiveBack, gateVars
  <2> QED
    BY <1>8, <2>1, <2>2 DEF Compensate, dbVars
<1> QED
  BY <1>1, <1>4, <1>5, <1>6, <1>7, <1>8 DEF Request

(* Nobody else does so before the hold has ended in Postgres.              *)
LEMMA OthersKeepHandsOff ==
  ASSUME FlowInv, HandsOff, Faults \subseteq {"lost_reply", "closing"},
         [FlowNext]_vars, ~ \E o \in Order : Request(o)
  PROVE  HandsOff'
<1>0. /\ DbInv /\ GateTypeOK /\ RequestShape /\ HoldShape /\ DbTypeOK
      /\ pc \in [Order -> RequestStep]
      /\ listed \in [Sweeper -> SUBSET Order]
      /\ swept \in [Sweeper -> SUBSET Order]
  BY DEF FlowInv, FlowTypeOK, DbInv, StockInv
<1>1. [DbNext]_dbVars
  BY <1>0, FlowStepIsDbStep
<1>2. \A o \in Order :
         /\ hold[o] \in {"released", "consumed"} => hold'[o] = hold[o]
         /\ hold'[o] = "open" => hold[o] = "open" \/ order[o] = "none"
         /\ order'[o] = "ISSUED" => order[o] = "ISSUED" \/ hold'[o] # "open"
         /\ order[o] # "none" => order'[o] # "none"
  BY <1>0, <1>1, DbHoldMoves
<1> USE <1>0, <1>2 DEF HandsOff, RequestShape, HoldShape, GateTypeOK
<1>3. ASSUME NEW q \in Order, order[q] = "none"
      PROVE  order'[q] = "none" /\ hold'[q] # "open"
  <2>1. \/ \E o \in Order : ReleaseHold(o) \/ CancelHold(o) \/ SettleTx(o)
        \/ \E p \in Payment : PaymentTx(p)
        \/ UNCHANGED dbVars
    BY DEF FlowNext, AfterHold, CancelInDb, CancelInRedis, IssueInDb,
           IssueInRedis, Clock, Sweep, Discover, SweepList, SweepInDb,
           SweepInRedis, SweepFail, SeedRead, SeedWrite, LoseRedis,
           PaymentService, SettleTx, vars
  <2>2. order'[q] = "none"
    BY <1>3, <2>1, OnlyCommitMakesOrders
  <2>3. HoldShape'
    BY <1>1, DbStepKeepsInv DEF DbInv, StockInv
  <2> QED
    BY <2>2, <2>3
<1>4. ASSUME NEW o \in Order, AfterHold(o)
      PROVE  HandsOff'
  <2>1. CASE CancelInDb(o)
    <3>1. hold'[o] = "released"
      BY <2>1 DEF CancelInDb, CancelHold, ReturnStock, DbTypeOK, dbVars
    <3> QED
      BY <1>3, <2>1, <3>1 DEF CancelInDb, gateVars
  <2>2. ASSUME NEW q \in Order, q # o, CancelInRedis(o) \/ IssueInRedis(o)
        PROVE  rhold'[q] = rhold[q]
    BY <2>2 DEF CancelInRedis, IssueInRedis, Release, GiveBack, Consume,
                gateVars
  <2>3. CASE CancelInRedis(o) \/ IssueInRedis(o)
    <3>1. hold[o] \in {"released", "consumed"} /\ expired' = expired
      BY <2>3 DEF CancelInRedis, IssueInRedis, Release, GiveBack, Consume,
                  gateVars
    <3>2. order[o] # "none"
      BY <3>1
    <3> QED
      BY <1>3, <2>2, <2>3, <3>1, <3>2
         DEF CancelInRedis, IssueInRedis, dbVars
  <2>4. CASE IssueInDb(o)
    <3>1. hold'[o] \in {"released", "consumed"}
      <4>1. hold[o] # "none" /\ hold \in [Order -> HoldStatus]
        BY <2>4 DEF IssueInDb, IssueTicketsTx, Issuable, DbTypeOK
      <4> QED
        BY <2>4, <4>1 DEF IssueInDb, IssueTicketsTx, ConsumeOpen, HoldStatus,
                          dbVars
    <3> QED
      BY <1>3, <2>4, <3>1 DEF IssueInDb, gateVars
  <2>5. CASE Clock(o)
    BY <2>5 DEF Clock, TimeUp, dbVars, flowVars
  <2> QED
    BY <1>4, <2>1, <2>3, <2>4, <2>5 DEF AfterHold
<1>5. ASSUME NEW w \in Sweeper, Sweep(w)
      PROVE  HandsOff'
  <2>1. CASE Discover(w) \/ SweepList(w)
    BY <2>1 DEF Discover, SweepList, ExpiredHolds, dbVars, gateVars
  <2>2. ASSUME NEW o \in Order, SweepInDb(w, o)
        PROVE  HandsOff'
    <3>1. hold'[o] # "open" /\ pc[o] = "done"
      BY <2>2 DEF SweepInDb, ReleaseHold, ReturnStock, DbTypeOK, dbVars
    <3> QED
      BY <1>3, <2>2, <3>1 DEF SweepInDb, gateVars
  <2>3. ASSUME NEW o \in Order, SweepInRedis(w, o)
        PROVE  HandsOff'
    <3>1. hold[o] # "open" /\ pc[o] = "done" /\ expired' = expired
      BY <2>3 DEF SweepInRedis, Release, GiveBack, gateVars
    <3>2. \A q \in Order : q # o => rhold'[q] = rhold[q]
      BY <2>3 DEF SweepInRedis, Release, GiveBack, gateVars
    <3> QED
      BY <2>3, <3>1, <3>2 DEF SweepInRedis, dbVars
  <2>4. CASE SweepFail(w)
    BY <2>4 DEF SweepFail, dbVars, gateVars
  <2> QED
    BY <1>5, <2>1, <2>2, <2>3, <2>4 DEF Sweep
<1>6. CASE SeedRead \/ \E b \in Bucket : SeedWrite(b)
  BY <1>6 DEF SeedRead, SeedWrite, SeedInventory, dbVars, gateVars
<1>7. CASE PaymentService \/ UNCHANGED vars
  BY <1>3, <1>7 DEF PaymentService, vars, flowVars, gateVars, dbVars
<1> QED
  BY <1>4, <1>5, <1>6, <1>7 DEF FlowNext, LoseRedis

(* For any sale: while Postgres sets tickets aside for a customer who has  *)
(* not paid, Redis offers them to nobody else, whatever crashes and failed *)
(* calls do to the processes, and also when the event leaves the sale;     *)
(* Redis must keep its keys, PersistHold must not fail after its commit,   *)
(* and no request outlive its hold (the fault model's other three events,  *)
(* each of which does break the property).                                 *)
THEOREM OpenHoldsAreGated ==
  ASSUME Faults \subseteq {"lost_reply", "closing"}
  PROVE  FlowSpec => []OpenHoldIsGated
<1>1. FlowInit => HandsOff
  BY DEF FlowInit, DbInit, GateInit, HandsOff
<1>2. FlowInv /\ FlowInv' /\ HandsOff /\ [FlowNext]_vars => HandsOff'
  BY RequestKeepsHandsOff, OthersKeepHandsOff
<1>3. HandsOff => OpenHoldIsGated
  BY DEF HandsOff, OpenHoldIsGated
<1> QED
  BY <1>1, <1>2, <1>3, FlowInvariant, PTL DEF FlowSpec
-----------------------------------------------------------------------------
(* The gate's own books, as long as Redis keeps its keys.                  *)
GateClaimants(b) ==
    {o \in Order : rhold[o] \in {"held", "consumed"} /\ rbucket[o] = b}

(* A bucket that was never seeded has no holds, in Redis or in Postgres,   *)
(* so whatever row of it a seeder has in hand says its full capacity.      *)
Unsold ==
    /\ \A o \in Order :
          /\ rhold[o] # "none" => inv[rbucket[o]] # Absent
          /\ hold[o] # "none" => rhold[o] # "none" /\ bucket[o] = rbucket[o]
    /\ \A b \in Bucket :
          rows[b] # NoRow /\ inv[b] = Absent => rows[b] = Capacity[b]

GateBooks == Unsold /\ GateConservation

(* GateConservation with its sum written over the claimants of a bucket.   *)
LEMMA GateBooksForm ==
  GateConservation <=>
      \A b \in Bucket :
          inv[b] # Absent =>
              inv[b] + Tickets(GateClaimants(b)) = Capacity[b]
BY DEF GateConservation, GateClaimants

(* The claimants are orders, so they have a number of tickets.             *)
LEMMA GateClaimantsType ==
  ASSUME NEW b \in Bucket
  PROVE  /\ GateClaimants(b) \in SUBSET Order
         /\ Tickets(GateClaimants(b)) \in Nat
BY TicketsType DEF GateClaimants

(* Each script keeps the books.                                            *)
LEMMA GateAcceptKeepsBooks ==
  ASSUME GateTypeOK, GateConservation, NEW o \in Order, NEW b \in Bucket,
         rhold[o] = "none", GateAccept(o, b)
  PROVE  GateConservation' /\ inv[b] # Absent
<1>1. Qty[o] \in Nat \ {0} /\ Capacity \in [Bucket -> Nat]
  BY OrdersAssumption
<1>2. /\ inv[b] \in Nat /\ inv[b] # Absent
      /\ inv' = [inv EXCEPT ![b] = @ - Qty[o]]
      /\ rhold' = [rhold EXCEPT ![o] = "held"]
      /\ rbucket' = [rbucket EXCEPT ![o] = b]
  BY <1>1 DEF GateAccept, GateTypeOK, Enough, Avail, Absent
<1>3. ASSUME NEW c \in Bucket, inv'[c] # Absent
      PROVE  inv'[c] + Tickets(GateClaimants(c)') = Capacity[c]
  <2>1. CASE c = b
    <3>1. GateClaimants(c)' = GateClaimants(c) \cup {o}
      BY <1>2, <2>1 DEF GateClaimants, GateTypeOK
    <3>2. o \notin GateClaimants(c)
      BY DEF GateClaimants
    <3>3. Tickets(GateClaimants(c)')
            = Tickets(GateClaimants(c)) + Qty[o]
      BY <3>1, <3>2, GateClaimantsType, TicketsAdd
    <3>4. inv[c] + Tickets(GateClaimants(c)) = Capacity[c]
      BY <1>2, <2>1, GateBooksForm
    <3>5. inv'[c] = inv[c] - Qty[o]
      BY <1>2, <2>1 DEF GateTypeOK
    <3> QED
      BY <1>1, <1>2, <2>1, <3>3, <3>4, <3>5, GateClaimantsType
  <2>2. CASE c # b
    <3>1. GateClaimants(c)' = GateClaimants(c) /\ inv'[c] = inv[c]
      BY <1>2, <2>2 DEF GateClaimants, GateTypeOK
    <3> QED
      BY <1>3, <3>1, GateBooksForm
  <2> QED
    BY <2>1, <2>2
<1> QED
  BY <1>2, <1>3 DEF GateConservation, GateClaimants

(* A hold that release.lua removes adds to the counter what it claimed.    *)
LEMMA GiveBackKeepsBooks ==
  ASSUME GateTypeOK, GateConservation, NEW o \in InRedis, GiveBack(o),
         rbucket[o] \in Bucket, inv[rbucket[o]] # Absent
  PROVE  GateConservation'
<1> DEFINE b == rbucket[o]
<1>1. Qty[o] \in Nat \ {0} /\ Capacity \in [Bucket -> Nat] /\ o \in Order
  BY OrdersAssumption DEF InRedis
<1>2. /\ inv[b] \in Nat /\ rhold[o] = "held" /\ rbucket' = rbucket
      /\ inv' = [inv EXCEPT ![b] = inv[b] + Qty[o]]
      /\ rhold' = [rhold EXCEPT ![o] = "released"]
  BY DEF GiveBack, GateTypeOK, Avail, InRedis
<1>3. ASSUME NEW c \in Bucket, inv'[c] # Absent
      PROVE  inv'[c] + Tickets(GateClaimants(c)') = Capacity[c]
  <2>1. CASE c = b
    <3>1. /\ GateClaimants(c)' = GateClaimants(c) \ {o}
          /\ o \in GateClaimants(c)
      BY <1>1, <1>2, <2>1 DEF GateClaimants, GateTypeOK
    <3>2. Tickets(GateClaimants(c)')
            = Tickets(GateClaimants(c)) - Qty[o]
      BY <3>1, GateClaimantsType, TicketsRemove
    <3>3. inv[c] + Tickets(GateClaimants(c)) = Capacity[c]
      BY <2>1, GateBooksForm
    <3>4. inv'[c] = inv[c] + Qty[o]
      BY <1>2, <2>1 DEF GateTypeOK
    <3> QED
      BY <1>1, <1>2, <2>1, <3>2, <3>3, <3>4, GateClaimantsType
  <2>2. CASE c # b
    <3>1. GateClaimants(c)' = GateClaimants(c) /\ inv'[c] = inv[c]
      BY <1>2, <2>2 DEF GateClaimants, GateTypeOK
    <3> QED
      BY <1>3, <3>1, GateBooksForm
  <2> QED
    BY <2>1, <2>2
<1> QED
  BY <1>3 DEF GateConservation, GateClaimants

(* HSETNX of a row of Postgres starts the books of an absent counter.      *)
LEMMA SeedKeepsBooks ==
  ASSUME GateTypeOK, GateBooks, NEW b \in Bucket, rows[b] # NoRow,
         SeedInventory(b, rows[b])
  PROVE  GateConservation'
<1>1. ASSUME NEW c \in Bucket, inv'[c] # Absent
      PROVE  inv'[c] + Tickets(GateClaimants(c)') = Capacity[c]
  <2>1. GateClaimants(c)' = GateClaimants(c)
    BY DEF SeedInventory, GateClaimants
  <2>2. CASE inv[c] # Absent
    <3>1. inv'[c] = inv[c]
      BY <2>2 DEF SeedInventory, GateTypeOK
    <3> QED
      BY <2>1, <2>2, <3>1, GateBooksForm DEF GateBooks
  <2>3. CASE inv[c] = Absent
    <3>1. inv'[c] = Capacity[c]
      BY <1>1, <2>3 DEF SeedInventory, GateTypeOK, GateBooks, Unsold
    <3>2. GateClaimants(c) = {}
      BY <2>3 DEF GateClaimants, GateBooks, Unsold
    <3> QED
      BY <2>1, <3>1, <3>2, TicketsEmpty, OrdersAssumption
  <2> QED
    BY <2>2, <2>3
<1> QED
  BY <1>1 DEF GateConservation, GateClaimants
-----------------------------------------------------------------------------
(* What a step of the flow does to the stock and the holds of the gate.    *)
GateMove ==
    \/ \E o \in Order, b \in Bucket :
          /\ rhold[o] = "none" /\ hold[o] = "none" /\ GateAccept(o, b)
          /\ UNCHANGED <<dbVars, rows>>
    \/ \E o \in InRedis : GiveBack(o) /\ UNCHANGED <<dbVars, rows>>
    \/ \E o \in Order : Consume(o) /\ UNCHANGED <<dbVars, rows>>
    \/ \E b \in Bucket :
          /\ rows[b] # NoRow /\ SeedInventory(b, rows[b])
          /\ rows' = [rows EXCEPT ![b] = NoRow]
          /\ UNCHANGED dbVars

(* What a step of the flow can do to the counters and holds of Redis.      *)
LEMMA GateMoves ==
  ASSUME FlowInv, "redis_loss" \notin Faults, [FlowNext]_vars
  PROVE  GateMove \/ UNCHANGED <<inv, rhold, rbucket>>
<1>0. RequestShape /\ HoldShape
  BY DEF FlowInv, DbInv, StockInv
<1>1. ASSUME NEW o \in Order, Release(o) \/ UNCHANGED gateVars,
             UNCHANGED <<dbVars, rows>>
      PROVE  GateMove \/ UNCHANGED <<inv, rhold, rbucket>>
  BY <1>1 DEF Release, GateMove, gateVars
<1>2. ASSUME NEW o \in Order, Request(o)
      PROVE  GateMove \/ UNCHANGED <<inv, rhold, rbucket>>
  <2>1. ASSUME NEW b \in Bucket, pc[o] = "checked", GateAccept(o, b),
               RequestOnly, UNCHANGED dbVars
        PROVE  GateMove
    BY <1>0, <2>1 DEF RequestShape, HoldShape, GateMove, RequestOnly
  <2>2. CASE PassGate(o) \/ GateReplyLost(o)
    BY <2>1, <2>2 DEF PassGate, GateReplyLost, GateSoldOut,
                      GateAlreadyHolding, gateVars
  <2>3. CASE Compensate(o)
    BY <1>1, <2>3 DEF Compensate, RequestOnly
  <2> QED
    BY <1>2, <2>2, <2>3
       DEF Request, CountPurchased, PersistCount, PersistCommit,
           PersistRollback, PersistFail, RequestCrash, gateVars
<1>3. ASSUME NEW o \in Order, AfterHold(o)
      PROVE  GateMove \/ UNCHANGED <<inv, rhold, rbucket>>
  <2>1. CASE CancelInRedis(o)
    BY <1>1, <2>1 DEF CancelInRedis
  <2>2. CASE IssueInRedis(o)
    BY <2>2 DEF IssueInRedis, GateMove, gateVars
  <2> QED
    BY <1>3, <2>1, <2>2 DEF AfterHold, CancelInDb, IssueInDb, Clock, TimeUp,
       gateVars
<1>4. ASSUME NEW w \in Sweeper, Sweep(w)
      PROVE  GateMove \/ UNCHANGED <<inv, rhold, rbucket>>
  BY <1>1, <1>4 DEF Sweep, Discover, SweepList, SweepInDb, SweepInRedis,
                    SweepFail, gateVars
<1>5. ASSUME NEW b \in Bucket, SeedWrite(b)
      PROVE  GateMove \/ UNCHANGED <<inv, rhold, rbucket>>
  BY <1>5 DEF SeedWrite, GateMove, gateVars
<1>6. CASE SeedRead \/ PaymentService \/ UNCHANGED vars
  BY <1>6 DEF SeedRead, PaymentService, vars, gateVars
<1> QED
  BY <1>2, <1>3, <1>4, <1>5, <1>6 DEF FlowNext, LoseRedis

(* When the gate stands still, a hold may open in Postgres, in the bucket  *)
(* Redis has chosen for it, and a seeder may read what is there.           *)
LEMMA DbKeepsUnsold ==
  ASSUME FlowInv, Unsold, [FlowNext]_vars, UNCHANGED <<inv, rhold, rbucket>>
  PROVE  Unsold'
<1>0. /\ DbInv /\ DbInv' /\ RequestShape /\ HoldShape /\ DbTypeOK
      /\ GateTypeOK /\ Conservation
  BY FlowStep DEF FlowInv, FlowTypeOK, DbInv, StockInv
<1>1. ASSUME NEW o \in Order, hold'[o] # "none"
      PROVE  rhold[o] # "none" /\ bucket'[o] = rbucket[o]
  <2>1. CASE \E q \in Order : PersistCommit(q)
    BY <1>0, <1>1, <2>1 DEF PersistCommit, CommitHold, RequestShape, Unsold,
                            DbTypeOK
  <2>2. CASE ~ \E q \in Order : PersistCommit(q)
    <3>1. \/ \E q \in Order : \/ ReleaseHold(q) \/ CancelHold(q)
                              \/ SettleTx(q) \/ RollbackHold(q)
                              \/ CountQuota(q)
          \/ \E p \in Payment : PaymentTx(p)
          \/ counted' = counted /\ UNCHANGED tables
          \/ \E q \in Order : RequestCrash(q)
      BY <2>2 DEF FlowNext, Request, CountPurchased, PassGate,
             GateReplyLost, PersistCount, PersistRollback, PersistFail,
             Compensate, AfterHold, CancelInDb, CancelInRedis,
             IssueInDb, IssueInRedis, Clock, Sweep, Discover, SweepList,
             SweepInDb, SweepInRedis, SweepFail, SeedRead, SeedWrite,
             LoseRedis, PaymentService, SettleTx, vars, dbVars, tables
    <3>2. bucket' = bucket
      BY <3>1 DEF ReleaseHold, CancelHold, SettleTx, RollbackHold,
         CountQuota, PaymentTx, CreatePaymentAndMarkPending,
         ProcessPaymentSuccessTx, ProcessPaymentFailedTx,
         ProcessOrderCancellationTx, MarkOrderRefundingTx,
         ProcessRefundSuccessTx, IssueTicketsTx, RequestCrash, tables
    <3>3. CASE order[o] = "none"
      <4>1. order'[o] = "none"
        <5>1. CASE \E q \in Order : RequestCrash(q)
          BY <3>3, <5>1 DEF RequestCrash, tables
        <5>2. CASE counted' = counted /\ UNCHANGED tables
          BY <3>3, <5>2 DEF tables
        <5> QED
          BY <1>0, <3>1, <3>3, <5>1, <5>2, OnlyCommitMakesOrders
      <4> QED
        BY <1>0, <1>1, <4>1 DEF DbInv, StockInv, HoldShape
    <3>4. CASE order[o] # "none"
      BY <1>0, <3>2, <3>4 DEF HoldShape, Unsold
    <3> QED
      BY <3>3, <3>4
  <2> QED
    BY <2>1, <2>2
<1>2. ASSUME NEW b \in Bucket, rows'[b] # NoRow, inv[b] = Absent
      PROVE  rows'[b] = Capacity[b]
  <2>1. CASE SeedRead
    <3>1. Claimants(b) = {}
      BY <1>2 DEF Claimants, Unsold
    <3>2. available[b] + 0 = Capacity[b]
      BY <1>0, <3>1, TicketsEmpty DEF Conservation
    <3> QED
      BY <1>0, <2>1, <3>2 DEF SeedRead, DbTypeOK
  <2>2. CASE \/ rows' = rows
             \/ \E c \in Bucket : rows' = [rows EXCEPT ![c] = NoRow]
    BY <1>2, <2>2 DEF Unsold, FlowInv, FlowTypeOK
  <2> QED
    BY <2>1, <2>2 DEF FlowNext, Request, CountPurchased, PassGate,
       GateReplyLost, PersistCount, PersistCommit, PersistRollback,
       PersistFail, Compensate, RequestCrash, RequestOnly, AfterHold,
       CancelInDb, CancelInRedis, IssueInDb, IssueInRedis, Clock, Sweep,
       Discover, SweepList, SweepInDb, SweepInRedis, SweepFail, SeedWrite,
       LoseRedis, PaymentService, flowVars, vars
<1> QED
  BY <1>1, <1>2 DEF Unsold

(* The books of Redis are inductive while it keeps its memory.             *)
LEMMA FlowKeepsGateBooks ==
  ASSUME FlowInv, GateBooks, "redis_loss" \notin Faults, [FlowNext]_vars
  PROVE  GateBooks'
<1>0. GateTypeOK /\ RequestShape /\ rows \in [Bucket -> Nat \cup {NoRow}]
  BY DEF FlowInv, FlowTypeOK
<1> USE <1>0 DEF GateBooks
<1>1. ASSUME NEW o \in Order, NEW b \in Bucket,
             rhold[o] = "none", hold[o] = "none", GateAccept(o, b),
             UNCHANGED <<dbVars, rows>>
      PROVE  GateBooks'
  <2>1. GateConservation' /\ inv[b] # Absent
    BY <1>1, GateAcceptKeepsBooks
  <2>0. Qty[o] \in Nat
    BY OrdersAssumption
  <2>2. inv[b] \in Nat /\ inv[b] >= Qty[o]
    BY <1>1, <2>0, <2>1 DEF GateAccept, GateTypeOK, Enough, Avail
  <2>3. \A c \in Bucket : inv'[c] = Absent <=> inv[c] = Absent
    BY <1>1, <2>0, <2>2 DEF GateAccept, GateTypeOK, Absent
  <2>4. Unsold'
    BY <1>1, <2>1, <2>3 DEF GateAccept, GateTypeOK, Unsold, RequestShape,
                            dbVars
  <2> QED
    BY <2>1, <2>4
<1>2. ASSUME NEW o \in InRedis, GiveBack(o), UNCHANGED <<dbVars, rows>>
      PROVE  GateBooks'
  <2>1. /\ o \in Order /\ rbucket[o] \in Bucket
        /\ inv[rbucket[o]] \in Nat /\ Qty[o] \in Nat
    BY OrdersAssumption DEF InRedis, RequestShape, Unsold, GateTypeOK
  <2>2. GateConservation'
    BY <1>2, <2>1, GiveBackKeepsBooks DEF Absent
  <2>3. \A c \in Bucket : inv'[c] = Absent <=> inv[c] = Absent
    BY <1>2, <2>1 DEF GiveBack, Avail, GateTypeOK, Absent
  <2>4. Unsold'
    BY <1>2, <2>1, <2>3 DEF GiveBack, InRedis, GateTypeOK, Unsold,
                            RequestShape, dbVars
  <2> QED
    BY <2>2, <2>4
<1>3. ASSUME NEW o \in Order, Consume(o), UNCHANGED <<dbVars, rows>>
      PROVE  GateBooks'
  <2>1. \A b \in Bucket : GateClaimants(b)' = GateClaimants(b)
    BY <1>3 DEF Consume, GateClaimants, GateTypeOK
  <2>2. GateConservation'
    BY <1>3, <2>1, GateBooksForm DEF Consume, GateConservation, GateClaimants
  <2>3. Unsold'
    BY <1>3 DEF Consume, GateTypeOK, Unsold, dbVars
  <2> QED
    BY <2>2, <2>3
<1>4. ASSUME NEW b \in Bucket, rows[b] # NoRow,
             SeedInventory(b, rows[b]), rows' = [rows EXCEPT ![b] = NoRow],
             UNCHANGED dbVars
      PROVE  GateBooks'
  <2>1. GateConservation'
    BY <1>4, SeedKeepsBooks
  <2>2. \A c \in Bucket : inv'[c] = Absent => inv[c] = Absent
    BY <1>4 DEF SeedInventory, GateTypeOK
  <2>3. Unsold'
    BY <1>4, <2>2 DEF SeedInventory, GateTypeOK, Unsold, RequestShape, dbVars
  <2> QED
    BY <2>1, <2>3
<1>5. CASE UNCHANGED <<inv, rhold, rbucket>>
  <2>1. Unsold'
    BY <1>5, DbKeepsUnsold
  <2>2. GateConservation'
    BY <1>5 DEF GateConservation
  <2> QED
    BY <2>1, <2>2
<1> QED
  BY <1>1, <1>2, <1>3, <1>4, <1>5, GateMoves DEF GateMove

(* At first no counter is there.                                           *)
LEMMA GateBooksInitially == FlowInit => GateBooks
BY DEF FlowInit, DbInit, GateInit, GateBooks, Unsold, GateConservation

(* For any sale and any faults but a loss of Redis, the gate's counters    *)
(* and the holds they were taken for add up to the capacity: nothing is    *)
(* given back twice, and no late seeder brings sold tickets back.          *)
THEOREM GateIsConserved ==
  ASSUME "redis_loss" \notin Faults
  PROVE  FlowSpec => []GateConservation
<1>1. FlowInit => GateBooks
  BY GateBooksInitially
<1>2. FlowInv /\ GateBooks /\ [FlowNext]_vars => GateBooks'
  BY FlowKeepsGateBooks
<1>3. GateBooks => GateConservation
  BY DEF GateBooks
<1> QED
  BY <1>1, <1>2, <1>3, FlowInvariant, PTL DEF FlowSpec

-----------------------------------------------------------------------------
(* The refinement.  In a bucket that was seeded, what the ledger calls     *)
(* free is what the counter says.                                          *)
LEMMA GateLedgerVocabulary ==
  /\ GateLedger!Bucket = Bucket
  /\ GateLedger!NoBucket = NoBucket
  /\ \A S : GateLedger!Tickets(S) = Tickets(S)
BY DEF GateLedger!Bucket, Bucket, GateLedger!NoBucket, NoBucket,
       GateLedger!Tickets, Tickets, GateLedger!Units, Units,
       GateLedger!Cardinality, Cardinality

(* The ledger's words for what became of a hold in Redis.                  *)
LEMMA GateClaimValues ==
  /\ GateClaimOf("none") = "none"
  /\ GateClaimOf("held") = "claimed"
  /\ GateClaimOf("consumed") = "sold"
  /\ GateClaimOf("released") = "returned"
  /\ GateClaimOf("lost") = "returned"
BY DEF GateClaimOf

(* What the ledger calls free is the counter of the bucket.                *)
LEMMA FreeIsInGate ==
  ASSUME GateTypeOK, GateConservation, NEW b \in Bucket, inv[b] # Absent
  PROVE  GateLedger!Free(b) = inv[b]
<1>1. \A o \in Order : (GateClaimOf(rhold[o]) \in {"claimed", "sold"})
                          <=> (rhold[o] \in {"held", "consumed"})
  BY GateClaimValues DEF GateTypeOK, RedisHoldStatus
<1>2. GateLedger!Taken(b) = GateClaimants(b)
  BY <1>1 DEF GateLedger!Taken, GateClaimants
<1>3. inv[b] + Tickets(GateClaimants(b)) = Capacity[b]
  BY GateBooksForm
<1>4. inv[b] \in Nat /\ Capacity[b] \in Nat
      /\ Tickets(GateClaimants(b)) \in Nat
  BY OrdersAssumption, GateClaimantsType DEF GateTypeOK
<1>5. GateLedger!Free(b) = Capacity[b] - Tickets(GateClaimants(b))
  BY <1>2, GateLedgerVocabulary DEF GateLedger!Free
<1> QED
  BY <1>3, <1>4, <1>5

(* At first nothing is claimed.                                            *)
LEMMA GateLedgerInitial == FlowInit => GateLedger!LedgerInit
BY GateClaimValues, GateLedgerVocabulary
   DEF FlowInit, GateInit, GateLedger!LedgerInit

(* A script that gives one hold another status gives its claim the status  *)
(* it stands for, and leaves the other claims alone.                       *)
LEMMA GateClaimMoves ==
  ASSUME GateTypeOK, NEW o \in Order, NEW h \in RedisHoldStatus,
         rhold' = [rhold EXCEPT ![o] = h]
  PROVE  [q \in Order |-> GateClaimOf(rhold'[q])]
           = [[q \in Order |-> GateClaimOf(rhold[q])]
                 EXCEPT ![o] = GateClaimOf(h)]
<1>1. rhold'[o] = h /\ \A q \in Order : q # o => rhold'[q] = rhold[q]
  BY DEF GateTypeOK
<1> DEFINE old == [q \in Order |-> GateClaimOf(rhold[q])]
           new == [q \in Order |-> GateClaimOf(rhold'[q])]
<1>2. \A q \in Order : new[q] = GateClaimOf(rhold'[q])
  OBVIOUS
<1>3. \A q \in Order : old[q] = GateClaimOf(rhold[q])
  OBVIOUS
<1>4. DOMAIN new = Order /\ DOMAIN old = Order
  OBVIOUS
<1>5. new = [q \in Order |-> new[q]] /\ old = [q \in Order |-> old[q]]
  OBVIOUS
<1> HIDE DEF old, new
<1>6. \A q \in Order : q # o => new[q] = old[q]
  <2> SUFFICES ASSUME NEW q \in Order, q # o
               PROVE  new[q] = old[q]
    OBVIOUS
  <2>1. rhold'[q] = rhold[q]
    BY <1>1
  <2>2. GateClaimOf(rhold'[q]) = GateClaimOf(rhold[q])
    BY <2>1, Zenon
  <2> QED
    BY <1>2, <1>3, <2>2
<1>7. GateClaimOf(rhold'[o]) = GateClaimOf(h)
  BY <1>1, Zenon
<1>8. new[o] = GateClaimOf(h)
  BY <1>2, <1>7
<1>9. new = [old EXCEPT ![o] = GateClaimOf(h)]
  BY <1>4, <1>5, <1>6, <1>8
<1> QED
  BY <1>9 DEF old, new

(* A step that leaves the holds of Redis alone is a stutter of the ledger. *)
LEMMA GateLedgerStutter ==
  ASSUME UNCHANGED <<rhold, rbucket>>
  PROVE  UNCHANGED GateLedger!ledgerVars
BY DEF GateLedger!ledgerVars

(* Every step of the flow is a claim, an end of a claim or a stutter.      *)
LEMMA GateLedgerStep ==
  ASSUME FlowInv, GateBooks, "redis_loss" \notin Faults, [FlowNext]_vars
  PROVE  [GateLedger!LedgerNext]_(GateLedger!ledgerVars)
<1>0. GateTypeOK /\ GateConservation
  BY DEF FlowInv, FlowTypeOK, GateBooks
<1>1. ASSUME NEW o \in Order, NEW b \in Bucket,
             rhold[o] = "none", GateAccept(o, b)
      PROVE  GateLedger!Claim(o, b)
  <2>1. /\ rhold' = [rhold EXCEPT ![o] = "held"]
        /\ rbucket' = [rbucket EXCEPT ![o] = b]
    BY <1>1 DEF GateAccept
  <2>2. inv[b] # Absent
    BY <1>0, <1>1, GateAcceptKeepsBooks
  <2>3. GateLedger!Free(b) >= Qty[o]
    BY <1>0, <1>1, <2>2, FreeIsInGate DEF GateAccept, Enough, Avail
  <2>4. [q \in Order |-> GateClaimOf(rhold'[q])]
          = [[q \in Order |-> GateClaimOf(rhold[q])] EXCEPT ![o] = "claimed"]
    BY <1>0, <2>1, GateClaimMoves, GateClaimValues DEF RedisHoldStatus
  <2> QED
    BY <1>1, <2>1, <2>3, <2>4, GateClaimValues DEF GateLedger!Claim
<1>2. ASSUME NEW o \in InRedis, GiveBack(o)
      PROVE  o \in Order /\ GateLedger!Return(o)
  <2>1. /\ o \in Order /\ rhold[o] = "held" /\ rbucket' = rbucket
        /\ rhold' = [rhold EXCEPT ![o] = "released"]
    BY <1>2 DEF InRedis, GiveBack
  <2>2. [q \in Order |-> GateClaimOf(rhold'[q])]
          = [[q \in Order |-> GateClaimOf(rhold[q])] EXCEPT ![o] = "returned"]
    BY <1>0, <2>1, GateClaimMoves, GateClaimValues DEF RedisHoldStatus
  <2> QED
    BY <2>1, <2>2, GateClaimValues DEF GateLedger!Return
<1>3. ASSUME NEW o \in Order, Consume(o)
      PROVE  GateLedger!Sell(o) \/ UNCHANGED GateLedger!ledgerVars
  <2>1. CASE rhold[o] = "held"
    <3>1. rhold' = [rhold EXCEPT ![o] = "consumed"] /\ rbucket' = rbucket
      BY <1>3, <2>1 DEF Consume
    <3>2. [q \in Order |-> GateClaimOf(rhold'[q])]
            = [[q \in Order |-> GateClaimOf(rhold[q])] EXCEPT ![o] = "sold"]
      BY <1>0, <3>1, GateClaimMoves, GateClaimValues DEF RedisHoldStatus
    <3> QED
      BY <2>1, <3>1, <3>2, GateClaimValues DEF GateLedger!Sell
  <2>2. CASE rhold[o] # "held"
    <3>1. rhold' = rhold /\ rbucket' = rbucket
      BY <1>0, <1>3, <2>2 DEF Consume, GateTypeOK
    <3> QED
      BY <3>1, GateLedgerStutter
  <2> QED
    BY <2>1, <2>2
<1>4. ASSUME NEW b \in Bucket, SeedInventory(b, rows[b])
      PROVE  UNCHANGED GateLedger!ledgerVars
  BY <1>4, GateLedgerStutter DEF SeedInventory
<1>5. CASE UNCHANGED <<inv, rhold, rbucket>>
  BY <1>5, GateLedgerStutter
<1> QED
  BY <1>1, <1>2, <1>3, <1>4, <1>5, GateMoves, GateLedgerVocabulary
     DEF GateMove, GateLedger!LedgerNext

(* As long as Redis keeps its keys, the gate implements the same ledger as *)
(* the tables: a claim per hold, while enough of its bucket is free, that  *)
(* ends once, returned or sold.                                            *)
THEOREM GateImplementsStock ==
  ASSUME "redis_loss" \notin Faults
  PROVE  FlowSpec => GateImplementsLedger
<1>1. FlowInit => GateBooks /\ GateLedger!LedgerInit
  BY GateBooksInitially, GateLedgerInitial
<1>2. FlowInv /\ GateBooks /\ [FlowNext]_vars => GateBooks'
  BY FlowKeepsGateBooks
<1>3. FlowInv /\ GateBooks /\ [FlowNext]_vars
        => [GateLedger!LedgerNext]_(GateLedger!ledgerVars)
  BY GateLedgerStep
<1> QED
  BY <1>1, <1>2, <1>3, FlowInvariant, PTL
     DEF FlowSpec, GateImplementsLedger, GateLedger!LedgerSpec

-----------------------------------------------------------------------------
(* With any fault, the loss of Redis included: what one step does to the   *)
(* keys of the gate, and to the rows a seeder has in hand.                 *)
GateScript ==
    \/ /\ \/ \E o \in Order, b \in Bucket :
                rhold[o] = "none" /\ GateAccept(o, b)
          \/ \E o \in Order : GateSoldOut(o) \/ Consume(o) \/ TimeUp(o)
          \/ \E o \in InRedis : GiveBack(o)
          \/ RedisLoss
       /\ UNCHANGED rows
    \/ \E b \in Bucket :
          /\ rows[b] # NoRow /\ SeedInventory(b, rows[b])
          /\ rows' = [rows EXCEPT ![b] = NoRow]
    \/ /\ UNCHANGED gateVars
       /\ \/ UNCHANGED rows
          \/ rows' = available
          \/ \E b \in Bucket : rows' = [rows EXCEPT ![b] = NoRow]

(* Every step runs one script at most.                                     *)
LEMMA FlowStepIsScript ==
  ASSUME FlowInv, [FlowNext]_vars
  PROVE  GateScript
<1>0. RequestShape
  BY DEF FlowInv
<1>1. ASSUME NEW o \in Order, Release(o) \/ UNCHANGED gateVars, UNCHANGED rows
      PROVE  GateScript
  BY <1>1 DEF Release, GateScript
<1>2. ASSUME NEW o \in Order, Request(o)
      PROVE  GateScript
  <2>1. UNCHANGED rows
    BY <1>2 DEF Request, CountPurchased, PassGate, GateReplyLost,
       PersistCount, PersistCommit, PersistRollback, PersistFail,
       Compensate, RequestCrash, RequestOnly
  <2>2. CASE PassGate(o) \/ GateReplyLost(o)
    <3>1. rhold[o] = "none"
      BY <1>0, <2>2 DEF RequestShape, PassGate, GateReplyLost
    <3> QED
      BY <2>1, <2>2, <3>1
         DEF PassGate, GateReplyLost, GateAlreadyHolding, GateScript
  <2>3. CASE Compensate(o)
    BY <1>1, <2>1, <2>3 DEF Compensate
  <2>4. CASE UNCHANGED gateVars
    BY <2>1, <2>4 DEF GateScript
  <2> QED
    BY <1>2, <2>2, <2>3, <2>4
       DEF Request, CountPurchased, PersistCount, PersistCommit,
           PersistRollback, PersistFail, RequestCrash
<1>3. ASSUME NEW o \in Order, AfterHold(o)
      PROVE  GateScript
  <2>1. UNCHANGED rows
    BY <1>3 DEF AfterHold, CancelInDb, CancelInRedis, IssueInDb,
       IssueInRedis, Clock, flowVars
  <2>2. CASE CancelInRedis(o)
    BY <1>1, <2>1, <2>2 DEF CancelInRedis
  <2>3. CASE IssueInRedis(o) \/ Clock(o)
    BY <2>1, <2>3 DEF IssueInRedis, Clock, GateScript
  <2>4. CASE CancelInDb(o) \/ IssueInDb(o)
    BY <2>1, <2>4 DEF CancelInDb, IssueInDb, GateScript
  <2> QED
    BY <1>3, <2>2, <2>3, <2>4 DEF AfterHold
<1>4. ASSUME NEW w \in Sweeper, Sweep(w)
      PROVE  GateScript
  <2>1. UNCHANGED rows
    BY <1>4 DEF Sweep, Discover, SweepList, SweepInDb, SweepInRedis, SweepFail
  <2>2. \/ UNCHANGED gateVars
        \/ \E o \in Order : Release(o)
    BY <1>4 DEF Sweep, Discover, SweepList, SweepInDb, SweepInRedis, SweepFail
  <2> QED
    BY <1>1, <2>1, <2>2 DEF GateScript
<1>5. ASSUME NEW b \in Bucket, SeedWrite(b)
      PROVE  GateScript
  BY <1>5 DEF SeedWrite, GateScript
<1>6. CASE SeedRead \/ PaymentService \/ LoseRedis \/ UNCHANGED vars
  BY <1>6 DEF SeedRead, PaymentService, LoseRedis, flowVars, vars, GateScript
<1> QED
  BY <1>2, <1>3, <1>4, <1>5, <1>6 DEF FlowNext

-----------------------------------------------------------------------------
(* The mapping of a customer may be stale, but it names every live hold.   *)
LiveIsMapped == \A o \in InRedis \ expired : uhold[Owner[o]] = o

(* A customer with a live hold gets no second one.                         *)
LEMMA ScriptKeepsMapping ==
  ASSUME FlowInv, LiveIsMapped, GateScript
  PROVE  LiveIsMapped'
<1>0. /\ GateTypeOK
      /\ \A o \in Order : Owner[o] \in Identity
  BY OrdersAssumption DEF FlowInv, FlowTypeOK
<1> USE <1>0 DEF LiveIsMapped, InRedis, GateTypeOK
<1>1. ASSUME NEW o \in Order, NEW b \in Bucket, GateAccept(o, b)
      PROVE  LiveIsMapped'
  <2>1. /\ rhold' = [rhold EXCEPT ![o] = "held"]
        /\ uhold' = [uhold EXCEPT ![Owner[o]] = o]
        /\ expired' = expired
        /\ LiveHold(Owner[o]) = {}
    BY <1>1 DEF GateAccept
  <2>2. \A q \in InRedis \ expired : Owner[q] # Owner[o]
    BY <2>1 DEF LiveHold
  <2> QED
    BY <2>1, <2>2
<1>2. ASSUME NEW o \in Order, GateSoldOut(o)
      PROVE  LiveIsMapped'
  <2>1. /\ uhold' = [uhold EXCEPT ![Owner[o]] = NoOrder]
        /\ UNCHANGED <<rhold, expired>>
        /\ LiveHold(Owner[o]) = {}
    BY <1>2 DEF GateSoldOut
  <2>2. \A q \in InRedis \ expired : Owner[q] # Owner[o]
    BY <2>1 DEF LiveHold
  <2> QED
    BY <2>1, <2>2
<1>3. ASSUME NEW o \in InRedis, GiveBack(o)
      PROVE  LiveIsMapped'
  BY <1>3 DEF GiveBack, UnmapOwn
<1>4. ASSUME NEW o \in Order, Consume(o) \/ TimeUp(o)
      PROVE  LiveIsMapped'
  BY <1>4 DEF Consume, TimeUp
<1>5. CASE RedisLoss
  BY <1>5 DEF RedisLoss
<1>6. CASE UNCHANGED <<rhold, uhold, expired>>
  BY <1>6
<1> QED
  BY <1>1, <1>2, <1>3, <1>4, <1>5, <1>6
     DEF GateScript, SeedInventory, gateVars

(* BR-O3 for any sale and all the faults of the model, the loss of Redis   *)
(* included: no customer has two live holds.                               *)
THEOREM NobodyHoldsTwice == FlowSpec => []OneLiveHold
<1>1. FlowInit => LiveIsMapped
  BY DEF FlowInit, GateInit, LiveIsMapped, InRedis
<1>2. FlowInv /\ LiveIsMapped /\ [FlowNext]_vars => LiveIsMapped'
  BY FlowStepIsScript, ScriptKeepsMapping
<1>3. LiveIsMapped => OneLiveHold
  BY DEF LiveIsMapped, OneLiveHold
<1> QED
  BY <1>1, <1>2, <1>3, FlowInvariant, PTL DEF FlowSpec

-----------------------------------------------------------------------------
(* The holds a bucket has in Redis, and the counter they come on top of:   *)
(* a counter is missing only where there are no holds, and the row that a  *)
(* seeder writes there says the whole capacity at most.                    *)
HeldIn(b) == {o \in InRedis : rbucket[o] = b}

GateRoom ==
    /\ \A o \in InRedis : inv[rbucket[o]] # Absent
    /\ \A b \in Bucket : rows[b] <= Capacity[b]
    /\ GateWithinCapacity

(* The holds of a bucket are orders, so they have a number of tickets.     *)
LEMMA HeldInType ==
  ASSUME NEW b \in Bucket
  PROVE  HeldIn(b) \in SUBSET Order /\ Tickets(HeldIn(b)) \in Nat
BY TicketsType DEF HeldIn, InRedis

(* Each script keeps the room.                                             *)
LEMMA GateAcceptKeepsRoom ==
  ASSUME GateTypeOK, GateRoom, NEW o \in Order, NEW b \in Bucket,
         rhold[o] = "none", GateAccept(o, b), UNCHANGED rows
  PROVE  GateRoom'
<1>1. Qty[o] \in Nat \ {0} /\ Capacity \in [Bucket -> Nat]
  BY OrdersAssumption
<1>2. /\ inv[b] \in Nat /\ inv[b] >= Qty[o]
      /\ inv' = [inv EXCEPT ![b] = @ - Qty[o]]
      /\ rhold' = [rhold EXCEPT ![o] = "held"]
      /\ rbucket' = [rbucket EXCEPT ![o] = b]
  BY <1>1 DEF GateAccept, GateTypeOK, Enough, Avail, Absent
<1>3. /\ HeldIn(b)' = HeldIn(b) \cup {o} /\ o \notin HeldIn(b)
      /\ \A c \in Bucket \ {b} : HeldIn(c)' = HeldIn(c)
  BY <1>2 DEF HeldIn, InRedis, GateTypeOK
<1>4. Tickets(HeldIn(b)') = Tickets(HeldIn(b)) + Qty[o]
  BY <1>3, HeldInType, TicketsAdd
<1>5. /\ inv'[b] = inv[b] - Qty[o] /\ inv'[b] \in Nat
      /\ \A c \in Bucket \ {b} : inv'[c] = inv[c]
  BY <1>1, <1>2 DEF GateTypeOK
<1>6. inv[b] + Tickets(HeldIn(b)) <= Capacity[b]
  BY DEF GateRoom, GateWithinCapacity, HeldIn
<1>7. inv'[b] + Tickets(HeldIn(b)') <= Capacity[b]
  BY <1>1, <1>2, <1>4, <1>5, <1>6, HeldInType
<1>8. GateWithinCapacity'
  <2>1. \A c \in Bucket \ {b} : inv'[c] + Tickets(HeldIn(c)') <= Capacity[c]
    BY <1>3, <1>5 DEF GateRoom, GateWithinCapacity, HeldIn
  <2> QED
    BY <1>7, <2>1 DEF GateWithinCapacity, HeldIn
<1>9. \A q \in InRedis' : inv'[rbucket'[q]] # Absent
  BY <1>2, <1>5 DEF GateRoom, InRedis, GateTypeOK, Absent
<1> QED
  BY <1>8, <1>9 DEF GateRoom

(* release.lua adds to the counter what the hold had.                      *)
LEMMA GiveBackKeepsRoom ==
  ASSUME GateTypeOK, GateRoom, NEW o \in InRedis, GiveBack(o),
         rbucket[o] \in Bucket, UNCHANGED rows
  PROVE  GateRoom'
<1>0. PICK b \in Bucket : b = rbucket[o]
  OBVIOUS
<1>1. Qty[o] \in Nat \ {0} /\ Capacity \in [Bucket -> Nat] /\ o \in Order
  BY OrdersAssumption DEF InRedis
<1>2. /\ inv[b] \in Nat /\ rbucket' = rbucket
      /\ inv' = [inv EXCEPT ![b] = inv[b] + Qty[o]]
      /\ rhold' = [rhold EXCEPT ![o] = "released"]
  BY <1>0 DEF GiveBack, GateTypeOK, Avail, GateRoom
<1>3. /\ HeldIn(b)' = HeldIn(b) \ {o} /\ o \in HeldIn(b)
      /\ \A c \in Bucket \ {b} : HeldIn(c)' = HeldIn(c)
  BY <1>0, <1>1, <1>2 DEF HeldIn, InRedis, GateTypeOK
<1>4. Tickets(HeldIn(b)') = Tickets(HeldIn(b)) - Qty[o]
  BY <1>3, HeldInType, TicketsRemove
<1>5. /\ inv'[b] = inv[b] + Qty[o]
      /\ \A c \in Bucket \ {b} : inv'[c] = inv[c]
  BY <1>1, <1>2 DEF GateTypeOK
<1>6. inv[b] + Tickets(HeldIn(b)) <= Capacity[b]
  BY DEF GateRoom, GateWithinCapacity, HeldIn
<1>7. inv'[b] + Tickets(HeldIn(b)') <= Capacity[b]
  BY <1>1, <1>2, <1>4, <1>5, <1>6, HeldInType
<1>8. GateWithinCapacity'
  <2>1. \A c \in Bucket \ {b} : inv'[c] + Tickets(HeldIn(c)') <= Capacity[c]
    BY <1>3, <1>5 DEF GateRoom, GateWithinCapacity, HeldIn
  <2>2. \A c \in Bucket : inv'[c] + Tickets(HeldIn(c)') <= Capacity[c]
    BY <1>7, <2>1
  <2> QED
    BY <2>2 DEF GateWithinCapacity, HeldIn
<1>9. \A q \in InRedis' : inv'[rbucket'[q]] # Absent
  <2>1. \A q \in InRedis' : q \in InRedis
    BY <1>2 DEF InRedis, GateTypeOK
  <2>2. inv'[b] # Absent
    BY <1>1, <1>2, <1>5 DEF Absent
  <2> QED
    BY <1>0, <1>2, <1>5, <2>1, <2>2 DEF GateRoom, GateTypeOK
<1> QED
  BY <1>8, <1>9 DEF GateRoom

(* The tickets of a consumed hold leave the books of Redis.                *)
LEMMA ConsumeKeepsRoom ==
  ASSUME GateTypeOK, GateRoom, NEW o \in Order, Consume(o), UNCHANGED rows
  PROVE  GateRoom'
<1>1. Qty[o] \in Nat /\ Capacity \in [Bucket -> Nat]
  BY OrdersAssumption
<1>2. ASSUME NEW c \in Bucket
      PROVE  Tickets(HeldIn(c)') <= Tickets(HeldIn(c))
  <2>1. CASE o \in HeldIn(c)
    <3>1. HeldIn(c)' = HeldIn(c) \ {o}
      BY <2>1 DEF Consume, HeldIn, InRedis, GateTypeOK
    <3>2. Tickets(HeldIn(c)') = Tickets(HeldIn(c)) - Qty[o]
      BY <2>1, <3>1, HeldInType, TicketsRemove
    <3> QED
      BY <1>1, <3>2, HeldInType
  <2>2. CASE o \notin HeldIn(c)
    <3>1. HeldIn(c)' = HeldIn(c)
      BY <2>2 DEF Consume, HeldIn, InRedis, GateTypeOK
    <3> QED
      BY <3>1, HeldInType
  <2> QED
    BY <2>1, <2>2
<1>3. GateWithinCapacity'
  <2> SUFFICES ASSUME NEW c \in Bucket
               PROVE  inv'[c] + Tickets(HeldIn(c)') <= Capacity[c]
    BY DEF GateWithinCapacity, HeldIn
  <2>1. inv[c] + Tickets(HeldIn(c)) <= Capacity[c]
    BY DEF GateRoom, GateWithinCapacity, HeldIn
  <2>2. inv'[c] = inv[c] /\ inv[c] \in Int /\ Capacity[c] \in Nat
    BY <1>1 DEF Consume, GateTypeOK, Absent
  <2>3. HeldIn(c)' \in SUBSET Order
    BY DEF HeldIn, InRedis
  <2>4. Tickets(HeldIn(c)') \in Nat
    BY <2>3, TicketsType
  <2> QED
    BY <1>2, <2>1, <2>2, <2>4, HeldInType
<1>4. \A q \in InRedis' : q \in InRedis
  BY DEF Consume, InRedis, GateTypeOK
<1> QED
  BY <1>3, <1>4 DEF GateRoom, Consume

(* A counter that is not there starts from what a row said some time ago.  *)
LEMMA SeedKeepsRoom ==
  ASSUME GateTypeOK, GateRoom, NEW b \in Bucket, rows[b] # NoRow,
         rows \in [Bucket -> Nat \cup {NoRow}], SeedInventory(b, rows[b]),
         rows' = [rows EXCEPT ![b] = NoRow], RequestShape
  PROVE  GateRoom'
<1>1. Capacity \in [Bucket -> Nat]
  BY OrdersAssumption
<1>2. \A c \in Bucket : HeldIn(c)' = HeldIn(c)
  BY DEF SeedInventory, HeldIn, InRedis
<1>3. ASSUME NEW c \in Bucket
      PROVE  inv'[c] + Tickets(HeldIn(c)') <= Capacity[c]
  <2>1. CASE inv'[c] = inv[c]
    BY <1>2, <2>1 DEF GateRoom, GateWithinCapacity, HeldIn
  <2>2. CASE inv'[c] # inv[c]
    <3>1. inv[c] = Absent /\ inv'[c] = rows[c] /\ rows[c] \in Nat
      BY <2>2 DEF SeedInventory, GateTypeOK
    <3>2. HeldIn(c) = {}
      BY <3>1 DEF HeldIn, GateRoom
    <3> QED
      BY <1>1, <1>2, <3>1, <3>2, TicketsEmpty DEF GateRoom
  <2> QED
    BY <2>1, <2>2
<1>4. \A q \in InRedis' : inv'[rbucket'[q]] # Absent
  <2>1. UNCHANGED <<rhold, rbucket>>
    BY DEF SeedInventory
  <2>2. \A c \in Bucket : inv'[c] = Absent => inv[c] = Absent
    BY DEF SeedInventory, GateTypeOK
  <2> QED
    BY <2>1, <2>2 DEF GateRoom, InRedis, RequestShape
<1>5. ASSUME NEW c \in Bucket
      PROVE  rows'[c] <= Capacity[c]
  <2>1. rows'[c] = rows[c] \/ rows'[c] = -1
    BY DEF NoRow
  <2>2. rows[c] <= Capacity[c] /\ Capacity[c] \in Nat
    BY <1>1 DEF GateRoom
  <2> QED
    BY <2>1, <2>2
<1> QED
  BY <1>3, <1>4, <1>5 DEF GateRoom, GateWithinCapacity, HeldIn

(* The room of the gate is inductive.                                      *)
LEMMA ScriptKeepsRoom ==
  ASSUME FlowInv, GateRoom, GateScript
  PROVE  GateRoom'
<1>0. /\ GateTypeOK /\ RequestShape /\ Conservation
      /\ rows \in [Bucket -> Nat \cup {NoRow}]
      /\ available \in [Bucket -> Nat] /\ Capacity \in [Bucket -> Nat]
  BY OrdersAssumption
     DEF FlowInv, FlowTypeOK, DbInv, StockInv, DbTypeOK
<1>1. ASSUME NEW o \in Order, NEW b \in Bucket, rhold[o] = "none",
             GateAccept(o, b), UNCHANGED rows
      PROVE  GateRoom'
  BY <1>0, <1>1, GateAcceptKeepsRoom
<1>2. ASSUME NEW o \in InRedis, GiveBack(o), UNCHANGED rows
      PROVE  GateRoom'
  <2>1. rbucket[o] \in Bucket
    BY <1>0 DEF RequestShape, InRedis
  <2> QED
    BY <1>0, <1>2, <2>1, GiveBackKeepsRoom
<1>3. ASSUME NEW o \in Order, Consume(o), UNCHANGED rows
      PROVE  GateRoom'
  BY <1>0, <1>3, ConsumeKeepsRoom
<1>4. ASSUME NEW b \in Bucket, rows[b] # NoRow, SeedInventory(b, rows[b]),
             rows' = [rows EXCEPT ![b] = NoRow]
      PROVE  GateRoom'
  BY <1>0, <1>4, SeedKeepsRoom
<1>5. CASE RedisLoss /\ UNCHANGED rows
  <2>1. \A b \in Bucket : HeldIn(b)' = {} /\ inv'[b] = -1
    BY <1>0, <1>5 DEF RedisLoss, HeldIn, InRedis, GateTypeOK, Absent
  <2>2. \A b \in Bucket : inv'[b] + Tickets(HeldIn(b)') <= Capacity[b]
    BY <1>0, <2>1, TicketsEmpty
  <2>3. InRedis' = {}
    BY <1>0, <1>5 DEF RedisLoss, InRedis, GateTypeOK
  <2> QED
    BY <1>5, <2>2, <2>3 DEF GateRoom, GateWithinCapacity, HeldIn
<1>6. ASSUME UNCHANGED <<inv, rhold, rbucket>>,
             \A b \in Bucket : rows'[b] <= Capacity[b]
      PROVE  GateRoom'
  BY <1>6 DEF GateRoom, GateWithinCapacity, InRedis
<1>7. ASSUME NEW o \in Order, GateSoldOut(o) \/ TimeUp(o), UNCHANGED rows
      PROVE  GateRoom'
  BY <1>6, <1>7 DEF GateSoldOut, TimeUp, GateRoom
<1>8. CASE UNCHANGED gateVars /\ UNCHANGED rows
  BY <1>6, <1>8 DEF gateVars, GateRoom
<1>9. CASE UNCHANGED gateVars /\ rows' = available
  <2>1. \A b \in Bucket : available[b] <= Capacity[b]
    BY <1>0, ClaimantsType DEF Conservation
  <2> QED
    BY <1>6, <1>9, <2>1 DEF gateVars
<1>10. CASE UNCHANGED gateVars /\ \E b \in Bucket :
                                     rows' = [rows EXCEPT ![b] = NoRow]
  <2>1. \A b \in Bucket : rows'[b] <= Capacity[b]
    BY <1>0, <1>10 DEF GateRoom, NoRow
  <2> QED
    BY <1>6, <1>10, <2>1 DEF gateVars
<1> QED
  BY <1>1, <1>2, <1>3, <1>4, <1>5, <1>7, <1>8, <1>9, <1>10 DEF GateScript

(* BR-O1 in Redis for any sale and all the faults of the model: it never   *)
(* offers and holds more tickets than the bucket has, however often it is  *)
(* lost and whatever old row a seeder refills it from.                     *)
THEOREM GateStaysInCapacity == FlowSpec => []GateWithinCapacity
<1>1. FlowInit => GateRoom
  <2> SUFFICES ASSUME FlowInit
               PROVE  GateRoom
    OBVIOUS
  <2>1. /\ InRedis = {} /\ \A b \in Bucket : HeldIn(b) = {}
        /\ \A b \in Bucket : inv[b] = -1 /\ rows[b] = -1
    BY DEF FlowInit, GateInit, InRedis, HeldIn, Absent, NoRow
  <2>2. \A b \in Bucket : Capacity[b] \in Nat
    BY OrdersAssumption
  <2>3. \A b \in Bucket : inv[b] + Tickets(HeldIn(b)) <= Capacity[b]
    BY <2>1, <2>2, TicketsEmpty
  <2> QED
    BY <2>1, <2>2, <2>3 DEF GateRoom, GateWithinCapacity, HeldIn
<1>2. FlowInv /\ GateRoom /\ [FlowNext]_vars => GateRoom'
  BY FlowStepIsScript, ScriptKeepsRoom
<1>3. GateRoom => GateWithinCapacity
  BY DEF GateRoom
<1> QED
  BY <1>1, <1>2, <1>3, FlowInvariant, PTL DEF FlowSpec

-----------------------------------------------------------------------------
(* What a transaction has counted stays an upper bound until it commits:   *)
(* no other request of that customer is behind the gate meanwhile.         *)
Counting(id) == OrdersOf(id, QuotaOrderStatuses)

QuotaCounts ==
    /\ PerIdentityQuota
    /\ \A o \in Order :
          counted[o] # NotCounting => Tickets(Counting(Owner[o])) <= counted[o]

(* PersistHold writes what the quota allows.                               *)
LEMMA CommitKeepsQuota ==
  ASSUME FlowInv, HandsOff, LiveIsMapped, QuotaCounts,
         NEW o \in Order, PersistCommit(o)
  PROVE  QuotaCounts'
<1>0. /\ DbTypeOK /\ RequestShape
      /\ Qty[o] \in Nat /\ MaxPerIdentity \in Nat
  BY OrdersAssumption DEF FlowInv, DbInv, StockInv
<1>1. /\ order[o] = "none" /\ order' = [order EXCEPT ![o] = "HELD"]
      /\ counted[o] # NotCounting /\ counted[o] + Qty[o] <= MaxPerIdentity
      /\ counted' = [counted EXCEPT ![o] = NotCounting]
      /\ pc[o] = "gated"
  BY DEF PersistCommit, CommitHold, WithinQuota
<1>2. /\ Counting(Owner[o])' = Counting(Owner[o]) \cup {o}
      /\ o \notin Counting(Owner[o])
      /\ \A id \in Identity \ {Owner[o]} : Counting(id)' = Counting(id)
  BY <1>0, <1>1 DEF Counting, OrdersOf, QuotaOrderStatuses,
     ActiveOrderStatuses, SettledOrderStatuses, DbTypeOK
<1>3. \A id \in Identity : Counting(id) \in SUBSET Order
  BY DEF Counting, OrdersOf
<1>4. Owner \in [Order -> Identity]
  BY OrdersAssumption
<1>5. Tickets(Counting(Owner[o])') <= MaxPerIdentity
  <2>1. Tickets(Counting(Owner[o])') = Tickets(Counting(Owner[o])) + Qty[o]
    BY <1>2, <1>3, <1>4, TicketsAdd
  <2>2. Tickets(Counting(Owner[o])) <= counted[o]
    BY <1>1 DEF QuotaCounts
  <2>3. counted[o] \in Nat /\ Tickets(Counting(Owner[o])) \in Nat
    BY <1>0, <1>1, <1>3, <1>4, TicketsType DEF DbTypeOK
  <2> QED
    BY <1>0, <1>1, <2>1, <2>2, <2>3
<1>6. PerIdentityQuota'
  BY <1>2, <1>5 DEF QuotaCounts, PerIdentityQuota, Counting
<1>7. ASSUME NEW q \in Order, counted'[q] # NotCounting
      PROVE  Tickets(Counting(Owner[q])') <= counted'[q]
  <2>1. q # o /\ counted'[q] = counted[q]
    BY <1>0, <1>1, <1>7 DEF DbTypeOK
  <2>2. pc[q] = "gated"
    BY <1>0, <1>7, <2>1 DEF RequestShape
  <2>3. q \in InRedis \ expired /\ o \in InRedis \ expired
    BY <1>1, <2>2 DEF HandsOff, InRedis
  <2>4. Owner[q] # Owner[o]
    BY <2>1, <2>3 DEF LiveIsMapped
  <2>5. Counting(Owner[q])' = Counting(Owner[q])
    BY <1>2, <1>4, <2>4
  <2> QED
    BY <1>7, <2>1, <2>5 DEF QuotaCounts
<1> QED
  BY <1>6, <1>7 DEF QuotaCounts, Counting

(* No other transaction brings an order under the quota.                   *)
LEMMA OthersKeepQuota ==
  ASSUME FlowInv, QuotaCounts, [FlowNext]_vars,
         ~ \E o \in Order : PersistCommit(o)
  PROVE  QuotaCounts'
<1>0. /\ DbTypeOK /\ order \in [Order -> OrderStatus]
      /\ counted \in [Order -> Nat \cup {NotCounting}]
      /\ MaxPerIdentity \in Nat /\ Owner \in [Order -> Identity]
  BY OrdersAssumption DEF FlowInv, DbInv, StockInv, DbTypeOK
<1>1. \/ \E q \in Order : \/ ReleaseHold(q) \/ CancelHold(q)
                          \/ SettleTx(q) \/ RollbackHold(q) \/ CountQuota(q)
      \/ \E p \in Payment : PaymentTx(p)
      \/ counted' = counted /\ UNCHANGED tables
      \/ \E q \in Order : RequestCrash(q)
  BY DEF FlowNext, Request, CountPurchased, PassGate,
     GateReplyLost, PersistCount, PersistRollback, PersistFail,
     Compensate, AfterHold, CancelInDb, CancelInRedis,
     IssueInDb, IssueInRedis, Clock, Sweep, Discover, SweepList, SweepInDb,
     SweepInRedis, SweepFail, SeedRead, SeedWrite, LoseRedis,
     PaymentService, SettleTx, vars, dbVars, tables
<1> DEFINE Under == \A o \in Order : order'[o] \in QuotaOrderStatuses
                                        => order[o] \in QuotaOrderStatuses
           Dropped == \A o \in Order : counted'[o] \in {counted[o], NotCounting}
<1>2. Under
  <2> USE <1>0, ConstantTypes DEF QuotaOrderStatuses, ActiveOrderStatuses,
          SettledOrderStatuses
  <2>1. ASSUME NEW q \in Order,
               ReleaseHold(q) \/ CancelHold(q) \/ SettleTx(q)
        PROVE  Under
    BY <2>1 DEF ReleaseHold, CancelHold, SettleTx, Expire,
       ProcessOrderCancellationTx, MarkOrderRefundingTx,
       ProcessRefundSuccessTx, IssueTicketsTx, Issuable
  <2>2. ASSUME NEW p \in Payment, PaymentTx(p)
        PROVE  Under
    BY <2>2 DEF PaymentTx, CreatePaymentAndMarkPending,
       ProcessPaymentSuccessTx, ProcessPaymentFailedTx
  <2>3. CASE order' = order
    BY <2>3
  <2> QED
    BY <1>1, <2>1, <2>2, <2>3 DEF RollbackHold, CountQuota, RequestCrash,
       tables
<1>3. \A id \in Identity :
         /\ Counting(id) \in SUBSET Order
         /\ Counting(id)' \in SUBSET Counting(id)
         /\ Tickets(Counting(id)') <= Tickets(Counting(id))
         /\ Tickets(Counting(id)) \in Nat /\ Tickets(Counting(id)') \in Nat
  <2> SUFFICES ASSUME NEW id \in Identity
               PROVE  /\ Counting(id) \in SUBSET Order
                      /\ Counting(id)' \in SUBSET Counting(id)
                      /\ Tickets(Counting(id)') <= Tickets(Counting(id))
                      /\ Tickets(Counting(id)) \in Nat
                      /\ Tickets(Counting(id)') \in Nat
    OBVIOUS
  <2>1. Counting(id) \in SUBSET Order /\ Counting(id)' \in SUBSET Order
    BY DEF Counting, OrdersOf
  <2>2. Counting(id)' \in SUBSET Counting(id)
    BY <1>2 DEF Counting, OrdersOf
  <2> QED
    BY <2>1, <2>2, TicketsMono, TicketsType
<1> HIDE DEF Under
<1>4. PerIdentityQuota'
  <2> SUFFICES ASSUME NEW id \in Identity
               PROVE  Tickets(Counting(id)') <= MaxPerIdentity
    BY DEF PerIdentityQuota, Counting
  <2>1. Tickets(Counting(id)) <= MaxPerIdentity
    BY DEF QuotaCounts, PerIdentityQuota, Counting
  <2> QED
    BY <1>0, <1>3, <2>1
<1>5. CASE \E q \in Order : CountQuota(q)
  <2>1. PICK q \in Order : CountQuota(q)
    BY <1>5
  <2>2. /\ counted' = [counted EXCEPT ![q] = Tickets(Counting(Owner[q]))]
        /\ order' = order
    BY <2>1 DEF CountQuota, Counting, tables
  <2>3. \A id \in Identity : Counting(id)' = Counting(id)
    BY <2>2 DEF Counting, OrdersOf
  <2>4. ASSUME NEW o \in Order, counted'[o] # NotCounting
        PROVE  Tickets(Counting(Owner[o])') <= counted'[o]
    <3>1. CASE o = q
      BY <1>0, <1>3, <2>2, <2>3, <3>1
    <3>2. CASE o # q
      BY <1>0, <2>2, <2>3, <2>4, <3>2 DEF QuotaCounts
    <3> QED
      BY <3>1, <3>2
  <2> QED
    BY <1>4, <2>4 DEF QuotaCounts, Counting
<1>6. CASE ~ \E q \in Order : CountQuota(q)
  <2>1. Dropped
    BY <1>0, <1>1, <1>6 DEF ReleaseHold, CancelHold, SettleTx,
       ProcessOrderCancellationTx, MarkOrderRefundingTx,
       ProcessRefundSuccessTx, IssueTicketsTx, RollbackHold, PaymentTx,
       CreatePaymentAndMarkPending, ProcessPaymentSuccessTx,
       ProcessPaymentFailedTx, RequestCrash
  <2>2. ASSUME NEW o \in Order, counted'[o] # NotCounting
        PROVE  Tickets(Counting(Owner[o])') <= counted'[o]
    <3>1. counted'[o] = counted[o] /\ counted[o] \in Nat
      BY <1>0, <2>1, <2>2
    <3>2. Tickets(Counting(Owner[o])) <= counted[o]
      BY <2>2, <3>1 DEF QuotaCounts
    <3> QED
      BY <1>0, <1>3, <3>1, <3>2
  <2> QED
    BY <1>4, <2>2 DEF QuotaCounts, Counting
<1> QED
  BY <1>5, <1>6

(* BR-O4 for any sale: requests of one customer side by side never buy     *)
(* more than max_per_identity, as long as Redis keeps its keys and no      *)
(* request outlives its hold or loses the reply to its commit.             *)
THEOREM QuotaIsKept ==
  ASSUME Faults \subseteq {"lost_reply", "closing"}
  PROVE  FlowSpec => []PerIdentityQuota
<1>1. FlowInit => HandsOff /\ LiveIsMapped
  BY DEF FlowInit, DbInit, GateInit, HandsOff, LiveIsMapped, InRedis
<1>2. FlowInit => QuotaCounts
  <2> SUFFICES ASSUME FlowInit
               PROVE  QuotaCounts
    OBVIOUS
  <2>1. \A id \in Identity : OrdersOf(id, QuotaOrderStatuses) = {}
    BY DEF FlowInit, DbInit, OrdersOf, QuotaOrderStatuses,
       ActiveOrderStatuses, SettledOrderStatuses
  <2>2. PerIdentityQuota
    <3>1. 0 <= MaxPerIdentity
      BY OrdersAssumption
    <3> QED
      BY <2>1, <3>1, TicketsEmpty, Zenon DEF PerIdentityQuota
  <2> QED
    BY <2>2 DEF FlowInit, DbInit, QuotaCounts
<1>3. FlowInv /\ FlowInv' /\ HandsOff /\ [FlowNext]_vars => HandsOff'
  BY RequestKeepsHandsOff, OthersKeepHandsOff
<1>4. FlowInv /\ LiveIsMapped /\ [FlowNext]_vars => LiveIsMapped'
  BY FlowStepIsScript, ScriptKeepsMapping
<1>5. FlowInv /\ HandsOff /\ LiveIsMapped /\ QuotaCounts /\ [FlowNext]_vars
      => QuotaCounts'
  BY CommitKeepsQuota, OthersKeepQuota
<1>6. QuotaCounts => PerIdentityQuota
  BY DEF QuotaCounts
<1> QED
  BY <1>1, <1>2, <1>3, <1>4, <1>5, <1>6, FlowInvariant, PTL DEF FlowSpec
-----------------------------------------------------------------------------
(* The refinement of Upkeep's traffic, with any fault.  What Upkeep says   *)
(* about the gate's keys is what RedisGate says about them.                *)
LEMMA TrafficWords ==
  /\ Traffic!Bucket = Bucket /\ Traffic!NoBucket = NoBucket
  /\ Traffic!Absent = Absent /\ Traffic!NoRow = NoRow
  /\ Traffic!InRedis = InRedis
  /\ \A S : Traffic!Tickets(S) = Tickets(S)
BY DEF Traffic!Bucket, Bucket, Traffic!NoBucket, NoBucket, Traffic!Absent,
       Absent, Traffic!NoRow, NoRow, Traffic!InRedis, InRedis,
       Traffic!Tickets, Tickets, Traffic!Units, Units,
       Traffic!Cardinality, Cardinality

(* The scripts of the gate are the scripts of Upkeep's gate.               *)
LEMMA TrafficScripts ==
  ASSUME NEW o \in Order, NEW b \in Bucket
  PROVE  /\ GateAccept(o, b) => Traffic!GateAccept(o, b)
         /\ GateSoldOut(o) => Traffic!GateSoldOut(o)
         /\ Release(o) => Traffic!Release(o)
         /\ Consume(o) => Traffic!Consume(o)
         /\ TimeUp(o) => Traffic!TimeUp(o)
         /\ RedisLoss => Traffic!RedisLoss
         /\ \A n : SeedInventory(b, n) => Traffic!SeedInventory(b, n)
<1> USE TrafficWords
<1>1. LiveHold(Owner[o]) = Traffic!LiveHold(Owner[o])
  BY DEF LiveHold, Traffic!LiveHold
<1>2. \A c \in Bucket : Enough(o, c) <=> Traffic!Enough(o, c)
  BY DEF Enough, Traffic!Enough, Avail, Traffic!Avail
<1>3. \A start : Window(start) = Traffic!Window(start)
  BY DEF Window, Traffic!Window
<1>4. GateAccept(o, b) => Traffic!GateAccept(o, b)
  BY <1>1, <1>2 DEF GateAccept, Traffic!GateAccept
<1>5. GateSoldOut(o) => Traffic!GateSoldOut(o)
  BY <1>1, <1>2, <1>3
     DEF GateSoldOut, Traffic!GateSoldOut, Enough, Traffic!Enough, Avail,
         Traffic!Avail
<1>6. Release(o) => Traffic!Release(o)
  BY DEF Release, Traffic!Release, GiveBack, Traffic!GiveBack, UnmapOwn,
         Traffic!UnmapOwn, Avail, Traffic!Avail, gateVars, Traffic!gateVars
<1>7. Consume(o) => Traffic!Consume(o)
  BY DEF Consume, Traffic!Consume
<1>8. TimeUp(o) => Traffic!TimeUp(o)
  BY DEF TimeUp, Traffic!TimeUp
<1>9. RedisLoss => Traffic!RedisLoss
  BY DEF RedisLoss, Traffic!RedisLoss
<1>10. \A n : SeedInventory(b, n) => Traffic!SeedInventory(b, n)
  BY DEF SeedInventory, Traffic!SeedInventory
<1> QED
  BY <1>4, <1>5, <1>6, <1>7, <1>8, <1>9, <1>10

(* Both instances of the ledger read the tables in the same words.         *)
LEMMA TrafficLedger ==
  /\ Traffic!ledgerVars = Ledger!ledgerVars
  /\ \A b \in Bucket : Traffic!Free(b) = Ledger!Free(b)
  /\ \A o \in Order, b \in Bucket : Ledger!Claim(o, b) => Traffic!Claim(o, b)
  /\ \A o \in Order : Ledger!Return(o) => Traffic!Return(o)
  /\ \A o \in Order : Ledger!Sell(o) => Traffic!Sell(o)
<1>1. Traffic!ledgerVars = Ledger!ledgerVars
  BY DEF Traffic!ledgerVars, Ledger!ledgerVars
<1>2. \A b \in Bucket : Traffic!Free(b) = Ledger!Free(b)
  BY TrafficWords, LedgerVocabulary
     DEF Traffic!Free, Ledger!Free, Traffic!Taken, Ledger!Taken
<1>3. \A o \in Order, b \in Bucket : Ledger!Claim(o, b) => Traffic!Claim(o, b)
  BY <1>2 DEF Traffic!Claim, Ledger!Claim
<1>4. \A o \in Order : Ledger!Return(o) => Traffic!Return(o)
  BY DEF Traffic!Return, Ledger!Return
<1>5. \A o \in Order : Ledger!Sell(o) => Traffic!Sell(o)
  BY DEF Traffic!Sell, Ledger!Sell
<1> QED
  BY <1>1, <1>2, <1>3, <1>4, <1>5

(* What the seeder reads is what the ledger has left.                      *)
LEMMA TrafficAvailable ==
  ASSUME StockInv
  PROVE  Traffic!Available = available
<1>1. \A b \in Bucket : Traffic!Free(b) = available[b]
  BY FreeIsAvailable, TrafficLedger
<1>2. available = [b \in Bucket |-> available[b]]
  BY DEF StockInv, DbTypeOK
<1> QED
  BY <1>1, <1>2, TrafficWords DEF Traffic!Available

(* Nobody reconciles and nobody watches here: one move of the traffic is a *)
(* step of Upkeep, and a step that moves nothing is none.                  *)
LEMMA TrafficMoves ==
  ASSUME \/ \E o \in Order : \/ Traffic!Pass(o) \/ Traffic!Commit(o)
                             \/ Traffic!Settle(o) \/ Traffic!Follow(o)
                             \/ Traffic!Expire(o)
         \/ Traffic!SeedRead
         \/ \E b \in Bucket : Traffic!SeedWrite(b)
         \/ Traffic!LoseRedis
  PROVE  Traffic!UpkeepNext
BY TrafficWords
   DEF Traffic!UpkeepNext, Traffic!Selling, Traffic!OnSale,
       Traffic!SaleState, Traffic!roundVars, Nobodys

(* What the traffic does not see is no step of it.                         *)
LEMMA TrafficRests ==
  ASSUME UNCHANGED <<hold, bucket, gateVars, rows, losses>>
  PROVE  UNCHANGED Traffic!vars
BY DEF gateVars, Traffic!vars, Traffic!trafficVars, Traffic!saleVars,
       Traffic!ledgerVars, Traffic!roundVars, Traffic!watchVars, Nobodys

(* A script of the gate while the tables rest.                             *)
LEMMA TrafficAtGate ==
  ASSUME UNCHANGED <<hold, bucket, rows, losses>>, NEW o \in Order,
         \/ rhold[o] = "none" /\ \E b \in Bucket : GateAccept(o, b)
         \/ rhold[o] = "none" /\ GateSoldOut(o)
         \/ Release(o)
         \/ hold[o] \in {"released", "consumed"} /\ Consume(o)
         \/ TimeUp(o)
         \/ UNCHANGED gateVars,
         GateTypeOK
  PROVE  Traffic!UpkeepNext \/ UNCHANGED Traffic!vars
<1>1. Traffic!GateOnly
  BY DEF Traffic!GateOnly, Traffic!ledgerVars
<1>2. 0 \in Bucket
  BY OrdersAssumption DEF Bucket
<1>3. CASE rhold[o] = "none" /\ \E b \in Bucket : GateAccept(o, b)
  BY <1>1, <1>3, TrafficScripts, TrafficWords, TrafficMoves
     DEF Traffic!Pass
<1>4. CASE rhold[o] = "none" /\ GateSoldOut(o)
  BY <1>1, <1>2, <1>4, TrafficScripts, TrafficMoves DEF Traffic!Pass
<1>5. CASE Release(o)
  <2>1. CASE o \in InRedis
    BY <1>1, <1>2, <1>5, <2>1, TrafficScripts, TrafficWords, TrafficMoves
       DEF Traffic!Follow
  <2>2. CASE o \notin InRedis
    BY <1>5, <2>2, TrafficRests DEF Release
  <2> QED
    BY <2>1, <2>2
<1>6. CASE hold[o] \in {"released", "consumed"} /\ Consume(o)
  <2>1. CASE o \in InRedis
    <3>1. ClaimOf(hold[o]) \in {"sold", "returned"}
      BY <1>6, ClaimValues
    <3> QED
      BY <1>1, <1>2, <1>6, <2>1, <3>1, TrafficScripts, TrafficWords,
         TrafficMoves DEF Traffic!Follow
  <2>2. CASE o \notin InRedis
    <3>1. UNCHANGED gateVars
      BY <1>6, <2>2 DEF Consume, InRedis, gateVars, GateTypeOK
    <3> QED
      BY <3>1, TrafficRests
  <2> QED
    BY <2>1, <2>2
<1>7. CASE TimeUp(o)
  BY <1>1, <1>2, <1>7, TrafficScripts, TrafficMoves DEF Traffic!Expire
<1>8. CASE UNCHANGED gateVars
  BY <1>8, TrafficRests
<1> QED
  BY <1>3, <1>4, <1>5, <1>6, <1>7, <1>8

(* A transaction while Redis rests.  Only PersistHold makes an order, and  *)
(* it claims what its request was given at the gate.                       *)
LEMMA TrafficInDb ==
  ASSUME StockInv, StockInv', [DbNext]_dbVars,
         UNCHANGED <<gateVars, rows, losses>>,
         \A o \in Order : order[o] = "none" => order'[o] = "none"
  PROVE  Traffic!UpkeepNext \/ UNCHANGED Traffic!vars
<1>1. Traffic!DbOnly
  BY DEF Traffic!DbOnly, Traffic!gateVars, gateVars
<1>2. [Ledger!LedgerNext]_(Ledger!ledgerVars)
  BY LedgerStep
<1>3. \A o \in Order, b \in Bucket : ~Ledger!Claim(o, b)
  <2> SUFFICES ASSUME NEW o \in Order, NEW b \in Bucket, Ledger!Claim(o, b)
               PROVE  FALSE
    OBVIOUS
  <2>1. ClaimOf(hold[o]) = "none" /\ ClaimOf(hold'[o]) = "claimed"
    BY DEF Ledger!Claim
  <2>2. hold[o] \in HoldStatus /\ hold'[o] \in HoldStatus
    BY DEF StockInv, DbTypeOK
  <2>3. hold[o] = "none" /\ hold'[o] = "open"
    BY <2>1, <2>2, ClaimValues DEF HoldStatus
  <2> QED
    BY <2>3 DEF StockInv, HoldShape
<1>4. \/ \E o \in Order : Ledger!Return(o) \/ Ledger!Sell(o)
      \/ UNCHANGED Ledger!ledgerVars
  BY <1>2, <1>3, LedgerVocabulary DEF Ledger!LedgerNext
<1>5. CASE \E o \in Order : Ledger!Return(o) \/ Ledger!Sell(o)
  BY <1>1, <1>5, TrafficLedger, TrafficMoves DEF Traffic!Settle
<1>6. CASE UNCHANGED Ledger!ledgerVars
  BY <1>6 DEF Ledger!ledgerVars, gateVars, Traffic!vars,
     Traffic!trafficVars, Traffic!saleVars, Traffic!ledgerVars,
     Traffic!roundVars, Traffic!watchVars, Nobodys
<1> QED
  BY <1>4, <1>5, <1>6
(* An order that was issued, and one the issuer still has in hand, has no  *)
(* open hold any more: the issuer consumes in Redis what has ended.        *)
IssuingEnds ==
    \A o \in Order :
        /\ order[o] = "ISSUED" => hold[o] # "open"
        /\ o \in issuing => hold[o] \in {"released", "consumed"}

(* Holds that ended stay ended, and issuing begins with their end.         *)
LEMMA FlowKeepsIssuingEnds ==
  ASSUME FlowInv, FlowInv', IssuingEnds, [FlowNext]_vars
  PROVE  IssuingEnds'
<1>1. [DbNext]_dbVars
  BY FlowStepIsDbStep DEF FlowInv, FlowTypeOK
<1> SUFFICES ASSUME NEW o \in Order
             PROVE  /\ order'[o] = "ISSUED" => hold'[o] # "open"
                    /\ o \in issuing' => hold'[o] \in {"released", "consumed"}
  BY DEF IssuingEnds
<1>2. /\ hold[o] \in {"released", "consumed"} => hold'[o] = hold[o]
      /\ hold'[o] = "open" => hold[o] = "open" \/ order[o] = "none"
      /\ order'[o] = "ISSUED" => order[o] = "ISSUED" \/ hold'[o] # "open"
  BY <1>1, DbHoldMoves DEF FlowInv
<1>3. order'[o] = "ISSUED" => hold'[o] # "open"
  BY <1>2 DEF IssuingEnds
<1>4. o \in issuing' => o \in issuing \/ order'[o] = "ISSUED"
  <2>1. ASSUME NEW q \in Order, IssueInDb(q)
        PROVE  issuing' = issuing \cup {q} /\ order'[q] = "ISSUED"
    BY <2>1 DEF IssueInDb, IssueTicketsTx, FlowInv, DbInv, StockInv,
                DbTypeOK, dbVars
  <2>2. CASE \E q \in Order : IssueInDb(q)
    BY <2>1, <2>2
  <2>3. CASE \A q \in Order : ~IssueInDb(q)
    <3>1. issuing' \subseteq issuing
      BY <2>3 DEF FlowNext, Request, CountPurchased, PassGate,
         GateReplyLost, PersistCount, PersistCommit, PersistRollback,
         PersistFail, Compensate, RequestCrash, RequestOnly, AfterHold,
         CancelInDb, CancelInRedis, IssueInRedis, Clock, Sweep, Discover,
         SweepList, SweepInDb, SweepInRedis, SweepFail, SeedRead, SeedWrite,
         LoseRedis, PaymentService, flowVars, vars
    <3> QED
      BY <3>1
  <2> QED
    BY <2>2, <2>3
<1>5. order'[o] = "ISSUED" => hold'[o] \in {"released", "consumed"}
  BY <1>3 DEF FlowInv, DbInv, StockInv, DbTypeOK, HoldStatus, HoldShape
<1> QED
  BY <1>2, <1>3, <1>4, <1>5 DEF IssuingEnds

(* A request on its way is traffic.                                        *)
LEMMA RequestIsTraffic ==
  ASSUME FlowInv, FlowInv', NEW o \in Order, Request(o)
  PROVE  Traffic!UpkeepNext \/ UNCHANGED Traffic!vars
<1>0. /\ StockInv /\ StockInv' /\ GateTypeOK /\ RequestShape
      /\ UNCHANGED <<rows, losses>>
  BY DEF FlowInv, DbInv, FlowTypeOK, Request, CountPurchased, PassGate,
     GateReplyLost, PersistCount, PersistCommit, PersistRollback,
     PersistFail, Compensate, RequestCrash, RequestOnly
<1>1. CASE PassGate(o) \/ GateReplyLost(o)
  <2>1. rhold[o] = "none" /\ UNCHANGED <<hold, bucket>>
    BY <1>0, <1>1 DEF RequestShape, PassGate, GateReplyLost, dbVars, tables
  <2> QED
    BY <1>0, <1>1, <2>1, TrafficAtGate
       DEF PassGate, GateReplyLost, GateAlreadyHolding
<1>2. CASE PersistCommit(o)
  <2>1. rhold[o] # "none" /\ rbucket[o] \in Bucket
    BY <1>0, <1>2 DEF RequestShape, PersistCommit
  <2>2. CommitHold(o, rbucket[o]) /\ UNCHANGED gateVars
    BY <1>2 DEF PersistCommit
  <2>3. Ledger!Claim(o, rbucket[o])
    BY <1>0, <2>1, <2>2, CommitIsClaim
  <2>4. Traffic!DbOnly
    BY <1>0, <2>2 DEF Traffic!DbOnly, Traffic!gateVars, gateVars
  <2> QED
    BY <2>1, <2>3, <2>4, TrafficLedger, TrafficMoves DEF Traffic!Commit
<1>3. CASE Compensate(o)
  BY <1>0, <1>3, TrafficAtGate DEF Compensate, dbVars, tables
<1>4. CASE CountPurchased(o) \/ PersistFail(o)
  BY <1>0, <1>4, TrafficRests DEF CountPurchased, PersistFail, dbVars, tables
<1>5. CASE PersistCount(o) \/ PersistRollback(o) \/ RequestCrash(o)
  BY <1>0, <1>5, TrafficRests
     DEF PersistCount, PersistRollback, RequestCrash, CountQuota,
         RollbackHold, tables
<1> QED
  BY <1>1, <1>2, <1>3, <1>4, <1>5 DEF Request

(* So is everything else that reaches one of the tiers.                    *)
LEMMA OthersAreTraffic ==
  ASSUME FlowInv, FlowInv', IssuingEnds, [FlowNext]_vars,
         \A o \in Order : ~Request(o)
  PROVE  Traffic!UpkeepNext \/ UNCHANGED Traffic!vars
<1>0. /\ StockInv /\ StockInv' /\ GateTypeOK /\ DbInv /\ [DbNext]_dbVars
      /\ 0 \in Bucket
  BY FlowStepIsDbStep, OrdersAssumption
     DEF FlowInv, DbInv, FlowTypeOK, Bucket
<1>1. ASSUME UNCHANGED <<gateVars, rows, losses>>,
             \/ \E q \in Order : \/ ReleaseHold(q) \/ CancelHold(q)
                                 \/ SettleTx(q)
             \/ \E p \in Payment : PaymentTx(p)
             \/ UNCHANGED dbVars
      PROVE  Traffic!UpkeepNext \/ UNCHANGED Traffic!vars
  <2>1. \A o \in Order : order[o] = "none" => order'[o] = "none"
    BY <1>0, <1>1, OnlyCommitMakesOrders
  <2> QED
    BY <1>0, <1>1, <2>1, TrafficInDb
<1>2. ASSUME NEW o \in Order, AfterHold(o)
      PROVE  Traffic!UpkeepNext \/ UNCHANGED Traffic!vars
  <2>1. CASE CancelInDb(o) \/ IssueInDb(o)
    BY <1>1, <2>1 DEF CancelInDb, IssueInDb, SettleTx
  <2>2. CASE CancelInRedis(o)
    BY <1>0, <2>2, TrafficAtGate DEF CancelInRedis, dbVars, tables
  <2>3. CASE IssueInRedis(o)
    BY <1>0, <2>3, TrafficAtGate DEF IssueInRedis, IssuingEnds, dbVars, tables
  <2>4. CASE Clock(o)
    BY <1>0, <2>4, TrafficAtGate DEF Clock, dbVars, tables, flowVars
  <2> QED
    BY <1>2, <2>1, <2>2, <2>3, <2>4 DEF AfterHold
<1>3. ASSUME NEW w \in Sweeper, Sweep(w)
      PROVE  Traffic!UpkeepNext \/ UNCHANGED Traffic!vars
  <2>1. ASSUME NEW o \in Order, SweepInDb(w, o)
        PROVE  Traffic!UpkeepNext \/ UNCHANGED Traffic!vars
    BY <1>1, <2>1 DEF SweepInDb
  <2>2. ASSUME NEW o \in Order, SweepInRedis(w, o)
        PROVE  Traffic!UpkeepNext \/ UNCHANGED Traffic!vars
    BY <1>0, <2>2, TrafficAtGate DEF SweepInRedis, dbVars, tables
  <2>3. CASE Discover(w) \/ SweepList(w) \/ SweepFail(w)
    BY <1>1, <2>3 DEF Discover, SweepList, SweepFail
  <2> QED
    BY <1>3, <2>1, <2>2, <2>3 DEF Sweep
<1>4. CASE SeedRead
  <2>1. Traffic!SeedRead
    BY <1>0, <1>4, TrafficAvailable, TrafficWords
       DEF SeedRead, Traffic!SeedRead, Traffic!ledgerVars,
           Traffic!gateVars, dbVars, tables, gateVars
  <2> QED
    BY <2>1, TrafficMoves
<1>5. ASSUME NEW b \in Bucket, SeedWrite(b)
      PROVE  Traffic!UpkeepNext \/ UNCHANGED Traffic!vars
  <2>1. Traffic!SeedWrite(b)
    <3>1. Traffic!SeedInventory(b, rows[b]) \/ UNCHANGED Traffic!gateVars
      BY <1>5, TrafficScripts, TrafficWords
         DEF SeedWrite, SeedInventory, Traffic!SeedInventory, gateVars,
             Traffic!gateVars
    <3> QED
      BY <1>5, <3>1, TrafficWords
         DEF SeedWrite, Traffic!SeedWrite, Traffic!ledgerVars, dbVars, tables
  <2> QED
    BY <2>1, TrafficMoves
<1>6. CASE LoseRedis
  <2>1. Traffic!RedisLoss
    BY <1>6, TrafficWords DEF LoseRedis, RedisLoss, Traffic!RedisLoss
  <2>2. Traffic!LoseRedis
    BY <1>6, <2>1 DEF LoseRedis, Traffic!LoseRedis, Traffic!ledgerVars,
       dbVars, tables
  <2> QED
    BY <2>2, TrafficMoves
<1>7. CASE PaymentService
  BY <1>1, <1>7 DEF PaymentService, SettleTx, flowVars
<1>8. CASE UNCHANGED vars
  BY <1>8, TrafficRests DEF vars, dbVars, tables, flowVars
<1> QED
  BY <1>2, <1>3, <1>4, <1>5, <1>6, <1>7, <1>8 DEF FlowNext

(* Before the sale nothing has moved.                                      *)
LEMMA TrafficInitial == FlowInit => IssuingEnds /\ Traffic!UpkeepInit
<1> SUFFICES ASSUME FlowInit
             PROVE  IssuingEnds /\ Traffic!UpkeepInit
  OBVIOUS
<1>1. IssuingEnds
  BY DEF FlowInit, DbInit, IssuingEnds
<1>2. Traffic!GateInit /\ Traffic!LedgerInit
  BY TrafficWords, ClaimValues
     DEF FlowInit, DbInit, GateInit, Traffic!GateInit, Traffic!LedgerInit
<1>3. \A x : Nobodys = [w \in {} |-> x]
  BY DEF Nobodys
<1> QED
  BY <1>1, <1>2, <1>3, TrafficWords
     DEF FlowInit, Traffic!UpkeepInit, Traffic!OnSale, Traffic!SaleState

(* The reconciler and the watcher of Upkeep were checked against traffic   *)
(* wide enough: all that create_hold.go, the sweeper, cancellation,        *)
(* payment, issuing and the seeder do to Redis and Postgres, with every    *)
(* fault, is what Upkeep lets happen around them.                          *)
THEOREM FlowIsUpkeepTraffic == FlowSpec => FeedsUpkeep
<1>1. FlowInit => IssuingEnds /\ Traffic!UpkeepInit
  BY TrafficInitial
<1>2. FlowInv /\ FlowInv' /\ IssuingEnds /\ [FlowNext]_vars => IssuingEnds'
  BY FlowKeepsIssuingEnds
<1>3. FlowInv /\ FlowInv' /\ IssuingEnds /\ [FlowNext]_vars
        => [Traffic!UpkeepNext]_(Traffic!vars)
  BY RequestIsTraffic, OthersAreTraffic DEF FlowNext
<1> QED
  BY <1>1, <1>2, <1>3, FlowInvariant, PTL
     DEF FlowSpec, FeedsUpkeep, Traffic!UpkeepSpec
=============================================================================
