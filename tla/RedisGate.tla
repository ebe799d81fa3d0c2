----------------------------- MODULE RedisGate -----------------------------
(***************************************************************************)
(* The Redis keys of one event that stop a request for tickets before it   *)
(* reaches Postgres, and the atomic scripts that change them.  Redis keeps *)
(* a hold until it is released, consumed or lost with the keys; the model  *)
(* remembers which of them it was.                                         *)
(***************************************************************************)
EXTENDS Orders

CONSTANT NoOrder   \* what uhold maps a customer without a hold to

ASSUME NoOrderAssumption == NoOrder \notin Order

VARIABLES
    inv,      \* inv[b]: field b of hash inv:{ev}:tt:<type>
    rhold,    \* rhold[o]: "held" while o is in hold:{ev}:h and hold:{ev}:z
    rbucket,  \* rbucket[o]: the bucket written into the hold
    uhold,    \* uhold[i]: hash uhold:{ev}, the last hold of a customer
    expired   \* holds whose expires_at (the zset's score) has passed

gateVars == <<inv, rhold, rbucket, uhold, expired>>

Absent == -1
RedisHoldStatus == {"none", "held", "released", "consumed", "lost"}

InRedis == {o \in Order : rhold[o] = "held"}

(* Lua: HGET or '0'.                                                       *)
Avail(b) == IF inv[b] = Absent THEN 0 ELSE inv[b]

-----------------------------------------------------------------------------
(* hold.lua.  BR-O3 first: the hold a customer already has, if it is alive *)
LiveHold(id) ==
    {o \in InRedis \ expired : uhold[id] = o}

GateAlreadyHolding(o) ==
    /\ LiveHold(Owner[o]) # {}
    /\ UNCHANGED gateVars

(* The scan looks at three buckets at most, from a random one on: it can   *)
(* choose any bucket with enough tickets, and can miss the others.         *)
Window(start) == {(start + i) % NBuckets : i \in 0..2}

Unguarded(o, b) == TRUE   \* mutant: the counter is not looked at
Enough(o, b) == Avail(b) >= Qty[o]

GateAccept(o, b) ==
    /\ LiveHold(Owner[o]) = {}
    /\ Enough(o, b)
    /\ inv' = [inv EXCEPT ![b] = @ - Qty[o]]
    /\ rhold' = [rhold EXCEPT ![o] = "held"]
    /\ rbucket' = [rbucket EXCEPT ![o] = b]
    /\ uhold' = [uhold EXCEPT ![Owner[o]] = o]
    /\ UNCHANGED expired

(* A stale mapping is gone even when the scan finds nothing.               *)
GateSoldOut(o) ==
    /\ LiveHold(Owner[o]) = {}
    /\ \E start \in Bucket : \A b \in Window(start) : ~Enough(o, b)
    /\ uhold' = [uhold EXCEPT ![Owner[o]] = NoOrder]
    /\ UNCHANGED <<inv, rhold, rbucket, expired>>

-----------------------------------------------------------------------------
(* release.lua: a hold that is not in the hash any more is a NOOP.         *)
Unmap(o) ==   \* mutant: the mapping is dropped whoever it names
    uhold' = [uhold EXCEPT ![Owner[o]] = NoOrder]
UnmapOwn(o) ==
    uhold' = [uhold EXCEPT ![Owner[o]] = IF @ = o THEN NoOrder ELSE @]

GiveBack(o) ==
    /\ rhold' = [rhold EXCEPT ![o] = "released"]
    /\ inv' = [inv EXCEPT ![rbucket[o]] = Avail(rbucket[o]) + Qty[o]]
    /\ UnmapOwn(o)
    /\ UNCHANGED <<rbucket, expired>>

ReleaseAgain(o) == GiveBack(o)   \* mutant: the hash is not asked
Release(o) ==
    IF o \in InRedis
    THEN GiveBack(o)
    ELSE UNCHANGED gateVars

(* HDEL and ZREM in one MULTI; the customer's mapping stays behind.        *)
Consume(o) ==
    /\ rhold' = [rhold EXCEPT ![o] = IF @ = "held" THEN "consumed" ELSE @]
    /\ UNCHANGED <<inv, rbucket, uhold, expired>>

(* HSETNX: only a field that is not there.                                 *)
SetInventory(b, n) ==   \* mutant: HSET
    /\ inv' = [inv EXCEPT ![b] = n]
    /\ UNCHANGED <<rhold, rbucket, uhold, expired>>

SeedInventory(b, n) ==
    /\ inv' = [inv EXCEPT ![b] = IF @ = Absent THEN n ELSE @]
    /\ UNCHANGED <<rhold, rbucket, uhold, expired>>

ExpiredHolds == InRedis \cap expired

-----------------------------------------------------------------------------
(* The environment: clocks pass a hold's expires_at, and Redis may come    *)
(* back empty (hold.lua counts on "failover, mat du lieu").                *)
TimeUp(o) ==
    /\ rhold[o] # "none"
    /\ o \notin expired
    /\ expired' = expired \cup {o}
    /\ UNCHANGED <<inv, rhold, rbucket, uhold>>

RedisLoss ==
    /\ inv' = [b \in Bucket |-> Absent]
    /\ rhold' = [o \in Order |-> IF rhold[o] = "held" THEN "lost"
                                                      ELSE rhold[o]]
    /\ uhold' = [i \in Identity |-> NoOrder]
    /\ UNCHANGED <<rbucket, expired>>

GateInit ==
    /\ inv = [b \in Bucket |-> Absent]
    /\ rhold = [o \in Order |-> "none"]
    /\ rbucket = [o \in Order |-> NoBucket]
    /\ uhold = [i \in Identity |-> NoOrder]
    /\ expired = {}

GateTypeOK ==
    /\ inv \in [Bucket -> Nat \cup {Absent}]
    /\ rhold \in [Order -> RedisHoldStatus]
    /\ rbucket \in [Order -> Bucket \cup {NoBucket}]
    /\ uhold \in [Identity -> Order \cup {NoOrder}]
    /\ expired \subseteq Order
=============================================================================
