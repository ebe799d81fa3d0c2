-------------------------- MODULE AdmitController --------------------------
(***************************************************************************)
(* How many people the controller of an event lets in per second: a rate   *)
(* that grows by a step while ticketing is healthy and shrinks by a factor *)
(* while it is not (AIMD), that the next leader takes over from Redis, and *)
(* that Ops may override there, with 0 as the emergency stop.              *)
(*                                                                         *)
(* Rates are integers, Unit of them a person per second (1000 in the code, *)
(* the tick being one second).  The lottery that precedes the first tick   *)
(* is in WaitingRoom; here the queue never runs dry.                       *)
(***************************************************************************)
EXTENDS LeaderLease

CONSTANTS
    Unit,
    MinRate, MaxRate, StepUp,
    Backoff,      \* in tenths
    DecreaseCooldown,
    OpsRates,     \* what Ops may order
    Failures      \* "failed_read", "failed_call", "lost_reply"

ASSUME RateAssumption ==
    /\ Unit \in Nat \ {0}
    /\ MinRate \in Nat \ {0}
    /\ MaxRate \in Nat /\ MinRate <= MaxRate
    /\ StepUp \in Nat \ {0}
    /\ Backoff \in 1..9
    /\ DecreaseCooldown \in Nat
    /\ OpsRates \subseteq Nat
    /\ Failures \subseteq {"failed_read", "failed_call", "lost_reply"}

VARIABLES
    order,      \* meta.override and meta.override_rate
    admitRate,  \* meta.admit_rate
    healthy,    \* what the probe says of ticketing
    step,       \* step[i]: the next call of the controller of i
    rate,       \* rate[i], in its memory, like the three that follow
    override,
    fromStore,
    cooldown,
    due,        \* due[i]: the order of Ops when the tick began
    passed      \* passed[i]: people let in by this tick

redis == <<order, admitRate>>
memory == <<step, rate, override, fromStore, cooldown>>
vars == <<leaseVars, redis, healthy, memory, due, passed>>

NoRate == -1
Steps == {"restore", "sync", "adjust", "publish", "admit"}

Clamp(r, lo, hi) == IF r < lo THEN lo ELSE IF r > hi THEN hi ELSE r
Batch(r) == (2 * r + Unit) \div (2 * Unit)   \* math.Round

RateInit ==
    /\ LeaseInit
    /\ order = NoRate /\ admitRate = NoRate /\ healthy = TRUE
    /\ step = [i \in Instance |-> "restore"]
    /\ rate = [i \in Instance |-> MinRate]
    /\ override = [i \in Instance |-> FALSE]
    /\ fromStore = [i \in Instance |-> FALSE]
    /\ cooldown = [i \in Instance |-> 0]
    /\ due = [i \in Instance |-> NoRate]
    /\ passed = [i \in Instance |-> 0]

At(i, s) == leading[i] # NoTerm /\ step[i] = s
GoTo(i, s) == step' = [step EXCEPT ![i] = s]

-----------------------------------------------------------------------------
(* A term begins with a new controller.                                    *)
Begin(i) ==
    /\ Acquire(i)
    /\ GoTo(i, "restore")
    /\ rate' = [rate EXCEPT ![i] = MinRate]
    /\ override' = [override EXCEPT ![i] = FALSE]
    /\ fromStore' = [fromStore EXCEPT ![i] = FALSE]
    /\ cooldown' = [cooldown EXCEPT ![i] = 0]
    /\ UNCHANGED <<redis, healthy, due, passed>>

FromFloor(i) == rate[i]   \* mutant: the rate of the last leader is not read
Restored(i) ==
    IF admitRate > 0 THEN Clamp(admitRate, MinRate, MaxRate) ELSE rate[i]

Restore(i) ==
    /\ At(i, "restore")
    /\ GoTo(i, "sync")
    /\ \/ /\ rate' = [rate EXCEPT ![i] = Restored(i)]
          /\ UNCHANGED faults
       \/ /\ "failed_read" \in Failures /\ Fault
          /\ UNCHANGED rate
    /\ UNCHANGED <<lock, epochKey, now, leading, lastWrite, redis, healthy,
                   override, fromStore, cooldown, due, passed>>

(* syncOverride, the first call of a tick.                                 *)
Unclamped == order   \* mutant: the ceiling does not bind Ops
Ordered == Clamp(order, 0, MaxRate)

Obey(i) ==
    \/ /\ order # NoRate
       /\ override' = [override EXCEPT ![i] = TRUE]
       /\ rate' = [rate EXCEPT ![i] = Ordered]
       /\ fromStore' = [fromStore EXCEPT ![i] = TRUE]
    \/ /\ order = NoRate
       /\ override' = [override EXCEPT ![i] = @ /\ ~fromStore[i]]
       /\ fromStore' = [fromStore EXCEPT ![i] = FALSE]
       /\ UNCHANGED rate

SyncOverride(i) ==
    /\ At(i, "sync")
    /\ due' = [due EXCEPT ![i] = order]
    /\ passed' = [passed EXCEPT ![i] = 0]
    /\ GoTo(i, "adjust")
    /\ \/ Obey(i) /\ UNCHANGED faults
       \/ /\ "failed_read" \in Failures /\ Fault
          /\ UNCHANGED <<override, rate, fromStore>>
    /\ UNCHANGED <<lock, epochKey, now, leading, lastWrite, redis, healthy,
                   cooldown>>

-----------------------------------------------------------------------------
(* adjust.  The rate is this controller's own: SetRateOverride in memory,  *)
(* against which the code guards it by CompareAndSwap, has no caller.      *)
Ignored(i) == FALSE   \* mutant: AIMD runs whatever Ops say
Overridden(i) == override[i]

NoFloor(i) ==   \* mutant: the result is not raised to the floor
    Clamp(IF healthy THEN rate[i] + StepUp ELSE (rate[i] * Backoff) \div 10,
          0, MaxRate)
Never(i) == Clamp(rate[i] + StepUp, MinRate, MaxRate)   \* mutant: no decrease
NextRate(i) ==
    Clamp(IF healthy THEN rate[i] + StepUp ELSE (rate[i] * Backoff) \div 10,
          MinRate, MaxRate)

Adjust(i) ==
    /\ At(i, "adjust")
    /\ \/ Overridden(i) /\ UNCHANGED <<rate, cooldown>>
       \/ /\ ~Overridden(i) /\ cooldown[i] > 0
          /\ cooldown' = [cooldown EXCEPT ![i] = @ - 1]
          /\ UNCHANGED rate
       \/ /\ ~Overridden(i) /\ cooldown[i] = 0
          /\ rate' = [rate EXCEPT ![i] = NextRate(i)]
          /\ cooldown' = [cooldown EXCEPT ![i] =
                IF NextRate(i) < rate[i] THEN DecreaseCooldown ELSE 0]
    /\ GoTo(i, "publish")
    /\ UNCHANGED <<leaseVars, redis, healthy, override, fromStore, due,
                   passed>>

-----------------------------------------------------------------------------
(* SetAdmitRate and Admit, fenced, the second one with a batch only.       *)
SetAdmitRate(i) ==
    /\ At(i, "publish")
    /\ Write(i)
    /\ admitRate' = rate[i]
    /\ GoTo(i, IF Batch(rate[i]) > 0 THEN "admit" ELSE "sync")
    /\ UNCHANGED <<order, healthy, rate, override, fromStore, cooldown,
                   due, passed>>

(* The answer may be lost on its way to the client, which tries again.     *)
Admit(i) ==
    /\ At(i, "admit")
    /\ EpochHolds(i)
    /\ lastWrite' = [epoch |-> leading[i], by |-> i]
    /\ passed' = [passed EXCEPT ![i] = @ + Batch(rate[i])]
    /\ \/ GoTo(i, "sync") /\ UNCHANGED faults
       \/ "lost_reply" \in Failures /\ Fault /\ UNCHANGED step
    /\ UNCHANGED <<lock, epochKey, now, leading, redis, healthy, rate,
                   override, fromStore, cooldown, due>>

(* An error other than FENCED ends the tick.                               *)
CallFails(i) ==
    /\ At(i, "publish") \/ At(i, "admit")
    /\ "failed_call" \in Failures /\ Fault
    /\ GoTo(i, "sync")
    /\ UNCHANGED <<lock, epochKey, now, leading, lastWrite, redis, healthy,
                   rate, override, fromStore, cooldown, due, passed>>

Fenced(i) ==
    /\ At(i, "publish") \/ At(i, "admit")
    /\ ~EpochHolds(i)
    /\ EndTerm(i)
    /\ UNCHANGED <<faults, redis, healthy, memory, due, passed>>

-----------------------------------------------------------------------------
(* Ops and ticketing.                                                      *)
SetRateOverride(r) ==
    /\ order' = r /\ order # r
    /\ UNCHANGED <<leaseVars, admitRate, healthy, memory, due, passed>>

HealthChanges ==
    /\ healthy' = ~healthy
    /\ UNCHANGED <<leaseVars, redis, memory, due, passed>>

Lease(i) ==
    /\ AcquireReplyLost(i) \/ StepDown(i) \/ LeaderCrash(i)
    /\ UNCHANGED <<redis, healthy, memory, due, passed>>

Controller(i) ==
    \/ Begin(i)
    \/ Restore(i)
    \/ SyncOverride(i)
    \/ Adjust(i)
    \/ SetAdmitRate(i)
    \/ Admit(i)
    \/ CallFails(i)
    \/ Fenced(i)

RateNext ==
    \/ \E i \in Instance : Controller(i) \/ Lease(i)
    \/ /\ LeaseExpires \/ EpochLost
       /\ UNCHANGED <<redis, healthy, memory, due, passed>>
    \/ \E r \in OpsRates \cup {NoRate} : SetRateOverride(r)
    \/ HealthChanges

RateSpec == RateInit /\ [][RateNext]_vars

(* The loops of the controllers run on; the other leases end.              *)
RateFairness ==
    /\ WF_vars(LeaseExpires /\ UNCHANGED <<faults, redis, healthy, memory, due,
                                           passed>>)
    /\ \A i \in Instance :
          /\ WF_vars(Begin(i))
          /\ WF_vars(Restore(i) \/ SyncOverride(i) \/ Adjust(i)
                        \/ SetAdmitRate(i) \/ Admit(i) \/ Fenced(i))
          /\ WF_vars(Lease(i) /\ UNCHANGED faults)

FairRateSpec == RateSpec /\ RateFairness

-----------------------------------------------------------------------------
RateTypeOK ==
    /\ LeaseTypeOK
    /\ order \in OpsRates \cup {NoRate}
    /\ admitRate \in 0..MaxRate \cup {NoRate}
    /\ healthy \in BOOLEAN
    /\ step \in [Instance -> Steps]
    /\ rate \in [Instance -> 0..MaxRate]
    /\ override \in [Instance -> BOOLEAN]
    /\ fromStore \in [Instance -> BOOLEAN]
    /\ cooldown \in [Instance -> 0..DecreaseCooldown]
    /\ due \in [Instance -> OpsRates \cup {NoRate}]
    /\ passed \in [Instance -> Nat]

(* BR-Q5.5: a tick that began under an order of Ops lets in what Ops said  *)
(* and no more, whoever leads, since when, and what AIMD was about to do.  *)
OpsObeyed ==
    \A i \in Instance :
        (At(i, "publish") \/ At(i, "admit")) /\ due[i] # NoRate
            => rate[i] = Clamp(due[i], 0, MaxRate)

(* BR-Q5.5: what Ops ordered and a leader obeyed stays obeyed over changes *)
(* of the leader, until Ops order something else.                          *)
StaysObeyed ==
    [][\A i \in Instance :
          /\ SetAdmitRate(i) /\ order # NoRate /\ due[i] = order
          /\ admitRate = Clamp(order, 0, MaxRate)
          => admitRate' = admitRate]_vars

(* BR-Q5.4: no tick lets in more people than the ceiling allows.           *)
WithinCeiling == \A i \in Instance : passed[i] <= Batch(MaxRate)

(* BR-Q5.6: a new leader goes on from the rate of the last one: its first  *)
(* tick lowers that rate by one step back at most, unless Ops ordered it.  *)
HandOver ==
    [][\A i \in Instance :
          /\ SetAdmitRate(i) /\ lastWrite.epoch # leading[i]
          /\ due[i] = NoRate /\ admitRate # NoRate
          => admitRate' >= (admitRate * Backoff) \div 10]_vars

(* BR-Q5.4: the published rate is between floor and ceiling while Ops do   *)
(* not order another one.                                                  *)
InBand ==
    \A i \in Instance :
        At(i, "publish") /\ due[i] = NoRate => rate[i] \in MinRate..MaxRate

(* admit.go:69 "hang cho khong duoc dung han": a tick that Ops do not slow *)
(* down lets somebody in.                                                  *)
QueueMoves ==
    \A i \in Instance :
        At(i, "publish") /\ due[i] = NoRate => Batch(rate[i]) > 0

(* BR-Q5.4, Q5.5: once Ops let go for good the rate returns to the band,   *)
(* over crashes, pauses, failed calls and changes of the leader.           *)
ReturnsToBand == <>[](order = NoRate) => <>[](admitRate >= MinRate)

(* BR-Q5.3: under pressure that does not end, the rate sinks to the floor. *)
SinksToFloor ==
    <>[](order = NoRate /\ ~healthy) => <>[](admitRate = MinRate)
=============================================================================
