----------------------- MODULE AdmitControllerProofs -----------------------
(***************************************************************************)
(* Proofs about the admit controller, for every set of instances, every    *)
(* setting of the rates and every order of Ops: its terms keep the lease's *)
(* invariant, a tick that could read Redis lets in what Ops ordered, and   *)
(* none lets in more than the ceiling unless a call of it is repeated.     *)
(***************************************************************************)
EXTENDS AdmitController, LeaderLeaseProofs

-----------------------------------------------------------------------------
(* Rates.                                                                  *)
LEMMA RateConstants ==
  /\ Unit \in Nat /\ Unit > 0
  /\ MinRate \in Nat /\ MaxRate \in Nat /\ MinRate <= MaxRate
  /\ StepUp \in Nat /\ Backoff \in Nat /\ DecreaseCooldown \in Nat
  /\ OpsRates \subseteq Nat /\ NoRate \notin Nat
BY RateAssumption DEF NoRate

(* What clamp of admit_controller.go returns lies between its bounds.      *)
LEMMA ClampType ==
  ASSUME NEW lo \in Nat, NEW hi \in Nat, lo <= hi, NEW r \in Int
  PROVE  Clamp(r, lo, hi) \in lo..hi
BY DEF Clamp

(* The clamp of an order of Ops leaves rates up to the ceiling alone.      *)
LEMMA ClampIdle ==
  ASSUME NEW r \in 0..MaxRate
  PROVE  Clamp(r, 0, MaxRate) = r
BY RateConstants DEF Clamp

(* math.Round of a larger rate is no smaller.                              *)
LEMMA DivMono ==
  ASSUME NEW a \in Nat, NEW b \in Nat, a <= b, NEW d \in Nat, d > 0
  PROVE  a \div d \in Nat /\ a \div d <= b \div d
<1> DEFINE q == a \div d
           r == b \div d
<1>1. q \in Int /\ r \in Int /\ d * q <= a /\ b < d * r + d
  OBVIOUS
<1>2. q >= 0
  OBVIOUS
<1>3. ASSUME r + 1 <= q
      PROVE  FALSE
  <2>1. d * (r + 1) <= d * q
    BY <1>1, <1>3
  <2>2. d * (r + 1) = d * r + d
    BY <1>1
  <2> QED
    BY <1>1, <2>1, <2>2
<1> QED
  BY <1>1, <1>2, <1>3

(* No published rate lets more people in per tick than the ceiling does.   *)
LEMMA BatchMono ==
  ASSUME NEW r \in 0..MaxRate
  PROVE  Batch(r) \in Nat /\ Batch(r) <= Batch(MaxRate)
<1> DEFINE a == 2 * r + Unit
           b == 2 * MaxRate + Unit
           d == 2 * Unit
<1>1. a \in Nat /\ b \in Nat /\ a <= b /\ d \in Nat /\ d > 0
  BY RateConstants
<1>2. a \div d \in Nat /\ a \div d <= b \div d
  <2> HIDE DEF a, b, d
  <2> QED
    BY <1>1, DivMono
<1> QED
  BY <1>2 DEF Batch

-----------------------------------------------------------------------------
(* The controllers use the lease as it may be used, with failed reads and  *)
(* lost answers counted among its faults.                                  *)
LEMMA RateStepKeepsLease ==
  ASSUME LeaseInv, [RateNext]_vars
  PROVE  LeaseInv'
<1>0. LeaseTypeOK
  BY DEF LeaseInv
<1>1. ASSUME NEW i \in Instance, Controller(i)
      PROVE  LeaseInv'
  <2>1. CASE Begin(i)
    BY <2>1, LeaseStep DEF Begin, LeaseNext, Term
  <2>2. CASE Restore(i) \/ SyncOverride(i) \/ CallFails(i)
    <3>1. faults' \in 0..MaxFaults
      BY <1>0, <2>2, FaultType DEF Restore, SyncOverride, CallFails
    <3>2. UNCHANGED <<lock, epochKey, now, leading, lastWrite>>
      BY <2>2 DEF Restore, SyncOverride, CallFails
    <3> QED
      BY <3>1, <3>2, EndingKeeps
  <2>3. CASE Adjust(i)
    BY <2>3, LeaseStep DEF Adjust
  <2>4. CASE SetAdmitRate(i)
    BY <2>4, LeaseStep DEF SetAdmitRate, LeaseNext
  <2>5. CASE Admit(i)
    <3>1. faults' \in 0..MaxFaults
      BY <1>0, <2>5, FaultType DEF Admit
    <3> QED
      BY <2>5, <3>1, WriteKeeps DEF Admit
  <2>6. CASE Fenced(i)
    BY <2>6, LeaseStep DEF Fenced, LeaseNext
  <2> QED
    BY <1>1, <2>1, <2>2, <2>3, <2>4, <2>5, <2>6 DEF Controller
<1>2. ASSUME NEW i \in Instance, Lease(i)
      PROVE  LeaseInv'
  BY <1>2, LeaseStep DEF Lease, LeaseNext, Term
<1>3. CASE LeaseExpires \/ EpochLost
  BY <1>3, LeaseStep DEF LeaseNext
<1>4. CASE UNCHANGED leaseVars
  BY <1>4, LeaseStep
<1> QED
  BY <1>1, <1>2, <1>3, <1>4
     DEF RateNext, SetRateOverride, HealthChanges, vars

-----------------------------------------------------------------------------
RateInv == LeaseInv /\ RateTypeOK

(* Before the first tick of any controller.                                *)
LEMMA RateInitially == RateInit => RateInv
<1> SUFFICES ASSUME RateInit
             PROVE  RateInv
  OBVIOUS
<1>1. LeaseInv
  BY LeaseInitially DEF RateInit
<1> QED
  BY <1>1, RateConstants DEF RateInit, RateInv, LeaseInv, RateTypeOK, Steps

(* The values a tick computes.                                             *)
LEMMA RateValues ==
  ASSUME RateTypeOK, NEW i \in Instance
  PROVE  /\ Restored(i) \in 0..MaxRate
         /\ NextRate(i) \in 0..MaxRate
         /\ order # NoRate => Ordered \in 0..MaxRate
<1>1. rate[i] \in 0..MaxRate /\ admitRate \in 0..MaxRate \cup {NoRate}
  BY DEF RateTypeOK
<1>2. Restored(i) \in 0..MaxRate
  BY <1>1, RateConstants DEF Restored, Clamp
<1>3. NextRate(i) \in 0..MaxRate
  <2>1. rate[i] * Backoff \in Nat
    BY <1>1, RateConstants
  <2>2. (rate[i] * Backoff) \div 10 \in Nat
    BY <2>1, DivMono
  <2> QED
    BY <1>1, <2>2, RateConstants DEF NextRate, Clamp
<1>4. order # NoRate => Ordered \in 0..MaxRate
  BY RateConstants DEF RateTypeOK, Ordered, Clamp
<1> QED
  BY <1>2, <1>3, <1>4

(* Every call of a tick, and every change of the leader, keeps the types.  *)
LEMMA RateStepTypes ==
  ASSUME RateTypeOK, LeaseTypeOK', [RateNext]_vars
  PROVE  RateTypeOK'
<1> USE RateConstants DEF RateTypeOK, Steps, GoTo, redis, memory
<1>1. ASSUME NEW i \in Instance, Controller(i)
      PROVE  RateTypeOK'
  <2>1. CASE Begin(i)
    BY <2>1 DEF Begin
  <2>2. CASE Restore(i)
    BY <2>2, RateValues DEF Restore
  <2>3. CASE SyncOverride(i)
    BY <2>3, RateValues DEF SyncOverride, Obey
  <2>4. CASE Adjust(i)
    BY <2>4, RateValues DEF Adjust
  <2>5. CASE SetAdmitRate(i)
    BY <2>5 DEF SetAdmitRate
  <2>6. CASE Admit(i)
    <3>1. Batch(rate[i]) \in Nat
      BY BatchMono
    <3> QED
      BY <2>6, <3>1 DEF Admit
  <2>7. CASE CallFails(i)
    BY <2>7 DEF CallFails
  <2>8. CASE Fenced(i)
    BY <2>8 DEF Fenced
  <2> QED
    BY <1>1, <2>1, <2>2, <2>3, <2>4, <2>5, <2>6, <2>7, <2>8 DEF Controller
<1>2. CASE UNCHANGED <<redis, healthy, memory, due, passed>>
  BY <1>2
<1>3. ASSUME NEW r \in OpsRates \cup {NoRate}, SetRateOverride(r)
      PROVE  RateTypeOK'
  BY <1>3 DEF SetRateOverride
<1>4. CASE HealthChanges
  BY <1>4 DEF HealthChanges
<1> QED
  BY <1>1, <1>2, <1>3, <1>4 DEF RateNext, Lease, vars

(* The lease keeps its invariant and every rate its range under the        *)
(* controllers, whatever fails.                                            *)
THEOREM RateInvariant == RateSpec => []RateInv
<1>1. RateInit => RateInv
  BY RateInitially
<1>2. RateInv /\ [RateNext]_vars => RateInv'
  BY RateStepKeepsLease, RateStepTypes DEF RateInv, LeaseInv
<1> QED
  BY <1>1, <1>2, PTL DEF RateSpec

(* The rate in memory and the rate in meta.admit_rate stay between 0 and   *)
(* the ceiling, whoever computed them and in whatever order they were      *)
(* written.                                                                *)
THEOREM RateTypes == RateSpec => []RateTypeOK
BY RateInvariant, PTL DEF RateInv

(* BR-Q5.1 for the controllers: what they publish and let in is accepted   *)
(* in the order of their terms.                                            *)
THEOREM RatesWriteInOrder == RateSpec => WritesInOrderOfTerms
<1>1. ASSUME LeaseInv, [RateNext]_vars
      PROVE  [/\ lastWrite'.epoch >= lastWrite.epoch
              /\ lastWrite'.epoch = lastWrite.epoch
                    /\ lastWrite.epoch # NoTerm
                 => lastWrite'.by = lastWrite.by]_leaseVars
  <2>0. lastWrite.epoch \in Nat
    BY <1>1 DEF LeaseInv, LeaseTypeOK
  <2>1. ASSUME NEW i \in Instance, EpochHolds(i), leading[i] # NoTerm,
               lastWrite' = [epoch |-> leading[i], by |-> i]
        PROVE  /\ lastWrite'.epoch >= lastWrite.epoch
               /\ lastWrite'.epoch = lastWrite.epoch
                     /\ lastWrite.epoch # NoTerm
                  => lastWrite'.by = lastWrite.by
    BY <1>1, <2>1 DEF LeaseInv, LeaseTypeOK, EpochKeyIsLatest,
       EpochHasOneOwner, EpochHolds
  <2>2. ASSUME NEW i \in Instance, SetAdmitRate(i) \/ Admit(i)
        PROVE  /\ EpochHolds(i) /\ leading[i] # NoTerm
               /\ lastWrite' = [epoch |-> leading[i], by |-> i]
    BY <2>2 DEF SetAdmitRate, Admit, Write, At
  <2>3. \/ \E i \in Instance : SetAdmitRate(i) \/ Admit(i)
        \/ UNCHANGED lastWrite
    BY <1>1 DEF RateNext, Controller, Lease, Begin, Restore, SyncOverride,
       Adjust, CallFails, Fenced, Acquire, AcquireReplyLost, StepDown,
       EndTerm, LeaderCrash, LeaseExpires, EpochLost, SetRateOverride,
       HealthChanges, vars, leaseVars
  <2> QED
    BY <2>0, <2>1, <2>2, <2>3
<1> QED
  BY <1>1, RateInvariant, PTL DEF RateInv, RateSpec, WritesInOrderOfTerms

-----------------------------------------------------------------------------
(* From the moment a tick has read the order of Ops to its end the rate is *)
(* the one they ordered, and AIMD is switched off.                         *)
InTick(i) == step[i] \in {"adjust", "publish", "admit"}

OrderInForce ==
    \A i \in Instance :
        InTick(i) /\ due[i] # NoRate
            => override[i] /\ rate[i] = Clamp(due[i], 0, MaxRate)

(* A tick that saw an order of Ops keeps it until its batch is let in.     *)
LEMMA StepKeepsOrder ==
  ASSUME RateTypeOK, OrderInForce, "failed_read" \notin Failures,
         [RateNext]_vars
  PROVE  OrderInForce'
<1> USE RateConstants DEF RateTypeOK, OrderInForce, InTick, Steps, GoTo, At,
                          redis, memory
<1>1. ASSUME NEW i \in Instance, Controller(i)
      PROVE  OrderInForce'
  <2>1. CASE Begin(i)
    BY <2>1 DEF Begin
  <2>2. CASE Restore(i)
    BY <2>2 DEF Restore
  <2>3. CASE SyncOverride(i)
    <3>1. /\ due' = [due EXCEPT ![i] = order]
          /\ step' = [step EXCEPT ![i] = "adjust"]
          /\ Obey(i)
      BY <2>3 DEF SyncOverride
    <3>2. order # NoRate => override'[i] /\ rate'[i] = Clamp(order, 0, MaxRate)
      BY <3>1 DEF Obey, Ordered
    <3>3. \A j \in Instance \ {i} :
             rate'[j] = rate[j] /\ override'[j] = override[j]
      BY <3>1 DEF Obey
    <3> QED
      BY <3>1, <3>2, <3>3
  <2>4. CASE Adjust(i)
    BY <2>4 DEF Adjust, Overridden
  <2>5. CASE SetAdmitRate(i) \/ Admit(i) \/ CallFails(i) \/ Fenced(i)
    BY <2>5 DEF SetAdmitRate, Admit, CallFails, Fenced
  <2> QED
    BY <1>1, <2>1, <2>2, <2>3, <2>4, <2>5 DEF Controller
<1>2. CASE UNCHANGED <<memory, due>>
  BY <1>2
<1> QED
  BY <1>1, <1>2 DEF RateNext, Lease, SetRateOverride, HealthChanges, vars

(* BR-Q5.5 for any setting: while Redis can be read, a tick that began     *)
(* under an order of Ops lets in what Ops said.                            *)
THEOREM OpsAreObeyed ==
  ASSUME "failed_read" \notin Failures
  PROVE  RateSpec => []OpsObeyed
<1>1. RateInit => OrderInForce
  BY DEF RateInit, OrderInForce, InTick
<1>2. RateTypeOK /\ OrderInForce /\ [RateNext]_vars => OrderInForce'
  BY StepKeepsOrder
<1>3. OrderInForce => OpsObeyed
  BY DEF OrderInForce, OpsObeyed, InTick, At
<1> QED
  BY <1>1, <1>2, <1>3, RateTypes, PTL DEF RateSpec

(* BR-Q5.5 over changes of the leader: a rate that Ops ordered and a leader*)
(* published is published again by every leader after it, as long as Ops   *)
(* order the same and the leaders can read it.                             *)
THEOREM OrdersStayObeyed ==
  ASSUME "failed_read" \notin Failures
  PROVE  RateSpec => StaysObeyed
<1>1. RateInit => OrderInForce
  BY DEF RateInit, OrderInForce, InTick
<1>2. RateTypeOK /\ OrderInForce /\ [RateNext]_vars => OrderInForce'
  BY StepKeepsOrder
<1>3. ASSUME OrderInForce, NEW i \in Instance, SetAdmitRate(i),
             order # NoRate, due[i] = order,
             admitRate = Clamp(order, 0, MaxRate)
      PROVE  admitRate' = admitRate
  BY <1>3 DEF OrderInForce, InTick, SetAdmitRate, At
<1>4. OrderInForce /\ [RateNext]_vars
        => [\A i \in Instance :
              /\ SetAdmitRate(i) /\ order # NoRate /\ due[i] = order
              /\ admitRate = Clamp(order, 0, MaxRate)
              => admitRate' = admitRate]_vars
  BY <1>3
<1> QED
  BY <1>1, <1>2, <1>4, RateTypes, PTL DEF RateSpec, StaysObeyed

-----------------------------------------------------------------------------
(* A tick admits once: nobody has been let in by it before its last call.  *)
AdmittedOnce ==
    \A i \in Instance :
        /\ passed[i] <= Batch(MaxRate)
        /\ InTick(i) => passed[i] = 0

(* One tick runs admit.lua once, with a batch the ceiling allows.          *)
LEMMA StepAdmitsOnce ==
  ASSUME RateTypeOK, AdmittedOnce, "lost_reply" \notin Failures,
         [RateNext]_vars
  PROVE  AdmittedOnce'
<1>0. Batch(MaxRate) \in Nat
  BY BatchMono, RateConstants
<1> USE <1>0 DEF RateTypeOK, AdmittedOnce, InTick, Steps, GoTo, At, redis,
                 memory
<1>1. ASSUME NEW i \in Instance, Controller(i)
      PROVE  AdmittedOnce'
  <2>1. CASE Begin(i)
    BY <2>1 DEF Begin
  <2>2. CASE Restore(i)
    BY <2>2 DEF Restore
  <2>3. CASE SyncOverride(i)
    BY <2>3 DEF SyncOverride
  <2>4. CASE Adjust(i)
    BY <2>4 DEF Adjust
  <2>5. CASE SetAdmitRate(i)
    BY <2>5 DEF SetAdmitRate
  <2>6. CASE Admit(i)
    <3>1. Batch(rate[i]) \in Nat /\ Batch(rate[i]) <= Batch(MaxRate)
      BY BatchMono
    <3>2. /\ passed' = [passed EXCEPT ![i] = @ + Batch(rate[i])]
          /\ step' = [step EXCEPT ![i] = "sync"]
          /\ passed[i] = 0
      BY <2>6 DEF Admit
    <3> QED
      BY <3>1, <3>2
  <2>7. CASE CallFails(i) \/ Fenced(i)
    BY <2>7 DEF CallFails, Fenced
  <2> QED
    BY <1>1, <2>1, <2>2, <2>3, <2>4, <2>5, <2>6, <2>7 DEF Controller
<1>2. CASE UNCHANGED <<memory, passed>>
  BY <1>2
<1> QED
  BY <1>1, <1>2 DEF RateNext, Lease, SetRateOverride, HealthChanges, vars

(* BR-Q5.4 for any setting: no tick lets in more people than the ceiling   *)
(* allows, as long as the client library repeats no admit.lua.             *)
THEOREM CeilingHolds ==
  ASSUME "lost_reply" \notin Failures
  PROVE  RateSpec => []WithinCeiling
<1>0. Batch(MaxRate) \in Nat
  BY BatchMono, RateConstants
<1>1. RateInit => AdmittedOnce
  BY <1>0 DEF RateInit, AdmittedOnce, InTick
<1>2. RateTypeOK /\ AdmittedOnce /\ [RateNext]_vars => AdmittedOnce'
  BY StepAdmitsOnce
<1>3. AdmittedOnce => WithinCeiling
  BY DEF AdmittedOnce, WithinCeiling
<1> QED
  BY <1>1, <1>2, <1>3, RateTypes, PTL DEF RateSpec

-----------------------------------------------------------------------------
(* A leader that has not written yet: it starts from the rate of the last  *)
(* one, which nobody else can change, and adjusts it once before it does.  *)
NotYetWritten(i) ==
    leading[i] # NoTerm /\ EpochHolds(i) /\ lastWrite.epoch # leading[i]

StartsFromLast ==
    \A i \in Instance :
        NotYetWritten(i) =>
            /\ step[i] # "admit"
            /\ step[i] \in {"restore", "sync"} => ~override[i]
            /\ step[i] = "sync" => rate[i] >= admitRate
            /\ step[i] = "adjust" /\ due[i] = NoRate =>
                  ~override[i] /\ rate[i] >= admitRate
            /\ step[i] = "publish" /\ due[i] = NoRate /\ admitRate # NoRate =>
                  rate[i] >= (admitRate * Backoff) \div 10

(* One step back from a larger rate ends at a larger one.                  *)
LEMMA OneStepBack ==
  ASSUME NEW a \in Nat, NEW b \in Nat, a <= b
  PROVE  /\ (a * Backoff) \div 10 \in Nat
         /\ (a * Backoff) \div 10 <= (b * Backoff) \div 10
         /\ (a * Backoff) \div 10 <= b
<1>1. /\ a * Backoff \in Nat /\ b * Backoff \in Nat
      /\ a * Backoff <= b * Backoff
      /\ a * Backoff <= 10 * b
  <2>1. Backoff \in {1, 2, 3, 4, 5, 6, 7, 8, 9}
    BY RateAssumption
  <2>2. \A k \in {1, 2, 3, 4, 5, 6, 7, 8, 9} :
           /\ a * k \in Nat /\ b * k \in Nat
           /\ a * k <= b * k /\ a * k <= 10 * b
    OBVIOUS
  <2> QED
    BY <2>1, <2>2
<1>2. (a * Backoff) \div 10 <= (b * Backoff) \div 10
  BY <1>1, DivMono
<1>3. (a * Backoff) \div 10 \in Nat /\ (a * Backoff) \div 10 <= (10 * b) \div 10
  BY <1>1, DivMono
<1>4. (10 * b) \div 10 = b
  OBVIOUS
<1> QED
  BY <1>2, <1>3, <1>4

(* AIMD takes one step back at most.                                       *)
LEMMA AdjustStepsBackOnce ==
  ASSUME RateTypeOK, NEW i \in Instance, Adjust(i), rate[i] >= admitRate,
         admitRate # NoRate
  PROVE  rate'[i] >= (admitRate * Backoff) \div 10
<1>1. /\ rate[i] \in 0..MaxRate /\ admitRate \in 0..MaxRate
      /\ rate \in [Instance -> 0..MaxRate]
      /\ MinRate \in Nat /\ MaxRate \in Nat /\ StepUp \in Nat
  BY RateConstants DEF RateTypeOK
<1> DEFINE back == (admitRate * Backoff) \div 10
           less == (rate[i] * Backoff) \div 10
<1>2. /\ back \in Nat /\ less \in Nat
      /\ back <= less /\ back <= rate[i] /\ back <= MaxRate
  BY <1>1, OneStepBack
<1>3. CASE UNCHANGED rate
  BY <1>2, <1>3
<1>4. CASE rate' = [rate EXCEPT ![i] = NextRate(i)]
  <2>1. NextRate(i) = Clamp(IF healthy THEN rate[i] + StepUp ELSE less,
                            MinRate, MaxRate)
    BY DEF NextRate
  <2> HIDE DEF back, less
  <2>2. NextRate(i) >= back
    BY <1>1, <1>2, <2>1 DEF Clamp
  <2> QED
    BY <1>1, <1>4, <2>2 DEF back
<1> QED
  BY <1>3, <1>4 DEF Adjust

(* A leader that has not written stands where the last one did.            *)
LEMMA StepStartsFromLast ==
  ASSUME RateInv, StartsFromLast, [RateNext]_vars,
         "failed_read" \notin Failures, "failed_call" \notin Failures
  PROVE  StartsFromLast'
<1>0. /\ RateTypeOK /\ LeaseTypeOK
      /\ EpochsBehindClock /\ EpochHasOneOwner
  BY DEF RateInv, LeaseInv
(* The lease: who had not the latest epoch does not get it back.           *)
<1>1. ASSUME NEW j \in Instance, TakeLock(j), UNCHANGED lastWrite,
             NEW i \in Instance, leading'[i] = leading[i]
      PROVE  ~NotYetWritten(i)'
  BY <1>0, <1>1 DEF TakeLock, NextEpoch, EpochsBehindClock, LeaseTypeOK,
     NotYetWritten, EpochHolds
<1>2. ASSUME UNCHANGED <<redis, memory, due, epochKey, lastWrite>>,
             \A i \in Instance : leading'[i] \in {leading[i], NoTerm}
      PROVE  StartsFromLast'
  BY <1>2 DEF StartsFromLast, NotYetWritten, EpochHolds, redis, memory
<1>3. ASSUME NEW j \in Instance, Begin(j)
      PROVE  StartsFromLast'
  <2>1. /\ step' = [step EXCEPT ![j] = "restore"]
        /\ override' = [override EXCEPT ![j] = FALSE]
        /\ rate' = [rate EXCEPT ![j] = MinRate]
        /\ UNCHANGED <<admitRate, due, lastWrite>>
    BY <1>3 DEF Begin, Acquire, GoTo, redis
  <2>2. step'[j] = "restore" /\ ~override'[j]
    BY <1>0, <2>1 DEF RateTypeOK
  <2>3. ASSUME NEW i \in Instance \ {j}
        PROVE  /\ leading'[i] = leading[i] /\ step'[i] = step[i]
               /\ rate'[i] = rate[i] /\ override'[i] = override[i]
    BY <1>0, <1>3, <2>1 DEF Begin, Acquire, RateTypeOK, LeaseTypeOK
  <2>4. CASE TakeLock(j)
    BY <1>1, <2>1, <2>2, <2>3, <2>4 DEF StartsFromLast
  <2>5. CASE UNCHANGED epochKey
    BY <2>1, <2>2, <2>3, <2>5 DEF StartsFromLast, NotYetWritten, EpochHolds
  <2> QED
    BY <1>3, <2>4, <2>5 DEF Begin, Acquire
<1>4. ASSUME NEW j \in Instance, Restore(j)
      PROVE  StartsFromLast'
  <2>1. /\ step' = [step EXCEPT ![j] = "sync"]
        /\ rate' = [rate EXCEPT ![j] = Restored(j)]
        /\ step[j] = "restore"
        /\ UNCHANGED <<leading, epochKey, lastWrite, admitRate, due, override>>
    BY <1>4 DEF Restore, GoTo, At, redis
  <2>2. Restored(j) >= admitRate
    BY <1>0, RateConstants DEF RateTypeOK, Restored, Clamp, NoRate
  <2> QED
    BY <1>0, <2>1, <2>2 DEF StartsFromLast, NotYetWritten, EpochHolds,
       RateTypeOK
<1>5. ASSUME NEW j \in Instance, SyncOverride(j)
      PROVE  StartsFromLast'
  <2>1. /\ step' = [step EXCEPT ![j] = "adjust"]
        /\ due' = [due EXCEPT ![j] = order]
        /\ Obey(j) /\ step[j] = "sync"
        /\ UNCHANGED <<leading, epochKey, lastWrite, admitRate>>
    BY <1>5 DEF SyncOverride, GoTo, At, redis
  <2>2. \A i \in Instance \ {j} :
           rate'[i] = rate[i] /\ override'[i] = override[i]
    BY <1>0, <2>1 DEF Obey, RateTypeOK
  <2>3. order = NoRate => /\ rate'[j] = rate[j]
                          /\ override'[j] => override[j]
    BY <1>0, <2>1 DEF Obey, RateTypeOK
  <2>4. ASSUME NEW i \in Instance \ {j}, NotYetWritten(i)'
        PROVE  NotYetWritten(i) /\ step'[i] = step[i] /\ due'[i] = due[i]
    BY <1>0, <2>1, <2>4 DEF NotYetWritten, EpochHolds, RateTypeOK
  <2>5. NotYetWritten(j)' => NotYetWritten(j)
    BY <2>1 DEF NotYetWritten, EpochHolds
  <2>6. step'[j] = "adjust" /\ due'[j] = order
    BY <1>0, <2>1 DEF RateTypeOK
  <2> QED
    BY <2>1, <2>2, <2>3, <2>4, <2>5, <2>6 DEF StartsFromLast
<1>6. ASSUME NEW j \in Instance, Adjust(j)
      PROVE  StartsFromLast'
  <2>1. /\ step' = [step EXCEPT ![j] = "publish"]
        /\ step[j] = "adjust"
        /\ UNCHANGED <<leading, epochKey, lastWrite, admitRate, due, override>>
    BY <1>6 DEF Adjust, GoTo, At, redis, leaseVars
  <2>2. \A i \in Instance \ {j} : rate'[i] = rate[i] /\ step'[i] = step[i]
    BY <1>0, <1>6, <2>1 DEF Adjust, RateTypeOK
  <2>3. step'[j] = "publish"
    BY <1>0, <2>1 DEF RateTypeOK
  <2>4. rate[j] >= admitRate /\ admitRate # NoRate
        => rate'[j] >= (admitRate * Backoff) \div 10
    BY <1>0, <1>6, AdjustStepsBackOnce
  <2>5. \A i \in Instance : NotYetWritten(i)' => NotYetWritten(i)
    BY <2>1 DEF NotYetWritten, EpochHolds
  <2> QED
    BY <2>1, <2>2, <2>3, <2>4, <2>5 DEF StartsFromLast
<1>7. ASSUME NEW j \in Instance, SetAdmitRate(j) \/ Admit(j)
      PROVE  StartsFromLast'
  <2>1. /\ leading[j] # NoTerm /\ EpochHolds(j)
        /\ lastWrite' = [epoch |-> leading[j], by |-> j]
        /\ UNCHANGED <<leading, epochKey>>
    BY <1>7 DEF SetAdmitRate, Admit, Write, At
  <2>2. ASSUME NEW i \in Instance
        PROVE  ~NotYetWritten(i)'
    BY <2>1 DEF NotYetWritten, EpochHolds
  <2> QED
    BY <2>2 DEF StartsFromLast
<1>8. ASSUME NEW j \in Instance, Fenced(j) \/ Lease(j)
      PROVE  StartsFromLast'
  <2>1. CASE AcquireReplyLost(j) /\ UNCHANGED <<redis, memory, due>>
    <3>1. \A i \in Instance : ~NotYetWritten(i)'
      BY <1>1, <2>1 DEF AcquireReplyLost
    <3> QED
      BY <3>1 DEF StartsFromLast
  <2>2. CASE \/ Fenced(j)
             \/ /\ StepDown(j) \/ LeaderCrash(j)
                /\ UNCHANGED <<redis, memory, due>>
    <3>1. /\ UNCHANGED <<redis, memory, due, epochKey, lastWrite>>
          /\ leading' = [leading EXCEPT ![j] = NoTerm]
      BY <2>2 DEF Fenced, EndTerm, StepDown, LeaderCrash
    <3>2. \A i \in Instance : leading'[i] \in {leading[i], NoTerm}
      BY <1>0, <3>1 DEF LeaseTypeOK
    <3> QED
      BY <1>2, <3>1, <3>2
  <2> QED
    BY <1>8, <2>1, <2>2 DEF Lease
<1>9. CASE /\ LeaseExpires \/ EpochLost
           /\ UNCHANGED <<redis, healthy, memory, due, passed>>
  <2>1. UNCHANGED <<redis, memory, due, leading, lastWrite>>
    BY <1>9 DEF LeaseExpires, EpochLost
  <2>2. \A i \in Instance : NotYetWritten(i)' => NotYetWritten(i)
    BY <1>9, <2>1 DEF LeaseExpires, EpochLost, NotYetWritten, EpochHolds
  <2> QED
    BY <2>1, <2>2 DEF StartsFromLast, redis, memory
<1>10. CASE \/ \E r \in OpsRates \cup {NoRate} : SetRateOverride(r)
            \/ HealthChanges
            \/ UNCHANGED vars
  BY <1>10 DEF SetRateOverride, HealthChanges, vars, leaseVars, redis, memory,
     StartsFromLast, NotYetWritten, EpochHolds
<1>11. ASSUME NEW j \in Instance, CallFails(j)
       PROVE  FALSE
  BY <1>11 DEF CallFails
<1> QED
  BY <1>3, <1>4, <1>5, <1>6, <1>7, <1>8, <1>9, <1>10, <1>11
     DEF RateNext, Controller

(* BR-Q5.6 for any setting: while its calls succeed, a new leader goes on  *)
(* from the rate of the last one, one step back at most.                   *)
THEOREM RateIsHandedOver ==
  ASSUME "failed_read" \notin Failures, "failed_call" \notin Failures
  PROVE  RateSpec => HandOver
<1>1. RateInit => StartsFromLast
  BY DEF RateInit, LeaseInit, StartsFromLast, NotYetWritten
<1>2. RateInv /\ StartsFromLast /\ [RateNext]_vars => StartsFromLast'
  BY StepStartsFromLast
<1>3. StartsFromLast =>
      [\A i \in Instance :
          /\ SetAdmitRate(i) /\ lastWrite.epoch # leading[i]
          /\ due[i] = NoRate /\ admitRate # NoRate
          => admitRate' >= (admitRate * Backoff) \div 10]_vars
  BY DEF StartsFromLast, NotYetWritten, SetAdmitRate, At, Write
<1> QED
  BY <1>1, <1>2, <1>3, RateInvariant, PTL DEF RateSpec, HandOver
-----------------------------------------------------------------------------
(* The band.  What Ops order below the floor is raised by the first tick   *)
(* that adjusts after they let go; a cooldown from before, or an override  *)
(* that a failed read leaves in force, keeps that tick from adjusting.     *)
FloorForOps == \A r \in OpsRates : r >= MinRate
AdjustsAtOnce == DecreaseCooldown = 0 /\ "failed_read" \notin Failures

AboveFloor ==
    /\ order # NoRate => order >= MinRate
    /\ \A i \in Instance : rate[i] >= MinRate

(* With AdjustsAtOnce only: an override comes from Redis and goes with it. *)
FreeOfOps ==
    \A i \in Instance :
        /\ override[i] => fromStore[i]
        /\ At(i, "adjust") /\ due[i] = NoRate => ~override[i]
        /\ At(i, "publish") /\ due[i] = NoRate => rate[i] >= MinRate

(* AIMD ends in the band.                                                  *)
LEMMA AdjustedInBand ==
  ASSUME RateTypeOK, NEW i \in Instance
  PROVE  NextRate(i) \in MinRate..MaxRate
<1>1. rate[i] \in 0..MaxRate
  BY DEF RateTypeOK
<1>2. rate[i] * Backoff \in Nat
  BY <1>1, RateConstants
<1>3. (rate[i] * Backoff) \div 10 \in Nat
  BY <1>2, DivMono
<1> QED
  BY <1>1, <1>3, RateConstants DEF NextRate, Clamp

(* If Ops keep to the floor, everything does, whatever fails.              *)
LEMMA StepStaysAbove ==
  ASSUME RateTypeOK, FloorForOps, AboveFloor, [RateNext]_vars
  PROVE  AboveFloor'
<1> USE RateConstants DEF RateTypeOK, AboveFloor, redis, memory
<1>1. ASSUME NEW i \in Instance, Controller(i)
      PROVE  AboveFloor'
  <2>1. CASE Begin(i)
    BY <2>1 DEF Begin
  <2>2. CASE Restore(i)
    <3>1. Restored(i) >= MinRate
      BY DEF Restored, Clamp
    <3> QED
      BY <2>2, <3>1 DEF Restore
  <2>3. CASE SyncOverride(i)
    <3>1. order # NoRate => Ordered >= MinRate
      BY DEF Ordered, Clamp
    <3> QED
      BY <2>3, <3>1 DEF SyncOverride, Obey
  <2>4. CASE Adjust(i)
    BY <2>4, AdjustedInBand DEF Adjust
  <2>5. CASE SetAdmitRate(i) \/ Admit(i) \/ CallFails(i) \/ Fenced(i)
    BY <2>5 DEF SetAdmitRate, Admit, CallFails, Fenced
  <2> QED
    BY <1>1, <2>1, <2>2, <2>3, <2>4, <2>5 DEF Controller
<1>2. ASSUME NEW r \in OpsRates \cup {NoRate}, SetRateOverride(r)
      PROVE  AboveFloor'
  BY <1>2 DEF SetRateOverride, FloorForOps
<1>3. CASE UNCHANGED <<order, rate>>
  BY <1>3
<1> QED
  BY <1>1, <1>2, <1>3 DEF RateNext, Lease, HealthChanges, vars

(* Otherwise the first tick without Ops brings the rate back.              *)
LEMMA StepReturnsAtOnce ==
  ASSUME RateTypeOK, AdjustsAtOnce, FreeOfOps, [RateNext]_vars
  PROVE  FreeOfOps'
<1> USE RateConstants DEF RateTypeOK, FreeOfOps, At, GoTo, Steps, redis, memory
<1>1. ASSUME NEW i \in Instance, Controller(i)
      PROVE  FreeOfOps'
  <2>1. CASE Begin(i)
    <3>1. /\ step' = [step EXCEPT ![i] = "restore"]
          /\ override' = [override EXCEPT ![i] = FALSE]
          /\ rate' = [rate EXCEPT ![i] = MinRate]
          /\ fromStore' = [fromStore EXCEPT ![i] = FALSE]
          /\ due' = due
      BY <2>1 DEF Begin
    <3>2. \E e : leading' = [leading EXCEPT ![i] = e]
      BY <2>1 DEF Begin, Acquire
    <3>3. leading \in [Instance -> Nat]
      BY DEF LeaseTypeOK
    <3>4. \A j \in Instance \ {i} : leading'[j] = leading[j]
      BY <3>2, <3>3
    <3> QED
      BY <3>1, <3>4
  <2>2. CASE Restore(i)
    BY <2>2 DEF Restore
  <2>3. CASE SyncOverride(i)
    <3>1. /\ due' = [due EXCEPT ![i] = order]
          /\ step' = [step EXCEPT ![i] = "adjust"]
          /\ leading' = leading
          /\ Obey(i)
      BY <2>3 DEF SyncOverride, AdjustsAtOnce
    <3>2. /\ override'[i] => fromStore'[i]
          /\ order = NoRate => ~override'[i]
      BY <3>1 DEF Obey
    <3>3. \A j \in Instance \ {i} :
             /\ rate'[j] = rate[j] /\ step'[j] = step[j] /\ due'[j] = due[j]
             /\ override'[j] = override[j] /\ fromStore'[j] = fromStore[j]
      BY <3>1 DEF Obey
    <3>4. step'[i] = "adjust" /\ due'[i] = order
      BY <3>1
    <3> QED
      BY <3>1, <3>2, <3>3, <3>4
  <2>4. CASE Adjust(i)
    <3>1. /\ due' = due /\ leading' = leading
          /\ override' = override /\ fromStore' = fromStore
          /\ step' = [step EXCEPT ![i] = "publish"]
          /\ rate' = rate \/ rate' = [rate EXCEPT ![i] = NextRate(i)]
      BY <2>4 DEF Adjust, leaseVars
    <3>2. due[i] = NoRate => rate' = [rate EXCEPT ![i] = NextRate(i)]
      BY <2>4 DEF Adjust, Overridden, AdjustsAtOnce
    <3>3. \A j \in Instance \ {i} : rate'[j] = rate[j] /\ step'[j] = step[j]
      BY <3>1
    <3>4. step'[i] = "publish"
      BY <3>1
    <3>5. due[i] = NoRate => rate'[i] >= MinRate
      BY <3>2, AdjustedInBand
    <3> QED
      BY <3>1, <3>3, <3>4, <3>5
  <2>5. CASE SetAdmitRate(i) \/ Admit(i) \/ CallFails(i)
    BY <2>5 DEF SetAdmitRate, Write, Admit, CallFails
  <2>6. CASE Fenced(i)
    BY <2>6 DEF Fenced, EndTerm, NoTerm
  <2> QED
    BY <1>1, <2>1, <2>2, <2>3, <2>4, <2>5, <2>6 DEF Controller
<1>2. ASSUME NEW i \in Instance, Lease(i)
      PROVE  FreeOfOps'
  <2>1. UNCHANGED <<memory, due>>
    BY <1>2 DEF Lease
  <2>2. leading' = leading \/ leading' = [leading EXCEPT ![i] = NoTerm]
    BY <1>2 DEF Lease, AcquireReplyLost, StepDown, LeaderCrash
  <2>3. leading \in [Instance -> Nat]
    BY DEF LeaseTypeOK
  <2>4. \A j \in Instance : leading'[j] # NoTerm => leading'[j] = leading[j]
    BY <2>2, <2>3
  <2> QED
    BY <2>1, <2>4
<1>3. CASE UNCHANGED <<leading, memory, due>>
  BY <1>3
<1> QED
  BY <1>1, <1>2, <1>3 DEF RateNext, LeaseExpires, EpochLost, SetRateOverride,
                          HealthChanges, vars, leaseVars

(* BR-Q5.4: the published rate lies between floor and ceiling while Ops do *)
(* not order another one, if they never order less than the floor, or if   *)
(* the cooldown is switched off and the order can be read.  Otherwise the  *)
(* end of an emergency stop is the exception (README, 4).                  *)
THEOREM RateStaysInBand ==
  ASSUME FloorForOps \/ AdjustsAtOnce
  PROVE  RateSpec => []InBand
<1> USE RateConstants
<1>1. CASE FloorForOps
  <2>1. RateInit => AboveFloor
    BY DEF RateInit, AboveFloor
  <2>2. RateTypeOK /\ AboveFloor /\ [RateNext]_vars => AboveFloor'
    BY <1>1, StepStaysAbove
  <2>3. RateTypeOK /\ AboveFloor => InBand
    BY DEF RateTypeOK, AboveFloor, InBand
  <2> QED
    BY <2>1, <2>2, <2>3, RateTypes, PTL DEF RateSpec
<1>2. CASE AdjustsAtOnce
  <2>1. RateInit => FreeOfOps
    BY DEF RateInit, FreeOfOps, At
  <2>2. RateTypeOK /\ FreeOfOps /\ [RateNext]_vars => FreeOfOps'
    BY <1>2, StepReturnsAtOnce
  <2>3. RateTypeOK /\ FreeOfOps => InBand
    BY DEF RateTypeOK, FreeOfOps, InBand, At
  <2> QED
    BY <2>1, <2>2, <2>3, RateTypes, PTL DEF RateSpec
<1> QED
  BY <1>1, <1>2

(* Half a person per tick is rounded to one.                               *)
LEMMA HalfRoundsUp ==
  ASSUME NEW r \in Nat, 2 * r >= Unit
  PROVE  Batch(r) > 0
<1> DEFINE a == 2 * r + Unit
           d == 2 * Unit
<1>1. a \in Nat /\ d \in Nat /\ d > 0 /\ d <= a
  BY RateConstants
<1> HIDE DEF a, d
<1>2. d \div d = 1
  BY <1>1
<1>3. d \div d <= a \div d /\ a \div d \in Int
  BY <1>1, DivMono
<1>4. a \div d > 0
  BY <1>2, <1>3
<1> QED
  BY <1>4 DEF Batch, a, d

(* admit.go:69 "the queue must not stand still" holds in the band if the   *)
(* floor is half a person per tick; the check there asks for more than 0   *)
(* only (README, 4).                                                       *)
THEOREM QueueKeepsMoving ==
  ASSUME FloorForOps \/ AdjustsAtOnce, 2 * MinRate >= Unit
  PROVE  RateSpec => []QueueMoves
<1>1. ASSUME InBand
      PROVE  QueueMoves
  <2> SUFFICES ASSUME NEW i \in Instance, At(i, "publish"), due[i] = NoRate
               PROVE  Batch(rate[i]) > 0
    BY DEF QueueMoves
  <2>1. rate[i] \in Nat /\ 2 * rate[i] >= Unit
    BY <1>1, RateConstants DEF InBand
  <2> QED
    BY <2>1, HalfRoundsUp
<1> QED
  BY <1>1, RateStaysInBand, PTL
=============================================================================
