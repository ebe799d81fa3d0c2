------------------------- MODULE LeaderLeaseProofs -------------------------
(***************************************************************************)
(* Proofs about the lease, for every set of instances and however many     *)
(* crashes, pauses and losses there are.                                   *)
(***************************************************************************)
EXTENDS LeaderLease, TLAPS

(* Redis has handed out no epoch that its clock has not passed, and while  *)
(* the epoch key is there nobody leads or wrote under a later one.         *)
EpochsBehindClock ==
    /\ epochKey < now
    /\ lastWrite.epoch < now
    /\ \A i \in Instance : leading[i] < now

EpochKeyIsLatest ==
    epochKey # NoTerm =>
        /\ lastWrite.epoch <= epochKey
        /\ \A i \in Instance : leading[i] <= epochKey

(* An epoch belongs to one instance: to the one that leads under it, that  *)
(* wrote under it, and that may find its lock again and go on with it.     *)
EpochHasOneOwner ==
    /\ \A i, j \in Instance :
          leading[i] # NoTerm /\ leading[i] = leading[j] => i = j
    /\ \A i \in Instance :
          leading[i] # NoTerm /\ lastWrite.epoch = leading[i]
              => lastWrite.by = i

HolderOwnsEpochKey ==
    \A i \in Instance :
        KeepsLock(i) =>
            /\ \A j \in Instance : leading[j] = epochKey => j = i
            /\ lastWrite.epoch = epochKey => lastWrite.by = i

LeaseInv ==
    /\ LeaseTypeOK
    /\ EpochsBehindClock
    /\ EpochKeyIsLatest
    /\ EpochHasOneOwner
    /\ HolderOwnsEpochKey

-----------------------------------------------------------------------------
(* Before the first election.                                              *)
LEMMA LeaseInitially == LeaseInit => LeaseInv
BY LeaseAssumption DEF LeaseInit, LeaseInv, LeaseTypeOK, EpochsBehindClock,
   EpochKeyIsLatest, EpochHasOneOwner, HolderOwnsEpochKey, KeepsLock, NoTerm

(* A new epoch is later than everything the old ones were used for.        *)
LEMMA NextEpochType ==
  ASSUME LeaseInv
  PROVE  NextEpoch \in Nat /\ NextEpoch >= now /\ NextEpoch # NoTerm
BY DEF LeaseInv, LeaseTypeOK, NextEpoch, NoTerm

(* The script of acquire keeps the invariant, whether its reply arrives or *)
(* not.                                                                    *)
LEMMA TakeLockKeeps ==
  ASSUME LeaseInv, NEW i \in Instance, TakeLock(i),
         \/ leading' = leading
         \/ leading' = [leading EXCEPT ![i] = NextEpoch],
         UNCHANGED lastWrite, faults' \in 0..MaxFaults
  PROVE  LeaseInv'
<1>1. NextEpoch \in Nat /\ NextEpoch >= now /\ NextEpoch # NoTerm
  BY NextEpochType
<1>2. LeaseTypeOK'
  BY <1>1 DEF LeaseInv, LeaseTypeOK, TakeLock
<1>3. EpochsBehindClock' /\ EpochKeyIsLatest'
  BY <1>1 DEF LeaseInv, LeaseTypeOK, EpochsBehindClock, EpochKeyIsLatest,
              TakeLock
<1>4. EpochHasOneOwner' /\ HolderOwnsEpochKey'
  BY <1>1, LeaseAssumption
  DEF LeaseInv, LeaseTypeOK, EpochsBehindClock, EpochHasOneOwner,
      HolderOwnsEpochKey, KeepsLock, TakeLock
<1> QED
  BY <1>2, <1>3, <1>4 DEF LeaseInv

(* A term that ends leaves fewer leaders and no new epoch behind.          *)
LEMMA EndingKeeps ==
  ASSUME LeaseInv, NEW i \in Instance,
         \/ leading' = leading
         \/ leading' = [leading EXCEPT ![i] = NoTerm],
         lock' \in {lock, Nobody, Ghost},
         epochKey' \in {epochKey, NoTerm},
         UNCHANGED <<now, lastWrite>>, faults' \in 0..MaxFaults
  PROVE  LeaseInv'
<1>1. LeaseTypeOK'
  BY DEF LeaseInv, LeaseTypeOK, NoTerm
<1>2. EpochsBehindClock' /\ EpochKeyIsLatest'
  BY DEF LeaseInv, LeaseTypeOK, EpochsBehindClock, EpochKeyIsLatest, NoTerm
<1>3. EpochHasOneOwner'
  BY DEF LeaseInv, LeaseTypeOK, EpochHasOneOwner, NoTerm
<1>4. HolderOwnsEpochKey'
  BY LeaseAssumption DEF LeaseInv, LeaseTypeOK, HolderOwnsEpochKey,
     KeepsLock, NoTerm
<1> QED
  BY <1>1, <1>2, <1>3, <1>4 DEF LeaseInv

(* A leader writes; whether its answer arrives does not matter.            *)
LEMMA WriteKeeps ==
  ASSUME LeaseInv, NEW i \in Instance, EpochHolds(i),
         lastWrite' = [epoch |-> leading[i], by |-> i],
         UNCHANGED <<lock, epochKey, now, leading>>,
         faults' \in 0..MaxFaults
  PROVE  LeaseInv'
<1>1. LeaseTypeOK'
  BY DEF LeaseInv, LeaseTypeOK
<1>2. EpochsBehindClock' /\ EpochKeyIsLatest'
  BY DEF LeaseInv, LeaseTypeOK, EpochsBehindClock, EpochKeyIsLatest,
         EpochHolds
<1>3. EpochHasOneOwner' /\ HolderOwnsEpochKey'
  BY DEF LeaseInv, LeaseTypeOK, EpochHasOneOwner, HolderOwnsEpochKey,
         KeepsLock, EpochHolds
<1> QED
  BY <1>1, <1>2, <1>3 DEF LeaseInv

(* Faults are counted up to their bound.                                   *)
LEMMA FaultType ==
  ASSUME LeaseTypeOK, Fault \/ UNCHANGED faults
  PROVE  faults' \in 0..MaxFaults
BY LeaseAssumption DEF LeaseTypeOK, Fault

(* The invariant is inductive.                                             *)
LEMMA LeaseStep ==
  ASSUME LeaseInv, [LeaseNext]_leaseVars
  PROVE  LeaseInv'
<1> USE LeaseAssumption
<1>0. LeaseTypeOK
  BY DEF LeaseInv
<1>1. ASSUME NEW i \in Instance, Acquire(i)
      PROVE  LeaseInv'
  <2>1. faults' \in 0..MaxFaults /\ UNCHANGED lastWrite
    BY <1>0, <1>1, FaultType DEF Acquire
  <2>2. CASE TakeLock(i) /\ leading' = [leading EXCEPT ![i] = NextEpoch]
    BY <2>1, <2>2, TakeLockKeeps
  <2>3. CASE /\ KeepsLock(i)
             /\ leading' = [leading EXCEPT ![i] = epochKey]
             /\ UNCHANGED <<lock, epochKey, now>>
    <3>1. LeaseTypeOK'
      BY <1>0, <2>1, <2>3 DEF LeaseTypeOK
    <3>2. EpochsBehindClock' /\ EpochKeyIsLatest'
      BY <2>1, <2>3 DEF LeaseInv, LeaseTypeOK, EpochsBehindClock,
                        EpochKeyIsLatest
    <3>3. EpochHasOneOwner' /\ HolderOwnsEpochKey'
      BY <2>1, <2>3 DEF LeaseInv, LeaseTypeOK, EpochHasOneOwner,
                        HolderOwnsEpochKey, KeepsLock
    <3> QED
      BY <3>1, <3>2, <3>3 DEF LeaseInv
  <2> QED
    BY <1>1, <2>2, <2>3 DEF Acquire
<1>2. ASSUME NEW i \in Instance, AcquireReplyLost(i)
      PROVE  LeaseInv'
  BY <1>0, <1>2, FaultType, TakeLockKeeps DEF AcquireReplyLost
<1>3. ASSUME NEW i \in Instance,
             \/ StepDown(i)
             \/ EndTerm(i) /\ (UNCHANGED faults \/ Fault)
             \/ LeaderCrash(i)
      PROVE  LeaseInv'
  <2>1. faults' \in 0..MaxFaults
    BY <1>0, <1>3, FaultType DEF StepDown, EndTerm, LeaderCrash
  <2> QED
    BY <1>3, <2>1, EndingKeeps DEF StepDown, EndTerm, LeaderCrash, FreeLock
<1>4. ASSUME NEW i \in Instance, Write(i)
      PROVE  LeaseInv'
  BY <1>0, <1>4, WriteKeeps DEF LeaseTypeOK, Write
<1>5. CASE LeaseExpires \/ EpochLost \/ UNCHANGED leaseVars
  <2>1. faults' \in 0..MaxFaults
    BY <1>0, <1>5, FaultType DEF LeaseExpires, EpochLost, leaseVars
  <2>2. /\ leading' = leading
        /\ lock' \in {lock, Nobody}
        /\ epochKey' \in {epochKey, NoTerm}
        /\ UNCHANGED <<now, lastWrite>>
    BY <1>5 DEF LeaseExpires, EpochLost, leaseVars
  <2>3. CASE Instance # {}
    <3>1. PICK i \in Instance : TRUE
      BY <2>3
    <3> QED
      BY <2>1, <2>2, EndingKeeps
  <2>4. CASE Instance = {}
    BY <2>1, <2>2, <2>4 DEF LeaseInv, LeaseTypeOK, EpochsBehindClock,
       EpochKeyIsLatest, EpochHasOneOwner, HolderOwnsEpochKey, NoTerm
  <2> QED
    BY <2>3, <2>4
<1> QED
  BY <1>1, <1>2, <1>3, <1>4, <1>5 DEF LeaseNext, Term

(* The lease and its epochs keep their invariant.                          *)
THEOREM LeaseInvariant == LeaseSpec => []LeaseInv
<1>1. LeaseInit => LeaseInv
  BY LeaseInitially
<1>2. LeaseInv /\ [LeaseNext]_leaseVars => LeaseInv'
  BY LeaseStep
<1> QED
  BY <1>1, <1>2, PTL DEF LeaseSpec

(* Every value is of its type in every run of the lease.                   *)
THEOREM LeaseTypes == LeaseSpec => []LeaseTypeOK
BY LeaseInvariant, PTL DEF LeaseInv

(* BR-Q5.1: leaders write in the order of their terms, and one leader per  *)
(* epoch, whatever any of them believes.                                   *)
THEOREM LeadersWriteInOrder == LeaseSpec => WritesInOrderOfTerms
<1>1. ASSUME LeaseInv, [LeaseNext]_leaseVars
      PROVE  [/\ lastWrite'.epoch >= lastWrite.epoch
              /\ lastWrite'.epoch = lastWrite.epoch
                    /\ lastWrite.epoch # NoTerm
                 => lastWrite'.by = lastWrite.by]_leaseVars
  <2>0. lastWrite.epoch \in Nat
    BY <1>1 DEF LeaseInv, LeaseTypeOK
  <2>1. CASE \E i \in Instance : Write(i)
    <3>1. PICK i \in Instance : Write(i)
      BY <2>1
    <3> QED
      BY <1>1, <2>0, <3>1 DEF LeaseInv, LeaseTypeOK, EpochKeyIsLatest,
         EpochHasOneOwner, Write, EpochHolds
  <2>2. CASE UNCHANGED lastWrite
    BY <2>0, <2>2
  <2>3. CASE UNCHANGED leaseVars
    BY <2>3
  <2> QED
    BY <1>1, <2>1, <2>2, <2>3 DEF LeaseNext, Term, Acquire, AcquireReplyLost,
       StepDown, EndTerm, LeaderCrash, LeaseExpires, EpochLost
<1> QED
  BY <1>1, LeaseInvariant, PTL DEF LeaseSpec, WritesInOrderOfTerms
=============================================================================
