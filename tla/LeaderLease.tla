---------------------------- MODULE LeaderLease ----------------------------
(***************************************************************************)
(* Package leader: one leader per event by a lease in Redis, and an epoch  *)
(* that the keys a leader writes to compare with their own.  A leader that *)
(* is paused beyond its lease does not know that it lost it; nothing below *)
(* tells it before its next renewal, and what it writes until then must be *)
(* refused by the epoch.                                                   *)
(*                                                                         *)
(* An epoch is drawn from the clock of Redis.  The clock of the model      *)
(* moves with every epoch drawn: two terms do not begin in one millisecond *)
(***************************************************************************)
EXTENDS Integers, FiniteSets

CONSTANTS
    Instance,   \* processes that stand for election
    Nobody,     \* the lock is not there
    Ghost,      \* the lock names a process that is gone
    MaxTime,    \* bounds of the model, see the README
    MaxFaults

ASSUME LeaseAssumption ==
    /\ Nobody \notin Instance
    /\ Ghost \notin Instance \cup {Nobody}
    /\ MaxTime \in Nat
    /\ MaxFaults \in Nat

VARIABLES
    lock,       \* LockKey
    epochKey,   \* EpochKey, 0 when it is not there
    now,        \* TIME of Redis
    leading,    \* leading[i]: epoch of the term i believes in, 0 for none
    lastWrite,  \* epoch and writer of the last fenced write accepted
    faults      \* crashes, pauses, failed or lost calls so far

leaseVars == <<lock, epochKey, now, leading, lastWrite, faults>>

NoTerm == 0
Fault == faults < MaxFaults /\ faults' = faults + 1

LeaseInit ==
    /\ lock = Nobody
    /\ epochKey = NoTerm
    /\ now = 1
    /\ leading = [i \in Instance |-> NoTerm]
    /\ lastWrite = [epoch |-> NoTerm, by |-> Nobody]
    /\ faults = 0

-----------------------------------------------------------------------------
(* acquire: a lock that is still one's own is kept, with its epoch, as     *)
(* long as the epoch key is there.                                         *)
NextEpoch == IF now > epochKey + 1 THEN now ELSE epochKey + 1

KeepsLock(i) == lock = i /\ epochKey # NoTerm
TakesLock(i) == lock \in {Nobody, i} /\ ~KeepsLock(i)

TakeLock(i) ==
    /\ TakesLock(i)
    /\ now < MaxTime
    /\ lock' = i
    /\ epochKey' = NextEpoch
    /\ now' = NextEpoch + 1

Acquire(i) ==
    /\ leading[i] = NoTerm
    /\ \/ /\ KeepsLock(i)
          /\ leading' = [leading EXCEPT ![i] = epochKey]
          /\ UNCHANGED <<lock, epochKey, now>>
       \/ /\ TakeLock(i)
          /\ leading' = [leading EXCEPT ![i] = NextEpoch]
    /\ UNCHANGED <<lastWrite, faults>>

(* The script ran and its answer is lost: the lock has a holder who does   *)
(* not know it, until the next attempt or the end of the lease.            *)
AcquireReplyLost(i) ==
    /\ leading[i] = NoTerm
    /\ TakeLock(i)
    /\ Fault
    /\ UNCHANGED <<leading, lastWrite>>

-----------------------------------------------------------------------------
(* A renewal finds another holder or none, or has failed for too long: the *)
(* leader stops and leaves the lock alone.                                 *)
StepDown(i) ==
    /\ leading[i] # NoTerm
    /\ IF lock = i THEN Fault ELSE UNCHANGED faults
    /\ leading' = [leading EXCEPT ![i] = NoTerm]
    /\ UNCHANGED <<lock, epochKey, now, lastWrite>>

(* The leader's work ended: the lock is freed if it is still its own and   *)
(* the call does not fail.                                                 *)
FreeLock(i) == lock' = IF lock = i THEN Nobody ELSE lock

EndTerm(i) ==
    /\ leading[i] # NoTerm
    /\ leading' = [leading EXCEPT ![i] = NoTerm]
    /\ FreeLock(i) \/ UNCHANGED lock
    /\ UNCHANGED <<epochKey, now, lastWrite>>

(* A process that comes back has another ID.                               *)
LeaderCrash(i) ==
    /\ Fault
    /\ leading' = [leading EXCEPT ![i] = NoTerm]
    /\ lock' = IF lock = i THEN Ghost ELSE lock
    /\ UNCHANGED <<epochKey, now, lastWrite>>

(* The lease of a leader at work runs out only if it is paused.            *)
LeaseExpires ==
    /\ lock # Nobody
    /\ IF lock \in Instance /\ leading[lock] # NoTerm
       THEN Fault
       ELSE UNCHANGED faults
    /\ lock' = Nobody
    /\ UNCHANGED <<epochKey, now, leading, lastWrite>>

(* "flush, xoa tay, script don dep"                                        *)
EpochLost ==
    /\ epochKey # NoTerm
    /\ Fault
    /\ epochKey' = NoTerm
    /\ UNCHANGED <<lock, now, leading, lastWrite>>

-----------------------------------------------------------------------------
(* The first lines of every script that a leader runs.                     *)
NoFence(i) == TRUE   \* mutant: the epoch is not compared
EpochHolds(i) == epochKey = leading[i]

Write(i) ==
    /\ leading[i] # NoTerm
    /\ EpochHolds(i)
    /\ lastWrite' = [epoch |-> leading[i], by |-> i]
    /\ UNCHANGED <<lock, epochKey, now, leading, faults>>

(* Terms come and go whatever the leader's work is.                        *)
Term(i) ==
    \/ Acquire(i)
    \/ AcquireReplyLost(i)
    \/ StepDown(i)
    \/ LeaderCrash(i)

LeaseNext ==
    \/ \E i \in Instance :
          \/ Term(i)
          \/ Write(i)
          \/ EndTerm(i) /\ (UNCHANGED faults \/ Fault)
    \/ LeaseExpires
    \/ EpochLost

LeaseSpec == LeaseInit /\ [][LeaseNext]_leaseVars

-----------------------------------------------------------------------------
LeaseTypeOK ==
    /\ lock \in Instance \cup {Nobody, Ghost}
    /\ epochKey \in Nat
    /\ now \in Nat \ {0}
    /\ leading \in [Instance -> Nat]
    /\ lastWrite \in [epoch : Nat, by : Instance \cup {Nobody}]
    /\ faults \in 0..MaxFaults

(* BR-Q5.1: what a leader writes is refused once a later leader has        *)
(* written, and no two leaders ever write with the same epoch, although    *)
(* both may believe in their term and the epoch key may be lost meanwhile. *)
WritesInOrderOfTerms ==
    [][/\ lastWrite'.epoch >= lastWrite.epoch
       /\ lastWrite'.epoch = lastWrite.epoch /\ lastWrite.epoch # NoTerm
             => lastWrite'.by = lastWrite.by]_leaseVars
=============================================================================
