-------------------------- MODULE RedisLockProofs ---------------------------
(* DistributedLock implements the lease, for any processes and lock names.    *)
EXTENDS RedisLock, TLAPS

LockTypeOK ==
  /\ lock \in [Keys -> Nodes \cup {NoOwner}]
  /\ held \in [Nodes -> SUBSET Keys]
  /\ lease \in [Nodes -> SUBSET Keys]

\* A lease that has not run out is backed by the key in Redis.
LeaseBacked == \A n \in Nodes, k \in Keys : k \in lease[n] => lock[k] = n

LockInv == LockTypeOK /\ LeaseBacked

\* The refinement mapping.
Holders == [k \in Keys |-> {n \in Nodes : k \in lease[n]}]

\* The invariant is inductive: neither a lost answer, a late release, an expiry nor
\* the end of a process leaves a lease without its key (lock.rs 23-34, 77-86).
LEMMA LockInvInductive ==
  ASSUME NoOwner \notin Nodes, LockInv, [LockNext]_lockVars
  PROVE  LockInv'
<1> USE DEF LockInv, LockTypeOK, LeaseBacked
<1>1. ASSUME NEW n \in Nodes, NEW k \in Keys, Acquire(n, k) PROVE LockInv'
  BY <1>1 DEF Acquire
<1>2. ASSUME NEW n \in Nodes, NEW k \in Keys, AcquireFails(n, k) PROVE LockInv'
  BY <1>2 DEF AcquireFails
<1>3. ASSUME NEW n \in Nodes, NEW k \in Keys, Release(n, k) PROVE LockInv'
  BY <1>3 DEF Release, release_script
<1>4. ASSUME NEW k \in Keys, Expire(k) PROVE LockInv'
  BY <1>4 DEF Expire
<1>5. ASSUME NEW n \in Nodes, Dies(n) PROVE LockInv'
  BY <1>5 DEF Dies
<1>6. CASE UNCHANGED lockVars
  BY <1>6 DEF lockVars
<1> QED BY <1>1, <1>2, <1>3, <1>4, <1>5, <1>6 DEF LockNext

\* Every step of the lock is a step of the lease, or leaves it as it is.
LEMMA LockStepIsLeaseStep ==
  ASSUME NoOwner \notin Nodes, LockInv, [LockNext]_lockVars
  PROVE  [Abstract!Next]_Holders
<1> USE DEF LockInv, LockTypeOK, LeaseBacked
<1> SUFFICES ASSUME Holders' # Holders PROVE Abstract!Next
  BY DEF Abstract!Next, Holders
<1>1. ASSUME NEW n \in Nodes, NEW k \in Keys, Acquire(n, k) PROVE Abstract!Next
  <2>1. Holders[k] = {}
    BY <1>1 DEF Acquire, Holders
  <2>2. ASSUME NEW j \in Keys
        PROVE  Holders'[j] = IF j = k THEN {n} ELSE Holders[j]
    <3>1. ASSUME NEW m \in Nodes
          PROVE  j \in lease'[m] <=> j \in lease[m] \/ (m = n /\ j = k)
      BY <1>1 DEF Acquire
    <3> QED BY <2>1, <3>1 DEF Holders
  <2>3. Holders' = [Holders EXCEPT ![k] = {n}]
    BY <2>2, ZenonT(30) DEF Holders
  <2> QED BY <2>1, <2>3 DEF Abstract!Next, Abstract!Grant, Holders
<1>2. ASSUME NEW n \in Nodes, NEW ks \in SUBSET lease[n],
             lease' = [lease EXCEPT ![n] = @ \ ks]
      PROVE  Abstract!Next
  <2>1. ks \in SUBSET Keys /\ \A k \in ks : n \in Holders[k]
    BY DEF Holders
  <2>2. Holders' = [k \in Keys |-> IF k \in ks THEN Holders[k] \ {n} ELSE Holders[k]]
    BY <1>2 DEF Holders
  <2>3. Abstract!End(n)
    BY <2>1, <2>2, SMTT(30) DEF Abstract!End, Holders
  <2> QED BY <2>3 DEF Abstract!Next, Holders
<1>3. ASSUME NEW n \in Nodes, NEW k \in Keys, AcquireFails(n, k) PROVE FALSE
  BY <1>3 DEF AcquireFails, Holders
<1>4. ASSUME NEW n \in Nodes, NEW k \in Keys, Release(n, k) PROVE Abstract!Next
  <2> DEFINE ks == {k} \cap lease[n]
  <2>1. ks \in SUBSET lease[n] /\ lease' = [lease EXCEPT ![n] = @ \ ks]
    BY <1>4, ZenonT(30) DEF Release
  <2> HIDE DEF ks
  <2> QED BY <1>2, <2>1
<1>5. ASSUME NEW k \in Keys, Expire(k) PROVE Abstract!Next
  <2>1. lock[k] \in Nodes
    BY <1>5 DEF Expire
  <2> DEFINE ks == {k} \cap lease[lock[k]]
  <2>2. ks \in SUBSET lease[lock[k]] /\ lease' = [lease EXCEPT ![lock[k]] = @ \ ks]
    BY <1>5, <2>1, ZenonT(30) DEF Expire
  <2> HIDE DEF ks
  <2> QED BY <1>2, <2>1, <2>2
<1>6. ASSUME NEW n \in Nodes, Dies(n) PROVE Abstract!Next
  <2> DEFINE ks == lease[n]
  <2>1. ks \in SUBSET lease[n] /\ lease' = [lease EXCEPT ![n] = @ \ ks]
    BY <1>6, ZenonT(30) DEF Dies
  <2> HIDE DEF ks
  <2> QED BY <1>2, <2>1
<1>7. ASSUME UNCHANGED lockVars PROVE FALSE
  BY <1>7 DEF lockVars, Holders
<1> QED BY <1>1, <1>3, <1>4, <1>5, <1>6, <1>7 DEF LockNext

\* DistributedLock implements Lease (LeaseKept): on no behaviour do two processes
\* hold a key whose time-to-live has not run out.
THEOREM LockImplementsLease ==
  ASSUME NoOwner \notin Nodes
  PROVE  LockSpec => LeaseKept
<1>1. LockInit => LockInv
  BY DEF LockInit, LockInv, LockTypeOK, LeaseBacked
<1>2. LockInv /\ [LockNext]_lockVars => LockInv'
  BY LockInvInductive
<1>3. LockInit => Abstract!Init
  BY DEF LockInit, Abstract!Init
<1>4. LockInv /\ [LockNext]_lockVars => [Abstract!Next]_Holders
  BY LockStepIsLeaseStep
<1> QED BY <1>1, <1>2, <1>3, <1>4, PTL DEF LockSpec, LeaseKept, Abstract!Spec, Holders
=============================================================================
