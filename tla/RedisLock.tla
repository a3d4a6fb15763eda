----------------------------- MODULE RedisLock -----------------------------
(***************************************************************************)
(* DistributedLock (cdn-proxy/src/utils/lock.rs) over the Redis commands of  *)
(* redis_pool.rs.  A key is set with NX and a time-to-live and deleted by a  *)
(* script that compares the owner.  renew and acquire_with_retry have no     *)
(* caller.                                                                   *)
(***************************************************************************)
CONSTANTS
  Nodes,    \* processes; the owner string is node_id:pid
  Keys,     \* lock names
  NoOwner

VARIABLES
  lock,     \* Redis: the owner stored under each key
  held,     \* held[n]: keys n has acquired and not yet released
  lease     \* lease[n]: those of them whose time-to-live has not run out

lockVars == <<lock, held, lease>>

LockInit ==
  /\ lock = [k \in Keys |-> NoOwner]
  /\ held = [n \in Nodes |-> {}]
  /\ lease = [n \in Nodes |-> {}]

\* SET NX EX answered with OK.
Acquire(n, k) ==
  /\ lock[k] = NoOwner
  /\ lock' = [lock EXCEPT ![k] = n]
  /\ held' = [held EXCEPT ![n] = @ \cup {k}]
  /\ lease' = [lease EXCEPT ![n] = @ \cup {k}]

\* acquire returns false: the key is taken, Redis is not available or fails, or
\* the key was set and the answer lost, so that it stays until it expires.
AcquireFails(n, k) ==
  /\ lock' \in {lock, [lock EXCEPT ![k] = IF @ = NoOwner THEN n ELSE @]}
  /\ UNCHANGED <<held, lease>>

\* Mutant: DEL without the comparison.
DeletesAny(n, k) == [lock EXCEPT ![k] = NoOwner]

\* release_script: GET, compare with the owner, DEL.
release_script(n, k) == [lock EXCEPT ![k] = IF @ = n THEN NoOwner ELSE @]

\* The result of release is ignored: when the script does not run, the key stays
\* until it expires.
Release(n, k) ==
  /\ k \in held[n]
  /\ lock' \in {lock, release_script(n, k)}
  /\ held' = [held EXCEPT ![n] = @ \ {k}]
  /\ lease' = [lease EXCEPT ![n] = @ \ {k}]

\* Redis drops the key at the end of its time-to-live; nobody is told.
Expire(k) ==
  /\ lock[k] # NoOwner
  /\ lock' = [lock EXCEPT ![k] = NoOwner]
  /\ lease' = [lease EXCEPT ![lock[k]] = @ \ {k}]
  /\ UNCHANGED held

\* The process ends; its keys stay in Redis.
Dies(n) ==
  /\ held' = [held EXCEPT ![n] = {}]
  /\ lease' = [lease EXCEPT ![n] = {}]
  /\ UNCHANGED lock

LockNext ==
  \/ \E n \in Nodes, k \in Keys :
       (k \notin held[n] /\ (Acquire(n, k) \/ AcquireFails(n, k))) \/ Release(n, k)
  \/ \E k \in Keys : Expire(k)
  \/ \E n \in Nodes : Dies(n)

LockSpec == LockInit /\ [][LockNext]_lockVars

-----------------------------------------------------------------------------

Abstract == INSTANCE Lease WITH holders <- [k \in Keys |-> {n \in Nodes : k \in lease[n]}]

\* The lock implements the lease: two processes never both hold a key whose
\* time-to-live has not run out, although a process whose key has expired still
\* believes in it and releases it (lock.rs 76-86 compares the owner first).
LeaseKept == Abstract!Spec
=============================================================================
