----------------------------- MODULE WarmTask ------------------------------
(***************************************************************************)
(* A cache-warming task of the admin API (cdn-proxy/src/admin/warm.rs): one  *)
(* spawned fetch per URL under a semaphore, two atomic counters, and the     *)
(* entry of the task in WarmTaskTracker.                                     *)
(***************************************************************************)
EXTENDS Naturals, FiniteSets

CONSTANTS
  Urls,         \* the URLs of the request
  Permits       \* concurrent fetches (10)

VARIABLES
  warm,         \* where the request and its task are
  warmTracker,  \* the task's entry in WarmTaskTracker
  worker,       \* worker[u]: the spawned fetch of u
  counts        \* counts.completed, counts.failed: the atomic counters

vars == <<warm, warmTracker, worker, counts>>

Init ==
  /\ warm = "idle" /\ warmTracker = [status |-> "absent", completed |-> 0, failed |-> 0]
  /\ worker = [u \in Urls |-> "waiting"]
  /\ counts = [completed |-> 0, failed |-> 0]


\* warm_cache: a valid request is tracked and its task spawned.
WarmRequested ==
  /\ warm = "idle"
  /\ \/ warm' = "refused" /\ UNCHANGED warmTracker
     \/ warm' = "spawned" /\ warmTracker' = [warmTracker EXCEPT !.status = "Running"]
  /\ UNCHANGED <<worker, counts>>

\* warm_urls_background without an enabled primary origin, or with one.
WarmStarts ==
  /\ warm = "spawned"
  /\ \/ warm' = "done" /\ warmTracker' = [warmTracker EXCEPT !.status = "Failed"]
     \/ warm' = "spawning" /\ UNCHANGED warmTracker
  /\ UNCHANGED <<worker, counts>>

Running == {u \in Urls : worker[u] \in {"check", "fetch", "put"}}

\* A permit is taken before the fetch is spawned, and dropped with it.
WarmSpawn(u) ==
  /\ warm = "spawning" /\ worker[u] = "waiting"
  /\ Cardinality(Running) < Permits
  /\ worker' = [worker EXCEPT ![u] = "check"]
  /\ UNCHANGED <<warm, warmTracker, counts>>

WarmEnds(u, outcome) ==
  /\ worker' = [worker EXCEPT ![u] = "ended"]
  /\ counts' = [counts EXCEPT ![outcome] = @ + 1]

\* A fresh entry is left alone; an origin answer is stored; sending, reading the
\* body and writing the cache may fail.
WarmStep(u) ==
  /\ \/ /\ worker[u] = "check"
        /\ \/ WarmEnds(u, "completed")
           \/ worker' = [worker EXCEPT ![u] = "fetch"] /\ UNCHANGED counts
     \/ /\ worker[u] = "fetch"
        /\ \/ WarmEnds(u, "failed")
           \/ worker' = [worker EXCEPT ![u] = "put"] /\ UNCHANGED counts
     \/ /\ worker[u] = "put"
        /\ WarmEnds(u, "completed") \/ WarmEnds(u, "failed")
  /\ UNCHANGED <<warm, warmTracker>>

Joined == \A u \in Urls : worker[u] = "ended"

\* All handles are awaited, then the counters are recorded.
WarmSettles ==
  /\ warm = "spawning" /\ Joined
  /\ warm' = "done"
  /\ warmTracker' = [status |-> "Completed", completed |-> counts.completed,
                     failed |-> counts.failed]
  /\ UNCHANGED <<worker, counts>>

-----------------------------------------------------------------------------

Next ==
  \/ WarmRequested \/ WarmStarts \/ WarmSettles
  \/ \E u \in Urls : WarmSpawn(u) \/ WarmStep(u)

Spec == Init /\ [][Next]_vars

-----------------------------------------------------------------------------

\* A completed warm task accounts for every URL of the request exactly once, and
\* no more fetches than there are permits run at a time.
WarmAddsUp ==
  /\ warmTracker.status = "Completed" =>
       warmTracker.completed + warmTracker.failed = Cardinality(Urls)
  /\ Cardinality(Running) <= Permits
=============================================================================
