--------------------------- MODULE MCNodeServices --------------------------
(***************************************************************************)
(* The background services of a node.  They share no state, so a behaviour  *)
(* runs one of them, chosen at the start, and the others stay as they began. *)
(* The locks are those of RedisLock itself; renewal has a copy of its own.    *)
(***************************************************************************)
EXTENDS RedisLock, Naturals

VARIABLES
  service,
  renewalLock, renewalHeld, renewalLease,
  due, domains, challenges, task,    \* CertRenewal
  files, memory, cache, expired, writer, shake,    \* CertStore
  purge, tracker, settledAt, delivery, overlap,    \* AdminTasks
  warm, warmTracker, worker, counts,    \* WarmTask
  limit, semaphore, call, spawned, in_flight, cached,    \* Prefetch
  action, banned, window, opened, count, req, syncs, redis, admitted,    \* CcLimiter
  sink, at, queue, batches, sending, out, local, accepted, claimed,    \* LogQueue
  bucket, listing, steady, refused    \* ObjectStore

Renewal ==
  INSTANCE CertRenewal WITH
     Nodes <- {1}, Keys <- {"scan", "d"}, NoOwner <- 0, Scan <- "scan",
     Domains <- {"d"}, Providers <- {1, 2},
     lock <- renewalLock, held <- renewalHeld, lease <- renewalLease
Store ==
  INSTANCE CertStore WITH
     Handshakes <- {1}, MaxSerial <- 2
Admin ==
  INSTANCE AdminTasks WITH
     Purges <- {1, 2}, MaxRetries <- 2
Warm ==
  INSTANCE WarmTask WITH
     Urls <- 1..3, Permits <- 2
Segments ==
  INSTANCE Prefetch WITH
     Lists <- <<<<"a", "b">>, <<"b", "a">>>>, Count <- 2, Limits <- {1, 2}
Limiter ==
  INSTANCE CcLimiter WITH
     Requests <- 1..2, Rate <- 1, SyncEvery <- 2, MaxWindows <- 2, MaxCount <- 3
Log ==
  INSTANCE LogQueue WITH
     Entries <- {1, 2}, Unreached <- {2}, Channels <- <<"a", "b", "a">>, Phases <- {2},
     Capacity <- 2, BatchSize <- 2
Objects ==
  INSTANCE ObjectStore WITH
     Names <- 1..4, PageSize <- 2, MaxKeys <- 4, purge <- listing

renewalVars == <<renewalLock, renewalHeld, renewalLease, due, domains, challenges, task>>
storeVars == <<files, memory, cache, expired, writer, shake>>
adminVars == <<purge, tracker, settledAt, delivery, overlap>>
warmVars == <<warm, warmTracker, worker, counts>>
prefetchVars == <<limit, semaphore, call, spawned, in_flight, cached>>
ccVars == <<action, banned, window, opened, count, req, syncs, redis, admitted>>
logVars == <<sink, at, queue, batches, sending, out, local, accepted, claimed>>
ossVars == <<bucket, listing, steady, refused>>

vars == <<service, renewalVars, lockVars, storeVars, adminVars, warmVars, prefetchVars, ccVars, logVars, ossVars>>

Services == {"renewal", "locks", "store", "admin", "warm", "prefetch", "cc", "log", "oss"}

\* A service that does not run begins in one fixed state.
Init ==
  /\ service \in Services
  /\ Renewal!Init
  /\ LockInit
  /\ Store!Init
  /\ Admin!Init
  /\ Warm!Init
  /\ Segments!Init
  /\ Limiter!Init
  /\ Log!Init
  /\ Objects!Init
  /\ service # "prefetch" => limit = 1 /\ cached = {}
  /\ service # "cc" => action = "Block"
  /\ service # "log" => sink = "redis"
  /\ service # "oss" => bucket = {}

Next ==
  \/ /\ service = "renewal" /\ Renewal!Next
     /\ UNCHANGED <<service, lockVars, storeVars, adminVars, warmVars, prefetchVars, ccVars, logVars, ossVars>>
  \/ /\ service = "locks" /\ LockNext
     /\ UNCHANGED <<service, renewalVars, storeVars, adminVars, warmVars, prefetchVars, ccVars, logVars, ossVars>>
  \/ /\ service = "store" /\ Store!Next
     /\ UNCHANGED <<service, renewalVars, lockVars, adminVars, warmVars, prefetchVars, ccVars, logVars, ossVars>>
  \/ /\ service = "admin" /\ Admin!Next
     /\ UNCHANGED <<service, renewalVars, lockVars, storeVars, warmVars, prefetchVars, ccVars, logVars, ossVars>>
  \/ /\ service = "warm" /\ Warm!Next
     /\ UNCHANGED <<service, renewalVars, lockVars, storeVars, adminVars, prefetchVars, ccVars, logVars, ossVars>>
  \/ /\ service = "prefetch" /\ Segments!Next
     /\ UNCHANGED <<service, renewalVars, lockVars, storeVars, adminVars, warmVars, ccVars, logVars, ossVars>>
  \/ /\ service = "cc" /\ Limiter!Next
     /\ UNCHANGED <<service, renewalVars, lockVars, storeVars, adminVars, warmVars, prefetchVars, logVars, ossVars>>
  \/ /\ service = "log" /\ Log!Next
     /\ UNCHANGED <<service, renewalVars, lockVars, storeVars, adminVars, warmVars, prefetchVars, ccVars, ossVars>>
  \/ /\ service = "oss" /\ Objects!Next
     /\ UNCHANGED <<service, renewalVars, lockVars, storeVars, adminVars, warmVars, prefetchVars, ccVars, logVars>>

Spec == Init /\ [][Next]_vars /\ Admin!Fairness /\ Store!Fairness

-----------------------------------------------------------------------------

\* While an order is being authorized its tokens are in the store, and none is left
\* when it ends (acme.rs 210-343).
TokensFollowOrder == Renewal!TokensFollowOrder

\* A scan holds the scan lock, and the lock of a domain just while it deals with it,
\* however the renewal fails (renewal.rs 60-188).
LocksFollowScan == Renewal!LocksFollowScan

\* Once the stored certificates stop changing, every name answers for good with what
\* the storage has (manager.rs 19-68).
AnswersSettle == Store!AnswersSettle

\* The status endpoints tell the truth about purges and webhook deliveries
\* (purge.rs, webhook.rs), and a completed warm task accounts for every URL once
\* (warm.rs).
StatusTrue == Admin!StatusTrue /\ Warm!WarmAddsUp

\* No purge whose calls are answered is listed as running for ever, and no delivery as
\* pending (purge.rs, webhook.rs).
TasksSettle == Admin!TasksSettle

\* At most one fetch of a segment is under way, and in_flight holds exactly the
\* segments with one (worker.rs 91-181).
OneFetchPerSegment == Segments!OneFetchPerSegment

\* A window lets at most the rate through, and Redis is never told of more than was
\* counted (cc/mod.rs 145-168).
CountersHold == Limiter!CountersHold

\* A destination sees its entries in the order they were queued, each at most once:
\* queue and sink implement LossyFifo (queue.rs 22-55).
DeliveredInOrder == Log!DeliveredInOrder

\* A message the queue accepted is on its way, at its destination or in the local
\* log, or was lost by a sink without confirmations (queue.rs 45-53).
Recorded == Log!Recorded

\* A purge by listing that reports success has removed what was there throughout,
\* but for refused names and a listing cut at MaxKeys (oss.rs 259-449).
ListedAreGone == Objects!ListedAreGone
=============================================================================
