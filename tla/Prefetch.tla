------------------------------ MODULE Prefetch -----------------------------
(***************************************************************************)
(* PrefetchWorker (cdn-streaming/src/prefetch/worker.rs): every manifest that *)
(* passes starts a call that spawns one fetch per segment, deduplicated by    *)
(* the in_flight map and limited by the site's semaphore.                     *)
(***************************************************************************)
EXTENDS Naturals, Sequences, FiniteSets

CONSTANTS
  Lists,       \* Lists[c]: the segment URLs of the manifest behind call c
  Count,       \* prefetch_count
  Limits       \* the values concurrency_limit may be configured to

VARIABLES
  limit,       \* concurrency_limit in the configuration
  semaphore,   \* permits of the site's semaphore, 0 before it is created
  call,        \* call[c]: URLs the call has dealt with
  spawned,        \* spawned[<<c, i>>]: the fetch spawned for its i-th URL
  in_flight,
  cached       \* segments in the cache

vars == <<limit, semaphore, call, spawned, in_flight, cached>>

Calls == DOMAIN Lists
Segments == UNION {{Lists[c][i] : i \in DOMAIN Lists[c]} : c \in Calls}
Taken(c) == IF Len(Lists[c]) < Count THEN Len(Lists[c]) ELSE Count
Tasks == {<<c, i>> \in Calls \X (1..Count) : i \in 1..Taken(c)}
Segment(t) == Lists[t[1]][t[2]]

Init ==
  /\ limit \in Limits /\ semaphore = 0
  /\ call = [c \in Calls |-> 0]
  /\ spawned = [t \in Tasks |-> "none"]
  /\ in_flight = {} /\ cached \in SUBSET Segments

\* The configuration is reloaded.
Reconfigure ==
  /\ limit' \in Limits \ {limit}
  /\ UNCHANGED <<semaphore, call, spawned, in_flight, cached>>

\* One round of prefetch_segments: the site's semaphore is created by the first call
\* and kept; a URL that is in flight is skipped, any other is entered and spawned.
prefetch_segments(c) ==
  LET t == <<c, call[c] + 1>> IN
  /\ t \in Tasks
  /\ semaphore' = IF semaphore = 0 THEN limit ELSE semaphore
  /\ call' = [call EXCEPT ![c] = @ + 1]
  /\ IF Segment(t) \in in_flight
     THEN UNCHANGED <<spawned, in_flight>>
     ELSE /\ in_flight' = in_flight \cup {Segment(t)}
          /\ spawned' = [spawned EXCEPT ![t] = "acquire"]
  /\ UNCHANGED <<limit, cached>>

Running == {t \in Tasks : spawned[t] \in {"check", "fetch", "put"}}

Acquire(t) ==
  /\ spawned[t] = "acquire" /\ Cardinality(Running) < semaphore
  /\ spawned' = [spawned EXCEPT ![t] = "check"]
  /\ UNCHANGED <<limit, semaphore, call, in_flight, cached>>

Ends(t) ==
  /\ spawned' = [spawned EXCEPT ![t] = "ended"]
  /\ in_flight' = in_flight \ {Segment(t)}

\* Mutant: a segment that is cached already stays in flight.
CachedStays(t) ==
  /\ spawned' = [spawned EXCEPT ![t] = "ended"]
  /\ UNCHANGED in_flight

AlreadyCached(t) == Ends(t)

Check(t) ==
  /\ spawned[t] = "check"
  /\ IF Segment(t) \in cached
     THEN AlreadyCached(t)
     ELSE spawned' = [spawned EXCEPT ![t] = "fetch"] /\ UNCHANGED in_flight
  /\ UNCHANGED <<limit, semaphore, call, cached>>

\* fetch_segment: any answer of at most MAX_PREFETCH_BODY is stored.
Fetch(t) ==
  /\ spawned[t] = "fetch"
  /\ \/ spawned' = [spawned EXCEPT ![t] = "put"] /\ UNCHANGED in_flight
     \/ Ends(t)
  /\ UNCHANGED <<limit, semaphore, call, cached>>

Put(t) ==
  /\ spawned[t] = "put"
  /\ cached' \in {cached, cached \cup {Segment(t)}}
  /\ Ends(t)
  /\ UNCHANGED <<limit, semaphore, call>>

\* Elsewhere a segment is stored, expires or is purged.
CacheChanges(s) ==
  /\ cached' = IF s \in cached THEN cached \ {s} ELSE cached \cup {s}
  /\ UNCHANGED <<limit, semaphore, call, spawned, in_flight>>

Next ==
  \/ Reconfigure
  \/ \E c \in Calls : prefetch_segments(c)
  \/ \E t \in Tasks : Acquire(t) \/ Check(t) \/ Fetch(t) \/ Put(t)
  \/ \E s \in Segments : CacheChanges(s)

Spec == Init /\ [][Next]_vars

-----------------------------------------------------------------------------

Unfinished(s) == {t \in Tasks : Segment(t) = s /\ spawned[t] \notin {"none", "ended"}}

\* However many manifests name a segment, at most one fetch of it is under way, and
\* in_flight holds exactly the segments with one: none is left behind that would
\* keep the segment from ever being prefetched again.  The fetches that run stay
\* within the limit the site had when its first manifest passed.
OneFetchPerSegment ==
  /\ \A s \in Segments : Cardinality(Unfinished(s)) = IF s \in in_flight THEN 1 ELSE 0
  /\ Cardinality(Running) <= semaphore
=============================================================================
