---------------------------- MODULE Coalescing ----------------------------
(***************************************************************************)
(* Request coalescing (coalescing_map in cdn-proxy/src/proxy.rs): of the     *)
(* concurrent misses on a cache key the first becomes the leader and goes to *)
(* the origin, the others wait on the leader's Notify and look again.  Keys  *)
(* are independent, so one key is modelled; an entry of the map is named     *)
(* after the request that inserted it.  The map is locked only within a      *)
(* call: cloning an entry and starting to wait on it are two steps, and so   *)
(* are removing an entry and notifying its waiters.                          *)
(***************************************************************************)
EXTENDS Integers, FiniteSets

CONSTANTS
  Requests,  \* requests for the key, all of them cacheable
  None,      \* no entry
  Verdicts   \* what check_response_cacheability may say of a response

ASSUME NoneAssumption == None \notin Requests
ASSUME VerdictsAssumption == TRUE \in Verdicts /\ Verdicts \subseteq BOOLEAN

VARIABLES
  entry,   \* coalescing_map[key]: its inserter, or None
  req,     \* per request: its phase and what ProxyCtx holds
  puts,    \* requests whose spawned cache write has not ended
  cached   \* whether the cache holds the response

vars == <<entry, req, puts, cached>>

\* key: ctx.cache_key is Some; leader: ctx.is_coalescing_leader; on: the entry
\* waited on, or the removed one still to be notified.
Fresh == [pc |-> "lookup", key |-> TRUE, leader |-> FALSE, on |-> None]

Init ==
  /\ entry = None
  /\ req = [r \in Requests |-> Fresh]
  /\ puts = {}
  /\ cached = FALSE

To(r, p) == req' = [req EXCEPT ![r].pc = p]

-----------------------------------------------------------------------------
(* request_filter *)

\* get_with_stale: a hit is served from the cache.
Lookup(r) ==
  /\ req[r].pc = "lookup"
  /\ To(r, IF cached THEN "done" ELSE "enter")
  /\ UNCHANGED <<entry, puts, cached>>

\* Mutant: a miss inserts its entry over another's.
InsertOverwrites(r) == TRUE

\* The entry API finds the key vacant.
Vacant(r) == entry = None

Lead(r) ==
  /\ req[r].pc = "enter" /\ Vacant(r)
  /\ entry' = r
  /\ req' = [req EXCEPT ![r].pc = "origin", ![r].leader = TRUE]
  /\ UNCHANGED <<puts, cached>>

CloneEntry(r) ==
  /\ req[r].pc = "enter" /\ entry # None
  /\ req' = [req EXCEPT ![r].pc = "cloned", ![r].on = entry]
  /\ UNCHANGED <<entry, puts, cached>>

Wait(r) ==
  /\ req[r].pc = "cloned"
  /\ To(r, "waiting")
  /\ UNCHANGED <<entry, puts, cached>>

\* Mutant: a wait without the 30 s limit.
NeverTimesOut(r) == FALSE

\* The 30 s limit may pass.
MayTimeOut(r) == req[r].pc = "waiting"

TimeOut(r) ==
  /\ MayTimeOut(r)
  /\ To(r, "origin")
  /\ UNCHANGED <<entry, puts, cached>>

\* Woken: try the cache again, else go to the origin as well.
Recheck(r) ==
  /\ req[r].pc = "woken"
  /\ To(r, IF cached THEN "done" ELSE "origin")
  /\ UNCHANGED <<entry, puts, cached>>

-----------------------------------------------------------------------------
(* Release, by the body filter, fail_to_connect or logging: a leader that     *)
(* still has its key removes the entry and then notifies.  `p` is the phase   *)
(* that follows.                                                             *)

Removes(r) == req[r].leader /\ req[r].key /\ entry # None

ReleaseThen(r, p) ==
  IF Removes(r)
  THEN /\ entry' = None
       /\ req' = [req EXCEPT ![r].pc = "notify", ![r].leader = FALSE, ![r].on = entry]
  ELSE /\ req' = [req EXCEPT ![r].pc = p, ![r].leader = FALSE]
       /\ UNCHANGED entry

\* notify_waiters wakes those already waiting on the entry.
NotifyWaiters(r) ==
  /\ req[r].pc = "notify"
  /\ req' = [q \in Requests |->
               IF q = r THEN [req[r] EXCEPT !.pc = "logging"]
               ELSE IF req[q].pc = "waiting" /\ req[q].on = req[r].on
                    THEN [req[q] EXCEPT !.pc = "woken"]
                    ELSE req[q]]
  /\ UNCHANGED <<entry, puts, cached>>

-----------------------------------------------------------------------------
(* The origin side *)

\* The last connection attempt fails.
FailToConnect(r) ==
  /\ req[r].pc = "origin"
  /\ ReleaseThen(r, "logging")
  /\ UNCHANGED <<puts, cached>>

\* response_filter: an uncacheable response takes the key out of the context.
ResponseFilter(r, v) ==
  /\ req[r].pc = "origin"
  /\ req' = [req EXCEPT ![r].pc = "body", ![r].key = v]
  /\ UNCHANGED <<entry, puts, cached>>

\* response_body_filter: so does a body above the size limit.
TooLarge(r) ==
  /\ req[r].pc = "body" /\ req[r].key /\ FALSE \in Verdicts
  /\ req' = [req EXCEPT ![r].key = FALSE]
  /\ UNCHANGED <<entry, puts, cached>>

EndOfStream(r) ==
  /\ req[r].pc = "body"
  /\ puts' = IF req[r].key THEN puts \cup {r} ELSE puts
  /\ ReleaseThen(r, "logging")
  /\ UNCHANGED cached

\* No peer, a client that leaves, an origin that breaks off: straight to logging.
Break(r) ==
  /\ req[r].pc \in {"origin", "body"}
  /\ To(r, "logging")
  /\ UNCHANGED <<entry, puts, cached>>

\* Mutant: logging does not release.
NoSafetyNet(r) == req' = [req EXCEPT ![r].pc = "done", ![r].leader = FALSE] /\ UNCHANGED entry

SafetyNet(r) == ReleaseThen(r, "done")

Logging(r) ==
  /\ req[r].pc = "logging"
  /\ SafetyNet(r)
  /\ UNCHANGED <<puts, cached>>

-----------------------------------------------------------------------------
(* The spawned cache write ends, well or badly; the entry expires or is purged. *)

PutEnds(r) ==
  /\ r \in puts
  /\ puts' = puts \ {r}
  /\ cached' \in {TRUE, cached}
  /\ UNCHANGED <<entry, req>>

Evict ==
  /\ cached
  /\ cached' = FALSE
  /\ UNCHANGED <<entry, req, puts>>

Serve(r) ==
  \/ Lookup(r) \/ Lead(r) \/ CloneEntry(r) \/ Wait(r) \/ TimeOut(r) \/ Recheck(r)
  \/ NotifyWaiters(r) \/ FailToConnect(r) \/ \E v \in Verdicts : ResponseFilter(r, v)
  \/ TooLarge(r) \/ EndOfStream(r) \/ Break(r) \/ Logging(r)

Next == (\E r \in Requests : Serve(r) \/ PutEnds(r)) \/ Evict

Spec == Init /\ [][Next]_vars

\* What a request does without the cache or an origin.
Local(r) ==
  Lead(r) \/ CloneEntry(r) \/ Wait(r) \/ TimeOut(r) \/ NotifyWaiters(r) \/ Logging(r)

\* The runtime polls every request and timers fire.  Nothing is assumed of the cache
\* and the origins: the calls to them have no time-outs.
Fairness == \A r \in Requests : WF_vars(Local(r))

FairSpec == Spec /\ Fairness

-----------------------------------------------------------------------------
(* Properties. *)

Phases == {"lookup", "enter", "cloned", "waiting", "woken", "origin", "body", "notify",
           "logging", "done"}

\* Every variable has its type, and only requests that fetched write the cache.
TypeOK ==
  /\ entry \in Requests \cup {None}
  /\ req \in [Requests -> [pc : Phases, key : BOOLEAN, leader : BOOLEAN,
                           on : Requests \cup {None}]]
  /\ puts \subseteq {r \in Requests : req[r].pc \in {"notify", "logging", "done"}}
  /\ cached \in BOOLEAN

\* At most one request leads, and what it removes when it releases is its own
\* entry: remove(cache_key) names the key, not the entry it inserted.
LeaderOwnsEntry == \A r \in Requests : req[r].leader => entry = r

\* An entry outlives its leader only if the leader lost its key to an
\* uncacheable or oversized response; no failure path leaves one behind.
OnlyUncacheableOrphans ==
  entry # None => req[entry].leader \/ ~req[entry].key

\* A request loses its key only when its response arrives.
KeyKept ==
  \A r \in Requests :
    req[r].pc \in {"lookup", "enter", "cloned", "waiting", "woken", "origin"} => req[r].key

\* What every step of request_filter, the body filter, the release points and the
\* cache writes preserves, and both properties above follow from.
IInv == TypeOK /\ LeaderOwnsEntry /\ KeyKept /\ OnlyUncacheableOrphans

\* A request is with the cache or an origin.
Calling(r) == req[r].pc \in {"lookup", "woken", "origin", "body"}

\* A request whose own calls are answered ends, whichever leader fails, finishes
\* early, loses its key or never hears from its origin (proxy.rs 613-660).
EveryRequestEnds ==
  \A r \in Requests : (Calling(r) ~> ~Calling(r)) => <>(req[r].pc = "done")

\* No entry outlives its leader (the "safety net" of logging).
NoOrphans == entry # None => req[entry].pc # "done"

=============================================================================
