------------------------------ MODULE WafSets ------------------------------
(***************************************************************************)
(* get_compiled_waf_sets (cdn-proxy/src/proxy.rs 17-55): each worker thread  *)
(* keeps the compiled IP sets of a site under the address of its             *)
(* Arc<SiteConfig>.  Reloads replace the configuration while requests still  *)
(* hold the one they were routed with; an address is free again once nobody  *)
(* holds it.                                                                 *)
(***************************************************************************)
EXTENDS Naturals, FiniteSets

CONSTANTS
  Addresses,   \* where the allocator may place a SiteConfig
  Threads,
  Limit,       \* entries a thread keeps (64)
  MaxConfigs   \* bound: configurations loaded

VARIABLES
  heap,        \* heap[a]: the configuration at a, 0 when free
  current,     \* the address in the live configuration
  request,     \* request[t]: the request in progress on thread t
  sets         \* sets[t]: WAF_SETS_CACHE, entries [ptr, built]

vars == <<heap, current, request, sets>>

Idle == [ptr |-> 0, used |-> 0]

Init ==
  /\ current \in Addresses
  /\ heap = [a \in Addresses |-> IF a = current THEN 1 ELSE 0]
  /\ request = [t \in Threads |-> Idle]
  /\ sets = [t \in Threads |-> {}]

Newest == heap[current]

\* A new configuration at any free address; the old one is dropped with its last
\* reference.
Reload ==
  /\ Newest < MaxConfigs
  /\ \E a \in Addresses :
       /\ heap[a] = 0
       /\ current' = a
       /\ heap' = [b \in Addresses |->
            IF b = a THEN Newest + 1
            ELSE IF \E t \in Threads : request[t].ptr = b THEN heap[b] ELSE 0]
  /\ UNCHANGED <<request, sets>>

\* match_site: the request holds the configuration it found.
Route(t) ==
  /\ request[t] = Idle
  /\ request' = [request EXCEPT ![t] = [ptr |-> current, used |-> 0]]
  /\ UNCHANGED <<heap, current, sets>>

Entries(t, ptr) == {e \in sets[t] : e.ptr = ptr}

\* Evict: over the limit, only the entries of this pointer stay.
Evicted(t, ptr) == IF Cardinality(sets[t]) > Limit THEN Entries(t, ptr) ELSE sets[t]

\* Any entry with the pointer is taken; the version in the key is not looked at.
get_compiled_waf_sets(t) ==
  LET ptr == request[t].ptr
      new == [ptr |-> ptr, built |-> heap[ptr]]
  IN
  /\ ptr # 0 /\ request[t].used = 0
  /\ \/ \E e \in Entries(t, ptr) :
          request' = [request EXCEPT ![t].used = e.built] /\ UNCHANGED sets
     \/ /\ Entries(t, ptr) = {}
        /\ request' = [request EXCEPT ![t].used = heap[ptr]]
        /\ sets' = [sets EXCEPT ![t] = Evicted(t, ptr) \cup {new}]
  /\ UNCHANGED <<heap, current>>

\* The request ends and lets go of its configuration.
Finish(t) ==
  /\ request[t].used # 0
  /\ request' = [request EXCEPT ![t] = Idle]
  /\ heap' = [a \in Addresses |->
       IF a = current \/ \E u \in Threads \ {t} : request[u].ptr = a THEN heap[a] ELSE 0]
  /\ UNCHANGED <<current, sets>>

Next ==
  \/ Reload
  \/ \E t \in Threads : Route(t) \/ get_compiled_waf_sets(t) \/ Finish(t)

Spec == Init /\ [][Next]_vars

-----------------------------------------------------------------------------

\* A request is checked against the sets of the configuration it was routed with,
\* whatever addresses the allocator hands out (proxy.rs 21-23).
FreshSets == \A t \in Threads : request[t].used # 0 => request[t].used = heap[request[t].ptr]
=============================================================================
