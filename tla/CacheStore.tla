---------------------------- MODULE CacheStore ----------------------------
(***************************************************************************)
(* The cache of one site (cdn-cache/src/storage.rs) and its purges           *)
(* (cdn-proxy/src/admin/purge.rs).  An entry is a body in object storage     *)
(* (OSS) and its metadata in Redis, written and removed by separate calls;    *)
(* Redis forgets the metadata at its time-to-live, OSS forgets nothing.  One  *)
(* tag is modelled, with the Redis set that indexes the keys carrying it.     *)
(* Every remote call is a step, so calls of concurrent operations interleave. *)
(* A response is named after the put that stores it.  OSS and Redis are        *)
(* external; time advances in ticks.                                          *)
(***************************************************************************)
EXTENDS Integers, FiniteSets

CONSTANTS
  Keys,      \* cache keys of the site
  Puts,      \* storage.put calls of a behaviour (and the responses they store)
  Gets,      \* storage.get_with_stale calls
  Purges,    \* purge requests
  Kinds,     \* what a purge may name: "url", "tag", "site"
  None,      \* no metadata, no body
  Ttls,      \* the lifetimes a response may have
  Swr,       \* stale_while_revalidate of every response
  TagBuffer, \* what EXPIRE adds to the lifetime of the tag set (3600 s)
  MaxTime,   \* bound on the clock
  MaxFaults  \* bound on failed remote calls

ASSUME NoneAssumption == None \notin Puts
ASSUME KindsAssumption == Kinds \subseteq {"url", "tag", "site"}
ASSUME TimesAssumption ==
  /\ Ttls \subseteq Nat /\ Swr \in Nat /\ TagBuffer \in Nat
  /\ MaxTime \in Nat /\ MaxFaults \in Nat

VARIABLES
  now,     \* the clock
  meta,    \* Redis, per key: the response it describes and when Redis drops it
  body,    \* OSS, per key: the response whose body is stored
  index,   \* Redis: the tag set, and when Redis drops it
  dels,    \* keys with a spawned background DEL of their metadata
  put, get, purge,  \* the calls and where they are
  gone,    \* responses removed by a finished purge (history variable)
  faults   \* failed remote calls so far

calls == <<put, get, purge>>
redis == <<meta, index>>
vars  == <<now, meta, body, index, dels, put, get, purge, gone, faults>>

NoMeta  == [of |-> None, dies |-> 0]
NoIndex == [keys |-> {}, dies |-> 0]
MaxOf(a, b) == IF a >= b THEN a ELSE b

\* Later than any time the clock reaches.
Never == MaxTime + 1

Init ==
  /\ now = 0
  /\ meta = [k \in Keys |-> NoMeta]
  /\ body = [k \in Keys |-> None]
  /\ index = NoIndex
  /\ dels = {}
  /\ put = [p \in Puts |-> [pc |-> "idle", key |-> None, expires |-> 0, ttl |-> 1,
                            tagged |-> FALSE, nth |-> 0]]
  /\ get = [g \in Gets |-> [pc |-> "idle", key |-> None, at |-> 0, seen |-> None,
                            way |-> "bare", got |-> None, lone |-> FALSE, banned |-> {}]]
  /\ purge = [d \in Purges |-> [pc |-> "idle", kind |-> "url", keys |-> {}, left |-> {},
                                old |-> {}]]
  /\ gone = {} /\ faults = 0

-----------------------------------------------------------------------------
(* Time, and Redis dropping what has reached its time-to-live: within the     *)
(* tick in which it does, since Redis counts from the call and not from the   *)
(* full second.                                                              *)

Tick ==
  /\ now < MaxTime
  /\ \A k \in Keys : meta[k] # NoMeta => meta[k].dies > now
  /\ index # NoIndex => index.dies > now
  /\ now' = now + 1
  /\ UNCHANGED <<redis, body, dels, calls, gone, faults>>

DropMeta(k) ==
  /\ meta[k] # NoMeta /\ meta[k].dies = now
  /\ meta' = [meta EXCEPT ![k] = NoMeta]
  /\ UNCHANGED <<now, body, index, dels, calls, gone, faults>>

DropIndex ==
  /\ index # NoIndex /\ index.dies = now
  /\ index' = NoIndex
  /\ UNCHANGED <<now, meta, body, dels, calls, gone, faults>>

Fault == faults < MaxFaults /\ faults' = faults + 1

-----------------------------------------------------------------------------
(* put: OSS PUT, then SETEX, then SADD and EXPIRE for the tag. *)

\* build_cache_meta fixes the expiry when the response ends.
BeginPut(p) ==
  /\ put[p].pc = "idle"
  /\ \E k \in Keys, t \in Ttls, b \in BOOLEAN :
       put' = [put EXCEPT ![p] = [pc |-> "oss", key |-> k, expires |-> now + t, ttl |-> 1,
                                  tagged |-> b, nth |-> 0]]
  /\ UNCHANGED <<now, redis, body, dels, get, purge, gone, faults>>

\* The TTL for Redis: what is left of the lifetime, at least 1.
LeftOf(p) == MaxOf(put[p].expires - now, 1)

\* nth: the place of this body among the bodies stored so far (history).
NextNth == 1 + Cardinality({q \in Puts : put[q].nth > 0})

\* The body is stored; the TTL is fixed when the call returns.
PutBody(p) ==
  /\ put[p].pc = "oss"
  /\ body' = [body EXCEPT ![put[p].key] = p]
  /\ put' = [put EXCEPT ![p].pc = "setex", ![p].ttl = LeftOf(p), ![p].nth = NextNth]
  /\ UNCHANGED <<now, redis, dels, get, purge, gone, faults>>

\* Mutant: the metadata is written although the body was not.
FailedPutGoesOn(p) ==
  /\ put[p].pc = "oss" /\ Fault
  /\ put' = [put EXCEPT ![p].pc = "setex", ![p].nth = NextNth]
  /\ UNCHANGED <<now, redis, body, dels, get, purge, gone>>

\* The put returns an error and writes no metadata; the body is not stored, or
\* it is and only the answer was lost.
PutBodyFails(p) ==
  /\ put[p].pc = "oss" /\ Fault
  /\ \/ UNCHANGED body /\ put' = [put EXCEPT ![p].pc = "failed"]
     \/ /\ body' = [body EXCEPT ![put[p].key] = p]
        /\ put' = [put EXCEPT ![p].pc = "failed", ![p].nth = NextNth]
  /\ UNCHANGED <<now, redis, dels, get, purge, gone>>

AfterMeta(p) == IF put[p].tagged THEN "sadd" ELSE "done"

SetMeta(p) ==
  /\ put[p].pc = "setex"
  /\ meta' = [meta EXCEPT ![put[p].key] = [of |-> p, dies |-> now + put[p].ttl]]
  /\ put' = [put EXCEPT ![p].pc = AfterMeta(p)]
  /\ UNCHANGED <<now, body, index, dels, get, purge, gone, faults>>

\* A failed SETEX is logged and the put goes on.
SetMetaFails(p) ==
  /\ put[p].pc = "setex" /\ Fault
  /\ put' = [put EXCEPT ![p].pc = AfterMeta(p)]
  /\ UNCHANGED <<now, redis, body, dels, get, purge, gone>>

\* SADD leaves the set's time-to-live alone, and a new set without one; if it
\* fails the put goes on to EXPIRE.
AddTag(p) ==
  /\ put[p].pc = "sadd"
  /\ \/ /\ index' = [keys |-> index.keys \cup {put[p].key},
                    dies |-> IF index = NoIndex THEN Never ELSE index.dies]
        /\ UNCHANGED faults
     \/ UNCHANGED index /\ Fault
  /\ put' = [put EXCEPT ![p].pc = "expire"]
  /\ UNCHANGED <<now, meta, body, dels, get, purge, gone>>

\* EXPIRE restarts the set's time-to-live at this response's; on a set that does
\* not exist it does nothing.
ExpireTag(p) ==
  /\ put[p].pc = "expire"
  /\ \/ /\ index' = IF index = NoIndex THEN NoIndex
                   ELSE [index EXCEPT !.dies = now + put[p].ttl + TagBuffer]
        /\ UNCHANGED faults
     \/ UNCHANGED index /\ Fault
  /\ put' = [put EXCEPT ![p].pc = "done"]
  /\ UNCHANGED <<now, meta, body, dels, get, purge, gone>>

-----------------------------------------------------------------------------
(* get_with_stale: Redis GET, then the body.  A call notes whether it found no *)
(* metadata although no put of its key was under way (lone), and what purges  *)
(* had removed when it began (banned).                                       *)

Expired(p) == put[p].expires <= now
InWindow(p) == Expired(p) /\ put[p].expires + Swr > now

\* How the metadata read (or its absence) makes the call go on.
WayFor(p) == IF p = None THEN "bare" ELSE IF ~Expired(p) THEN "fresh"
             ELSE IF InWindow(p) THEN "stale" ELSE "expired"

\* Redis answers p; expired metadata ends the call and spawns a DEL.
MetaRead(g, k, p) ==
  LET over == WayFor(p) = "expired"
  IN  /\ get' = [get EXCEPT ![g] = [pc |-> IF over THEN "done" ELSE "body", key |-> k, at |-> now,
                                    seen |-> p, way |-> WayFor(p), got |-> None,
                                    lone |-> p = None /\ \A q \in Puts :
                                      put[q].key = k => put[q].pc \notin {"oss", "setex"},
                                    banned |-> gone]]
      /\ dels' = IF over THEN dels \cup {k} ELSE dels

\* An error of Redis counts as no metadata.
GetMeta(g) ==
  /\ get[g].pc = "idle"
  /\ \E k \in Keys : \/ MetaRead(g, k, meta[k].of) /\ UNCHANGED faults
                     \/ MetaRead(g, k, None) /\ Fault
  /\ UNCHANGED <<now, redis, body, put, purge, gone>>

\* OSS answers p; no body after fresh metadata spawns a DEL of the metadata.
BodyRead(g, p) ==
  /\ get' = [get EXCEPT ![g].pc = "done", ![g].got = p]
  /\ dels' = IF p = None /\ get[g].way = "fresh" THEN dels \cup {get[g].key} ELSE dels

GetBody(g) ==
  /\ get[g].pc = "body"
  /\ \/ BodyRead(g, body[get[g].key]) /\ UNCHANGED faults
     \/ BodyRead(g, None) /\ Fault
  /\ UNCHANGED <<now, redis, body, put, purge, gone>>

\* The spawned DEL names the key, whatever metadata it holds by then.
BackgroundDel(k) ==
  /\ k \in dels
  /\ dels' = dels \ {k}
  /\ \/ meta' = [meta EXCEPT ![k] = NoMeta] /\ UNCHANGED faults
     \/ UNCHANGED meta /\ Fault
  /\ UNCHANGED <<now, body, index, calls, gone>>

-----------------------------------------------------------------------------
(* Purges.  `keys` is what the purge found to remove, `old` the responses     *)
(* stored under those keys by then, without those OSS refuses to delete.      *)

\* Stored: the put has made its last write to the entry.
Stored == {p \in Puts : put[p].pc \in {"sadd", "expire", "done"}}

Found(d, kind, ks, p) ==
  purge' = [purge EXCEPT ![d] = [pc |-> p, kind |-> kind, keys |-> ks, left |-> ks,
                                 old |-> {q \in Stored : put[q].key \in ks}]]

\* delete: read the metadata for its tags first.
PurgeUrl(d) ==
  /\ purge[d].pc = "idle" /\ "url" \in Kinds
  /\ \E k \in Keys :
       /\ \/ /\ Found(d, "url", {k}, IF meta[k].of # None /\ put[meta[k].of].tagged
                                     THEN "srem" ELSE "oss")
             /\ UNCHANGED faults
          \/ Found(d, "url", {k}, "oss") /\ Fault
  /\ UNCHANGED <<now, redis, body, dels, put, get, gone>>

WithoutKeys(ks) ==
  IF index.keys \ ks = {} THEN NoIndex ELSE [index EXCEPT !.keys = @ \ ks]

RemoveFromTag(d) ==
  /\ purge[d].pc = "srem"
  /\ \/ index' = WithoutKeys(purge[d].keys) /\ UNCHANGED faults
     \/ UNCHANGED index /\ Fault
  /\ purge' = [purge EXCEPT ![d].pc = "oss"]
  /\ UNCHANGED <<now, meta, body, dels, put, get, gone>>

\* delete_by_tag: SMEMBERS; an error fails the purge, no member ends it.
PurgeTag(d) ==
  /\ purge[d].pc = "idle" /\ "tag" \in Kinds
  /\ \/ /\ Found(d, "tag", index.keys, IF index.keys = {} THEN "done" ELSE "oss")
        /\ UNCHANGED faults
     \/ Found(d, "tag", {}, "failed") /\ Fault
  /\ UNCHANGED <<now, redis, body, dels, put, get, gone>>

\* purge_site_inner: SCAN; if it finds nothing or fails, list the bodies.
Scanned == {k \in Keys : meta[k] # NoMeta}

PurgeSite(d) ==
  /\ purge[d].pc = "idle" /\ "site" \in Kinds
  /\ \/ Found(d, "site", Scanned, IF Scanned = {} THEN "list" ELSE "oss") /\ UNCHANGED faults
     \/ Found(d, "site", {}, "list") /\ Fault
  /\ UNCHANGED <<now, redis, body, dels, put, get, gone>>

\* delete_site_oss_only leaves the metadata alone.
ListBodies(d) ==
  /\ purge[d].pc = "list"
  /\ LET ks == {k \in Keys : body[k] # None}
     IN  /\ \/ /\ purge' = [purge EXCEPT ![d].pc = IF ks = {} THEN "done" ELSE "oss",
                                         ![d].keys = ks,
                                         ![d].old = {p \in @ \cup Stored : put[p].key \in ks}]
               /\ UNCHANGED faults
            \/ purge' = [purge EXCEPT ![d].pc = "failed"] /\ Fault
  /\ UNCHANGED <<now, redis, body, dels, put, get, gone>>

\* Mutant: the metadata goes and the body stays.
BodyKept(k, ks) == body[k]

BodyAfter(k, ks) == IF k \in ks THEN None ELSE body[k]

\* The bodies go, a single one by DELETE and many in one batch.  A batch may be
\* refused for some of its names: the code does not look, and the purge goes on.
DeleteBodies(d) ==
  /\ purge[d].pc = "oss"
  /\ \E refused \in SUBSET purge[d].keys :
       /\ refused # {} => purge[d].kind # "url"
       /\ IF refused = {} THEN UNCHANGED faults ELSE Fault
       /\ body' = [k \in Keys |-> BodyAfter(k, purge[d].keys \ refused)]
       /\ LET old == purge[d].old \ {body[k] : k \in refused}
          IN  /\ purge' = [purge EXCEPT ![d].pc = IF purge[d].left = {} THEN "done" ELSE "del",
                                        ![d].old = old]
              /\ gone' = IF purge[d].left = {} THEN gone \cup old ELSE gone
  /\ UNCHANGED <<now, redis, dels, put, get>>

\* An error ends the purge there; some of the bodies may have gone by then.
DeleteBodiesFails(d) ==
  /\ purge[d].pc = "oss" /\ Fault
  /\ \E done \in SUBSET purge[d].keys : body' = [k \in Keys |-> BodyAfter(k, done)]
  /\ purge' = [purge EXCEPT ![d].pc = "failed"]
  /\ UNCHANGED <<now, redis, dels, put, get, gone>>

\* The metadata goes, key by key; a failed DEL is logged.
DeleteMeta(d, k) ==
  /\ purge[d].pc = "del" /\ k \in purge[d].left
  /\ \/ meta' = [meta EXCEPT ![k] = NoMeta] /\ UNCHANGED faults
     \/ UNCHANGED meta /\ Fault
  /\ LET last == purge[d].left = {k}
         ends == last /\ purge[d].kind # "tag"
     IN  /\ purge' = [purge EXCEPT ![d].left = @ \ {k},
                                   ![d].pc = IF ends THEN "done" ELSE IF last THEN "untag" ELSE @]
         /\ gone' = IF ends THEN gone \cup purge[d].old ELSE gone
  /\ UNCHANGED <<now, body, index, dels, put, get>>

DeleteTag(d) ==
  /\ purge[d].pc = "untag"
  /\ \/ index' = NoIndex /\ UNCHANGED faults
     \/ UNCHANGED index /\ Fault
  /\ purge' = [purge EXCEPT ![d].pc = "done"]
  /\ gone' = gone \cup purge[d].old
  /\ UNCHANGED <<now, meta, body, dels, put, get>>

Next ==
  \/ Tick \/ DropIndex
  \/ \E k \in Keys : DropMeta(k) \/ BackgroundDel(k)
  \/ \E p \in Puts : \/ BeginPut(p) \/ PutBody(p) \/ PutBodyFails(p) \/ SetMeta(p)
                     \/ SetMetaFails(p) \/ AddTag(p) \/ ExpireTag(p)
  \/ \E g \in Gets : GetMeta(g) \/ GetBody(g)
  \/ \E d \in Purges : \/ PurgeUrl(d) \/ RemoveFromTag(d) \/ PurgeTag(d) \/ PurgeSite(d)
                       \/ ListBodies(d) \/ DeleteBodies(d) \/ DeleteBodiesFails(d)
                       \/ DeleteTag(d) \/ \E k \in Keys : DeleteMeta(d, k)

Spec == Init /\ [][Next]_vars

-----------------------------------------------------------------------------
(* Properties. *)

Responses == Puts \cup {None}

\* Every variable has its type; metadata outlives the clock's tick and never
\* names a response whose put has not reached SETEX.
TypeOK ==
  /\ now \in 0..MaxTime /\ faults \in 0..MaxFaults
  /\ \A k \in Keys :
       /\ body[k] \in Responses
       /\ meta[k] = NoMeta \/ (meta[k].of \in Stored /\ meta[k].dies >= now)
  /\ index.keys \subseteq Keys
  /\ dels \subseteq Keys /\ gone \subseteq Puts
  /\ \A g \in Gets : get[g].got \in Responses /\ get[g].seen \in Responses
  /\ \A d \in Purges : purge[d].left \subseteq purge[d].keys \/ purge[d].pc \in {"list", "failed"}

\* What a purge has deleted stays deleted: once the purge is finished, no call
\* that begins afterwards returns a response the purge found stored, whatever puts,
\* lost answers, time-outs, failed calls and background DELs ran meanwhile
\* (storage.rs delete, delete_many, delete_site_oss_only, delete_by_tag).  A body
\* whose name OSS refuses inside a batch is not deleted: the code takes the batch
\* for done (oss.rs:440-448), drops the metadata, and the body is served as one
\* without metadata (storage.rs:205-226).
PurgedStaysGone == \A g \in Gets : get[g].got \notin get[g].banned

\* A response is never served under the metadata of a later one, so that old
\* content does not live on with a new lifetime: the body a call returns is the
\* one its metadata was written for or one stored after it, however puts, purges,
\* lost answers and failed calls interleave (storage.rs:270-303 stores the body
\* before the metadata and writes no metadata after an error).
NeverOlderThanMeta ==
  \A g \in Gets :
    get[g].seen # None /\ get[g].got # None => put[get[g].got].nth >= put[get[g].seen].nth

\* A response past its expiry is not returned as a fresh one: the read flow of
\* CacheStorage says "2. Check expires_at -> expired = None" (storage.rs:34).
\* Redis drops the metadata at the expiry, and a body without metadata is
\* returned as fresh for another minute, though no put of the key is under way.
ExpiredIsNone ==
  \A g \in Gets : get[g].lone /\ get[g].got # None => put[get[g].got].expires > get[g].at
=============================================================================
