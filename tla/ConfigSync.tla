---------------------------- MODULE ConfigSync ----------------------------
(***************************************************************************)
(* How a node keeps its live site table equal to etcd                       *)
(* (cdn-config/src/etcd_watcher.rs).  Two writers share the ArcSwap `live`  *)
(* and the counter `last_revision`:                                         *)
(*   - load_all, at boot and from POST /_admin/reload: GET every site, raise *)
(*     last_revision, build the table, store it;                            *)
(*   - the watch loop: from last_revision + 1, for every response copy the   *)
(*     table, apply the events, store it, raise last_revision.              *)
(* They run on a multi-threaded runtime with nothing held in between, so     *)
(* each of those steps is an action.  etcd itself is external: a log of      *)
(* writes whose length is the store revision.  A restart of the node is Init.*)
(***************************************************************************)
EXTENDS Integers, Sequences, FiniteSets, FiniteSetsExt

CONSTANTS
  Sites,      \* site ids
  Good,       \* bodies that parse and whose labels match this node
  Foreign,    \* a body that parses and whose labels do not match
  Broken,     \* a body that does not parse
  Absent,     \* no such site
  Other,      \* the key of a write outside {prefix}/sites/
  Reloads,    \* admin reloads of a behaviour
  MaxRev,     \* bound on etcd's revision
  MaxDrops,   \* bound on lost or canceled watch streams
  Compacts    \* whether etcd compacts its history

ASSUME KeysAssumption == Other \notin Sites /\ Absent \notin Good \cup {Foreign, Broken}
ASSUME BodiesAssumption == Foreign \notin Good /\ Broken \notin Good /\ Foreign # Broken
ASSUME BootAssumption == "boot" \notin Reloads
ASSUME BoundsAssumption == MaxRev \in Nat /\ MaxDrops \in Nat /\ Compacts \in BOOLEAN

VARIABLES
  log,        \* etcd: the writes, one per revision
  compacted,  \* etcd: the compaction revision
  live,       \* the ArcSwap: site table
  lastRev,    \* last_revision
  load,       \* per load_all call: where it is, and the GET's answer
  base,       \* the revision of the last table load_all stored (history variable)
  overlapped, \* whether a reload ever ran beside another load, a batch, the
              \* opening of a stream or undelivered events (history variable)
  watch,      \* the watch loop: where it is, its stream and its batch
  drops       \* streams lost so far

vars == <<log, compacted, live, lastRev, load, base, overlapped, watch, drops>>

Loaders == {"boot"} \cup Reloads
Bodies  == Good \cup {Foreign, Broken, Absent}
Tables  == [Sites -> Good \cup {Absent}]
Empty   == [s \in Sites |-> Absent]
Rev     == Len(log)

MaxOf(a, b) == IF a >= b THEN a ELSE b

-----------------------------------------------------------------------------
(* What a body means to this node, and what etcd holds at a revision. *)

\* A site is served if its body parses and its labels match.
View(b) == IF b \in Good THEN b ELSE Absent

\* The writes of site s with revisions in lo..hi.
Writes(s, lo, hi) == {r \in lo..hi : log[r].site = s}

\* The table load_all builds from a GET at revision r.
LoadView(r) ==
  [s \in Sites |-> LET W == Writes(s, 1, r) IN
                     IF W = {} THEN Absent ELSE View(log[Max(W)].body)]

\* The watch events that have an effect: a body that does not parse has none.
Effective(s, lo, hi) == {r \in Writes(s, lo, hi) : log[r].body # Broken}

\* Table m after the events lo..hi, in order.
Applied(m, lo, hi) ==
  [s \in Sites |-> LET W == Effective(s, lo, hi) IN
                     IF W = {} THEN m[s] ELSE View(log[Max(W)].body)]

\* Whether the events change table m: a foreign body only if it removes a site.
Changed(m, lo, hi) ==
  \E s \in Sites : \E r \in Effective(s, lo, hi) :
    log[r].body # Foreign \/ m[s] # Absent

Init ==
  /\ log = << >>
  /\ compacted = 0
  /\ live = Empty
  /\ lastRev = 0
  /\ load = [l \in Loaders |-> [pc |-> "idle", rev |-> 0, table |-> Empty]]
  /\ base = 0
  /\ overlapped = FALSE
  /\ watch = [pc |-> "off", next |-> 1, upto |-> 0, table |-> Empty, changed |-> FALSE]
  /\ drops = 0

-----------------------------------------------------------------------------
(* etcd (external) *)

\* Someone writes or deletes a site, or any other key.
EtcdWrite ==
  /\ Rev < MaxRev
  /\ \/ \E s \in Sites, b \in Bodies : log' = Append(log, [site |-> s, body |-> b])
     \/ log' = Append(log, [site |-> Other, body |-> Absent])
  /\ UNCHANGED <<compacted, live, lastRev, load, base, overlapped, watch, drops>>

\* etcd drops the history before a revision (ETCD_AUTO_COMPACTION_RETENTION).
EtcdCompact ==
  /\ Compacts
  /\ \E r \in (compacted + 1)..Rev : compacted' = r
  /\ UNCHANGED <<log, live, lastRev, load, base, overlapped, watch, drops>>

-----------------------------------------------------------------------------
(* load_all *)

\* A load that has its answer and has not stored its table yet.
Loading(l) == load[l].pc \in {"got", "raised"}

\* The watch loop has no batch in hand and no event on the way.
CaughtUp ==
  \/ watch.pc = "down"
  \/ watch.pc = "open" /\ \A r \in watch.next..Rev : log[r].site \notin Sites

\* The GET is answered.  Reloads need a running server: the boot load is over.
LoadGet(l) ==
  /\ load[l].pc = "idle"
  /\ l = "boot" \/ watch.pc # "off"
  /\ load' = [load EXCEPT ![l] = [pc |-> "got", rev |-> Rev, table |-> LoadView(Rev)]]
  /\ overlapped' = (overlapped \/ (l # "boot" /\ ~CaughtUp) \/ \E k \in Loaders : Loading(k))
  /\ UNCHANGED <<log, compacted, live, lastRev, base, watch, drops>>

\* The connect or the GET fails: nothing changes; the server starts anyway.
LoadFail(l) ==
  /\ load[l].pc = "idle"
  /\ l = "boot" \/ watch.pc # "off"
  /\ load' = [load EXCEPT ![l].pc = "done"]
  /\ watch' = IF l = "boot" THEN [watch EXCEPT !.pc = "down"] ELSE watch
  /\ UNCHANGED <<log, compacted, live, lastRev, base, overlapped, drops>>

\* last_revision.fetch_max(revision)
Raised(cur, r) == MaxOf(cur, r)

LoadRaise(l) ==
  /\ load[l].pc = "got"
  /\ lastRev' = Raised(lastRev, load[l].rev)
  /\ load' = [load EXCEPT ![l].pc = "raised"]
  /\ UNCHANGED <<log, compacted, live, base, overlapped, watch, drops>>

\* live.store; after the boot load the background services start.
LoadStore(l) ==
  /\ load[l].pc = "raised"
  /\ live' = load[l].table
  /\ load' = [load EXCEPT ![l].pc = "done"]
  /\ base' = load[l].rev
  /\ watch' = IF l = "boot" THEN [watch EXCEPT !.pc = "down"] ELSE watch
  /\ UNCHANGED <<log, compacted, lastRev, overlapped, drops>>

-----------------------------------------------------------------------------
(* watch_loop and watch_once *)

\* The stream starts after last_revision.
StartSkipsOne == lastRev + 2
StartRev == lastRev + 1

\* A watch from a compacted revision is canceled and tried again from the same
\* revision, which changes nothing; any other one opens.
WatchOpen ==
  /\ watch.pc = "down"
  /\ StartRev >= compacted
  /\ watch' = [watch EXCEPT !.pc = "open", !.next = StartRev]
  /\ overlapped' = (overlapped \/ \E l \in Loaders : Loading(l))
  /\ UNCHANGED <<log, compacted, live, lastRev, load, base, drops>>

\* The stream breaks or is canceled while the loop waits for a message.
WatchDrop ==
  /\ watch.pc = "open"
  /\ drops < MaxDrops
  /\ drops' = drops + 1
  /\ watch' = [watch EXCEPT !.pc = "down"]
  /\ UNCHANGED <<log, compacted, live, lastRev, load, base, overlapped>>

\* max_revision: the highest mod_revision among the events of a batch up to r.
HeaderRevision(r) == Rev
BatchRevision(r) == r

\* A response with the site events of next..r arrives: the loop copies the live
\* table and applies them to its copy.
WatchReceive(r) ==
  /\ watch.pc = "open"
  /\ log[r].site \in Sites
  /\ watch' = [pc |-> "apply", next |-> r + 1, upto |-> BatchRevision(r),
               table |-> Applied(live, watch.next, r),
               changed |-> Changed(live, watch.next, r)]
  /\ overlapped' = (overlapped \/ \E l \in Loaders : Loading(l))
  /\ UNCHANGED <<log, compacted, live, lastRev, load, base, drops>>

\* live.store of the copy, if it changed.
WatchStore ==
  /\ watch.pc = "apply"
  /\ live' = IF watch.changed THEN watch.table ELSE live
  /\ watch' = [watch EXCEPT !.pc = "stored"]
  /\ UNCHANGED <<log, compacted, lastRev, load, base, overlapped, drops>>

\* last_revision.fetch_max(max_revision)
WatchRaise ==
  /\ watch.pc = "stored"
  /\ lastRev' = MaxOf(lastRev, watch.upto)
  /\ watch' = [watch EXCEPT !.pc = "open"]
  /\ UNCHANGED <<log, compacted, live, load, base, overlapped, drops>>

-----------------------------------------------------------------------------
Load(l) == LoadGet(l) \/ LoadFail(l) \/ LoadRaise(l) \/ LoadStore(l)

Watch ==
  \/ WatchOpen \/ WatchStore \/ WatchRaise
  \/ \E r \in watch.next..Rev : WatchReceive(r)

Next ==
  \/ EtcdWrite \/ EtcdCompact
  \/ \E l \in Loaders : Load(l)
  \/ Watch \/ WatchDrop

Spec == Init /\ [][Next]_vars

\* The runtime keeps polling the watch loop and started loads, and etcd answers,
\* refuses or breaks off every call and delivers its events: the client is made
\* without time-outs, so a silent etcd would hold the loop (etcd_watcher.rs:146).
Fairness == WF_vars(Watch) /\ \A l \in Loaders : WF_vars(Load(l))

FairSpec == Spec /\ Fairness

-----------------------------------------------------------------------------
(* Properties *)

\* Every variable keeps its type, and the positions stay within the log.
TypeOK ==
  /\ log \in Seq([site : Sites \cup {Other}, body : Bodies])
  /\ compacted \in 0..Rev
  /\ live \in Tables
  /\ lastRev \in 0..Rev
  /\ load \in [Loaders -> [pc : {"idle", "got", "raised", "done"}, rev : 0..Rev, table : Tables]]
  /\ base \in 0..Rev
  /\ overlapped \in BOOLEAN
  /\ watch \in [pc : {"off", "down", "open", "apply", "stored"}, next : 1..(Rev + 1),
                upto : 0..Rev, table : Tables, changed : BOOLEAN]
  /\ drops \in 0..MaxDrops

\* The table this node should serve at revision r: the last loaded one, and
\* every event since that parses, in revision order.
Expected(r) == Applied(LoadView(base), base + 1, r)

\* No load_all is running and the watch loop is between two batches.
Quiet ==
  /\ watch.pc \in {"down", "open"}
  /\ \A l \in Loaders : ~Loading(l)

\* The revision is updated after the configuration is stored, "so a crash can't
\* leave revision ahead of applied config state" (watch_once): whenever no load
\* or batch is under way, the table is the one of last_revision, no event lost,
\* applied twice or applied out of order.
RevisionMatchesTable == Quiet => live = Expected(lastRev)

\* As long as every reload ran alone, with the watch loop caught up, load_all and
\* the watch loop hand over to each other without losing or repeating an event.
SerialReloadsSafe == ~overlapped => RevisionMatchesTable

\* A stale answer of load_all never moves last_revision back, so the watch loop
\* never applies an event again.
RevisionNeverFalls == [][lastRev' >= lastRev]_vars

\* "Configuration changes take effect through etcd watch, without a restart":
\* once etcd is quiet, the node ends up with the table etcd describes.
Converges == <>[](live = Expected(Rev))

\* etcd has dropped the history the watch loop would resume from.
CutOff == watch.pc = "down" /\ StartRev < compacted

\* Over broken streams, failed loads and reloads that run alone, the node ends up
\* with the table etcd describes, unless its watch loop is cut off for good.
ConvergesUnlessCutOff == Converges \/ <>overlapped \/ <>[]CutOff
=============================================================================
