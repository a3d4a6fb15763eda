--------------------------- MODULE ConfigHistory ---------------------------
(***************************************************************************)
(* The version history of one site's configuration, kept in etcd           *)
(* (cdn-config/src/config_history.rs).  The keys of different sites are     *)
(* disjoint, so one site is modelled.  Three kinds of actor share the keys: *)
(*   - operators write {prefix}/sites/{site} directly;                      *)
(*   - the config watcher of every node spawns one fire-and-forget          *)
(*     save_version per watch event it accepts (etcd_watcher.rs);           *)
(*   - the admin API of any node runs rollback_to_version.                  *)
(* Every call is a task; its steps are separated where the code awaits an   *)
(* etcd round trip, so GET, transaction and prune of all tasks interleave.  *)
(***************************************************************************)
EXTENDS Integers, Sequences, FiniteSets

CONSTANTS
  Nodes,          \* CDN nodes sharing the etcd cluster
  Configs,        \* bodies that parse as a SiteConfig
  Empty,          \* the body `{}` saved for a deletion; it does not parse
  Foreign,        \* pairs <<n, c>>: the labels of c do not match node n
  MaxVersions,    \* MAX_VERSIONS_PER_SITE
  MaxCasRetries,  \* MAX_CAS_RETRIES
  MaxWrites,      \* bound on writes to the site key
  MaxCalls        \* bound on save_version / rollback_to_version calls of a node

ASSUME BoundsAssumption ==
  /\ MaxVersions \in Nat \ {0}
  /\ MaxCasRetries \in Nat \ {0}
  /\ MaxWrites \in Nat
  /\ MaxCalls \in Nat

ASSUME BodiesAssumption == Empty \notin Configs /\ Foreign \subseteq Nodes \X Configs

VARIABLES
  rev,      \* etcd's store revision
  writes,   \* the writes to the site key, oldest first
  meta,     \* the `meta` key: latest_version and mod_revision (0, 0: absent)
  snaps,    \* the version keys: version number -> snapshot
  pos,      \* per node: how many of `writes` its watcher has handled
  pending,  \* per node: revisions in pending_change_types (all of them Rollback)
  owes,     \* rollback calls that have yet to set their pending change type
  pc,       \* per task: the next step of the call
  job,      \* per task: config_json, etcd_revision and change_type arguments
  attempt,  \* per task: CAS attempts already lost
  seen,     \* per task: the meta key as last read
  first,    \* per task: latest_version at its first read (history variable)
  ver       \* per task: the version number it committed (0: none)

etcd  == <<rev, writes, meta, snaps>>
notes == <<pos, pending, owes>>
local == <<job, attempt, seen, first, ver>>
vars  == <<rev, writes, meta, snaps, pc, pos, pending, owes, job, attempt, seen, first, ver>>

Tasks  == Nodes \X (1..MaxCalls)   \* a call: the node it runs on, its number
Bodies == Configs \cup {Empty}
Kinds  == {"changed", "deleted", "rollback"}
Jobs   == [cfg : Bodies, rev : Nat, kind : Kinds]
Metas  == [latest : Nat, mod : Nat]
Active == {"rb_put", "get", "txn", "prune"}
Ended  == {"done", "unpruned", "not_found", "conflict", "error", "lost"}

Init ==
  /\ rev = 0
  /\ writes = << >>
  /\ meta = [latest |-> 0, mod |-> 0]
  /\ snaps = [v \in {} |-> [cfg |-> Empty, rev |-> 0, kind |-> "deleted"]]
  /\ pos = [n \in Nodes |-> 0]
  /\ pending = [n \in Nodes |-> {}]
  /\ owes = {}
  /\ pc = [t \in Tasks |-> "idle"]
  /\ job = [t \in Tasks |-> [cfg |-> Empty, rev |-> 0, kind |-> "deleted"]]
  /\ attempt = [t \in Tasks |-> 0]
  /\ seen = [t \in Tasks |-> [latest |-> 0, mod |-> 0]]
  /\ first = [t \in Tasks |-> 0]
  /\ ver = [t \in Tasks |-> 0]

-----------------------------------------------------------------------------
(* Writes to the site key, and the watchers that follow them. *)

\* etcd appends a write of the site key at the next store revision.
WriteSite(op, c) ==
  /\ Len(writes) < MaxWrites
  /\ rev' = rev + 1
  /\ writes' = Append(writes, [op |-> op, cfg |-> c, rev |-> rev + 1])

\* An operator writes or deletes the site key in etcd.
OperatorWrite ==
  /\ \/ \E c \in Configs : WriteSite("put", c)
     \/ WriteSite("delete", Empty)
  /\ UNCHANGED <<meta, snaps, pc, notes, local>>

\* A watcher records a deletion always, a put only if the body parses and its
\* labels match the node.
Accepts(n, e) ==
  \/ e.op = "delete"
  \/ e.cfg \in Configs /\ <<n, e.cfg>> \notin Foreign

\* The calls of a node are numbered in the order they start.
Unused(t) ==
  /\ pc[t] = "idle"
  /\ \A k \in 1..(t[2] - 1) : pc[<<t[1], k>>] # "idle"

\* The first step of a save_version call: its arguments are fixed.
Spawn(t, j) ==
  /\ Unused(t)
  /\ pc' = [pc EXCEPT ![t] = "get"]
  /\ job' = [job EXCEPT ![t] = j]

\* change_type of a watch event: a pending entry for its revision wins.
ChangeType(n, e) ==
  IF e.op = "delete" THEN "deleted"
  ELSE IF e.rev \in pending[n] THEN "rollback" ELSE "changed"

\* The watcher of node n handles the next watch event; an accepted put takes its
\* pending entry.
Watch(n) ==
  /\ pos[n] < Len(writes)
  /\ pos' = [pos EXCEPT ![n] = @ + 1]
  /\ LET e == writes[pos[n] + 1] IN
       \/ /\ Accepts(n, e)
          /\ \E k \in 1..MaxCalls :
               Spawn(<<n, k>>, [cfg |-> e.cfg, rev |-> e.rev, kind |-> ChangeType(n, e)])
          /\ pending' = [pending EXCEPT ![n] = @ \ {e.rev}]
       \/ /\ ~Accepts(n, e)
          /\ UNCHANGED <<pc, job, pending>>
  /\ UNCHANGED <<etcd, owes, attempt, seen, first, ver>>

-----------------------------------------------------------------------------
(* save_version *)

\* GET the meta key: the version to create and the comparison to make.
ReadMeta(t) ==
  /\ pc[t] = "get"
  /\ pc' = [pc EXCEPT ![t] = "txn"]
  /\ seen' = [seen EXCEPT ![t] = meta]
  /\ first' = [first EXCEPT ![t] = IF attempt[t] = 0 THEN meta.latest ELSE @]
  /\ UNCHANGED <<etcd, notes, job, attempt, ver>>

\* The comparison of the transaction: mod_revision as read, or key absent.
NeverCompared(t) == TRUE
Unmodified(t) == meta.mod = seen[t].mod

NewVersion(t) == seen[t].latest + 1

\* The transaction's puts: the meta key and the new version key, atomically.
PutVersion(t) ==
  /\ rev' = rev + 1
  /\ meta' = [latest |-> NewVersion(t), mod |-> rev + 1]
  /\ snaps' = [v \in DOMAIN snaps \cup {NewVersion(t)} |->
                 IF v = NewVersion(t) THEN job[t] ELSE snaps[v]]
  /\ ver' = [ver EXCEPT ![t] = NewVersion(t)]

\* The transaction succeeds; the call goes on to prune, or returns, or returns
\* Err because the answer is lost.
Commit(t) ==
  /\ pc[t] = "txn"
  /\ Unmodified(t)
  /\ PutVersion(t)
  /\ \/ pc' = [pc EXCEPT ![t] = IF NewVersion(t) > MaxVersions THEN "prune" ELSE "done"]
     \/ pc' = [pc EXCEPT ![t] = "error"]
  /\ UNCHANGED <<writes, notes, job, attempt, seen, first>>

\* Where a call goes whose CAS fails after it had lost a earlier ones.
AfterConflict(a) == IF a + 1 < MaxCasRetries THEN "get" ELSE "conflict"

\* The comparison fails: read again, or give up after MaxCasRetries attempts.
CasConflict(t) ==
  /\ pc[t] = "txn"
  /\ ~Unmodified(t)
  /\ attempt' = [attempt EXCEPT ![t] = @ + 1]
  /\ pc' = [pc EXCEPT ![t] = AfterConflict(attempt[t])]
  /\ UNCHANGED <<etcd, notes, job, seen, first, ver>>

\* prune_old_versions deletes the versions 1 .. cutoff.
CutoffTooHigh(t) == ver[t] - MaxVersions + 1
Cutoff(t) == ver[t] - MaxVersions

Pruned(t) == {v \in DOMAIN snaps : v <= Cutoff(t)}

Prune(t) ==
  /\ pc[t] = "prune"
  /\ snaps' = [v \in DOMAIN snaps \ Pruned(t) |-> snaps[v]]
  /\ rev' = IF snaps' = snaps THEN rev ELSE rev + 1
  /\ pc' = [pc EXCEPT ![t] = "done"]
  /\ UNCHANGED <<writes, meta, notes, local>>

\* A failed prune is only logged: the call still returns the version.
PruneFails(t) ==
  /\ pc[t] = "prune"
  /\ pc' = [pc EXCEPT ![t] = "unpruned"]
  /\ UNCHANGED <<etcd, notes, local>>

\* Any other etcd error ends the call with Err.
EtcdError(t) ==
  /\ pc[t] \in {"rb_put", "get", "txn"}
  /\ pc' = [pc EXCEPT ![t] = "error"]
  /\ UNCHANGED <<etcd, notes, local>>

-----------------------------------------------------------------------------
(* rollback_to_version *)

\* GET the target version; a missing one ends the call.
RollbackGet(t, v) ==
  /\ Unused(t)
  /\ IF v \in DOMAIN snaps
     THEN /\ job' = [job EXCEPT ![t] = [cfg |-> snaps[v].cfg, rev |-> 0, kind |-> "rollback"]]
          /\ pc' = [pc EXCEPT ![t] = "rb_put"]
          /\ owes' = owes \cup {t}
     ELSE /\ pc' = [pc EXCEPT ![t] = "not_found"]
          /\ UNCHANGED <<job, owes>>
  /\ UNCHANGED <<etcd, pos, pending, attempt, seen, first, ver>>

\* The revision of the put, from the header of its answer.
RevisionBeforePut == rev
PutRevision == rev + 1

\* PUT its body under the site key, then save_version with the put's revision
\* (or Err, when the answer is lost).
RollbackPut(t) ==
  /\ pc[t] = "rb_put"
  /\ WriteSite("put", job[t].cfg)
  /\ job' = [job EXCEPT ![t].rev = PutRevision]
  /\ \/ pc' = [pc EXCEPT ![t] = "get"]
     \/ pc' = [pc EXCEPT ![t] = "error"]
  /\ UNCHANGED <<meta, snaps, notes, attempt, seen, first, ver>>

\* config_rollback, once rollback_to_version has returned Ok:
\* set_pending_change_type on this node.
SetPending(t) ==
  /\ t \in owes
  /\ pc[t] \in {"done", "unpruned"}
  /\ owes' = owes \ {t}
  /\ pending' = [pending EXCEPT ![t[1]] = @ \cup {job[t].rev}]
  /\ UNCHANGED <<etcd, pos, pc, local>>

-----------------------------------------------------------------------------
\* A node stops with its tasks and its memory; after a restart load_all moves its watch
\* position past every write made so far.
Crash(n) ==
  /\ pc' = [t \in Tasks |-> IF t[1] = n /\ pc[t] \in Active THEN "lost" ELSE pc[t]]
  /\ pos' = [pos EXCEPT ![n] = Len(writes)]
  /\ pending' = [pending EXCEPT ![n] = {}]
  /\ owes' = {t \in owes : t[1] # n}
  /\ UNCHANGED <<etcd, local>>

Step(t) ==
  \/ ReadMeta(t) \/ Commit(t) \/ CasConflict(t)
  \/ Prune(t) \/ PruneFails(t) \/ EtcdError(t) \/ RollbackPut(t)
  \/ SetPending(t)

Next ==
  \/ OperatorWrite
  \/ \E n \in Nodes : Watch(n) \/ Crash(n)
  \/ \E t \in Tasks : Step(t)
  \/ \E t \in Tasks, v \in 1..(meta.latest + 1) : RollbackGet(t, v)

Spec == Init /\ [][Next]_vars

-----------------------------------------------------------------------------
(* Properties *)

\* Every variable keeps its type.
TypeOK ==
  /\ rev \in Nat
  /\ writes \in Seq([op : {"put", "delete"}, cfg : Bodies, rev : Nat])
  /\ meta \in Metas
  /\ DOMAIN snaps \subseteq Nat /\ snaps \in [DOMAIN snaps -> Jobs]
  /\ pos \in [Nodes -> Nat]
  /\ pending \in [Nodes -> SUBSET Nat]
  /\ owes \subseteq Tasks
  /\ pc \in [Tasks -> {"idle"} \cup Active \cup Ended]
  /\ job \in [Tasks -> Jobs]
  /\ attempt \in [Tasks -> 0..MaxCasRetries]
  /\ seen \in [Tasks -> Metas]
  /\ first \in [Tasks -> Nat]
  /\ ver \in [Tasks -> Nat]

\* The newest MaxVersions versions are always retrievable and none is numbered
\* beyond latest_version, however the prunes of concurrent save_version calls
\* are delayed and reordered.
WindowRetained ==
  /\ DOMAIN snaps \subseteq 1..meta.latest
  /\ \A v \in 1..meta.latest : v > meta.latest - MaxVersions => v \in DOMAIN snaps

\* The CAS hands out each version number once: no two save_version calls commit
\* the same one.
UniqueVersions ==
  \A t, u \in Tasks : ver[t] = ver[u] /\ ver[t] # 0 => t = u

\* A body and revision written to the site key.
Written(b, r) == \E i \in 1..Len(writes) : writes[i].rev = r /\ writes[i].cfg = b

\* What save_version stores is what was written: every snapshot carries the body
\* and the revision of one write of the site key, rollbacks included.
Provenance ==
  \A v \in DOMAIN snaps : Written(snaps[v].cfg, snaps[v].rev)

\* save_version gives up on CAS conflicts only when at least MaxCasRetries other
\* saves of the site committed during the call: a conflict is someone's progress.
ConflictMeansProgress ==
  \A t \in Tasks : pc[t] = "conflict" => meta.latest >= first[t] + MaxCasRetries

\* Once a save_version call has pruned, every version it saw as too old is gone
\* for good, although older calls may still be running.
PrunedStaysPruned ==
  \A t \in Tasks : pc[t] = "done" => \A v \in DOMAIN snaps : v > Cutoff(t)

\* A stored snapshot is never rewritten, and a deleted version number is never
\* used again: a version names one configuration for ever.
SnapshotsImmutable ==
  [][/\ \A v \in DOMAIN snaps \cap DOMAIN snaps' : snaps'[v] = snaps[v]
     /\ \A v \in DOMAIN snaps' \ DOMAIN snaps : v > meta.latest]_vars
-----------------------------------------------------------------------------
(* The inductive invariant behind the safety properties. *)

\* A call's copy of the meta key is current, or the key has moved on.
SeenCurrent ==
  /\ meta.mod <= rev
  /\ \A t \in Tasks :
       \/ seen[t] = meta
       \/ seen[t].mod < meta.mod /\ seen[t].latest < meta.latest

\* Committed version numbers lie behind the counter; a call has none before it
\* commits.
VersionsIssued ==
  \A t \in Tasks :
    /\ ver[t] <= meta.latest
    /\ pc[t] \in {"idle", "rb_put", "get", "txn"} => ver[t] = 0

\* Every lost attempt of a call was some other call's commit.
AttemptsCounted ==
  \A t \in Tasks :
    /\ pc[t] = "get" => attempt[t] < MaxCasRetries /\
                        (attempt[t] = 0 \/ meta.latest >= first[t] + attempt[t])
    /\ pc[t] = "txn" => attempt[t] < MaxCasRetries /\ seen[t].latest >= first[t] + attempt[t]
    /\ pc[t] \in {"idle", "rb_put"} => attempt[t] = 0

\* A running save carries the body and revision of a write of the site key.
JobsWritten ==
  \A t \in Tasks : pc[t] \in {"get", "txn"} => Written(job[t].cfg, job[t].rev)

\* The state of the history under concurrent save_version, prune and rollback
\* calls: what every action preserves and all the invariants above follow from.
IInv ==
  /\ TypeOK
  /\ SeenCurrent
  /\ VersionsIssued
  /\ WindowRetained
  /\ UniqueVersions
  /\ AttemptsCounted
  /\ ConflictMeansProgress
  /\ PrunedStaysPruned
  /\ JobsWritten
  /\ Provenance

=============================================================================
