------------------------ MODULE ConfigHistoryProofs ------------------------
(* Proofs about ConfigHistory, for every number of nodes, calls, versions and *)
(* retries: the inductive invariant IInv and the properties it implies.       *)
EXTENDS ConfigHistory, SequenceTheorems, TLAPS

Write == [op : {"put", "delete"}, cfg : Bodies, rev : Nat]

\* A write of the site key leaves every earlier write in place and adds its own.
LEMMA WriteSiteKeeps ==
  ASSUME TypeOK, NEW op \in {"put", "delete"}, NEW c \in Bodies, WriteSite(op, c)
  PROVE  /\ writes' \in Seq(Write)
         /\ rev' = rev + 1
         /\ \A b, r : Written(b, r) => Written(b, r)'
         /\ \A r : r = rev' => Written(c, r)'
<1> DEFINE e == [op |-> op, cfg |-> c, rev |-> rev + 1]
<1>1. writes \in Seq(Write) /\ e \in Write /\ rev \in Nat
  BY DEF TypeOK, Write
<1>2. writes' = Append(writes, e) /\ rev' = rev + 1
  BY DEF WriteSite
<1>3. /\ Append(writes, e) \in Seq(Write)
      /\ Len(Append(writes, e)) = Len(writes) + 1
      /\ \A i \in 1..Len(writes) : Append(writes, e)[i] = writes[i]
      /\ Append(writes, e)[Len(writes) + 1] = e
  BY <1>1, AppendProperties
<1>4. Len(writes) \in Nat
  BY <1>1, LenProperties
<1>5. ASSUME NEW b, NEW r, Written(b, r) PROVE Written(b, r)'
  <2>1. PICK i \in 1..Len(writes) : writes[i].rev = r /\ writes[i].cfg = b
    BY <1>5 DEF Written
  <2>2. i \in 1..Len(writes') /\ writes'[i] = writes[i]
    BY <1>2, <1>3, <1>4
  <2> QED
    BY <2>1, <2>2 DEF Written
<1>6. ASSUME NEW r, r = rev' PROVE Written(c, r)'
  <2>1. Len(writes) + 1 \in 1..Len(writes')
    BY <1>2, <1>3, <1>4
  <2>2. writes'[Len(writes) + 1] = e
    BY <1>2, <1>3
  <2> QED
    BY <1>2, <1>6, <2>1, <2>2 DEF Written
<1> QED
  BY <1>2, <1>3, <1>5, <1>6

\* The initial state satisfies the inductive invariant.
LEMMA InitIInv == Init => IInv
<1> SUFFICES ASSUME Init PROVE IInv
  OBVIOUS
<1> USE BoundsAssumption, BodiesAssumption DEF Init
<1>1. TypeOK
  BY DEF TypeOK, Bodies, Kinds, Jobs, Metas
<1>2. SeenCurrent /\ VersionsIssued /\ UniqueVersions /\ AttemptsCounted
  BY DEF SeenCurrent, VersionsIssued, UniqueVersions, AttemptsCounted
<1>3. WindowRetained /\ PrunedStaysPruned /\ Provenance
  BY DEF WindowRetained, PrunedStaysPruned, Provenance
<1>4. ConflictMeansProgress /\ JobsWritten
  BY DEF ConflictMeansProgress, JobsWritten
<1> QED
  BY <1>1, <1>2, <1>3, <1>4 DEF IInv


\* The watch positions and the pending change types keep their types.
NotesTyped ==
  /\ pos \in [Nodes -> Nat]
  /\ pending \in [Nodes -> SUBSET Nat]
  /\ owes \subseteq Tasks

\* A step that only moves program counters between states with the same
\* obligations, watch positions and pending change types keeps the invariant.
LEMMA QuietSteps ==
  ASSUME IInv, UNCHANGED <<etcd, local>>,
         NotesTyped',
         pc' \in [Tasks -> {"idle"} \cup Active \cup Ended],
         \A t \in Tasks : pc'[t] = pc[t] \/ pc'[t] \in {"error", "lost", "unpruned", "not_found"}
  PROVE  IInv'
<1> USE DEF IInv, etcd, local
<1>1. TypeOK'
  BY DEF TypeOK, NotesTyped
<1>2. SeenCurrent' /\ VersionsIssued'
  BY DEF SeenCurrent, VersionsIssued
<1>3. WindowRetained' /\ UniqueVersions'
  BY DEF WindowRetained, UniqueVersions
<1>4. AttemptsCounted' /\ ConflictMeansProgress'
  BY DEF AttemptsCounted, ConflictMeansProgress
<1>5. PrunedStaysPruned'
  BY DEF PrunedStaysPruned, Cutoff
<1>6. JobsWritten' /\ Provenance'
  BY DEF JobsWritten, Provenance, Written
<1> QED
  BY <1>1, <1>2, <1>3, <1>4, <1>5, <1>6

\* An operator's write adds to the writes and changes nothing else.
LEMMA OperatorWriteStep == IInv /\ OperatorWrite => IInv'
<1> SUFFICES ASSUME IInv, OperatorWrite PROVE IInv'
  OBVIOUS
<1>1. PICK op \in {"put", "delete"}, c \in Bodies : WriteSite(op, c)
  BY DEF OperatorWrite, Bodies
<1>2. UNCHANGED <<meta, snaps, pc, pos, pending, owes, job, attempt, seen, first, ver>>
  BY DEF OperatorWrite, local, notes
<1>3. TypeOK /\ rev \in Nat /\ meta \in Metas
  BY DEF IInv, TypeOK
<1>4. /\ writes' \in Seq(Write) /\ rev' = rev + 1
      /\ \A b, r : Written(b, r) => Written(b, r)'
  BY <1>1, <1>3, WriteSiteKeeps
<1> USE <1>2 DEF IInv
<1>5. TypeOK'
  BY <1>4 DEF TypeOK, Write
<1>6. SeenCurrent'
  BY <1>3, <1>4 DEF SeenCurrent, Metas
<1>7. VersionsIssued' /\ WindowRetained' /\ UniqueVersions'
  BY DEF VersionsIssued, WindowRetained, UniqueVersions
<1>8. AttemptsCounted' /\ ConflictMeansProgress' /\ PrunedStaysPruned'
  BY DEF AttemptsCounted, ConflictMeansProgress, PrunedStaysPruned, Cutoff
<1>9. JobsWritten'
  BY <1>4 DEF JobsWritten
<1>10. Provenance'
  BY <1>4 DEF Provenance
<1> QED
  BY <1>5, <1>6, <1>7, <1>8, <1>9, <1>10

\* A watcher that starts a save hands it the event's body and revision.
LEMMA WatchStep == ASSUME IInv, NEW n \in Nodes, Watch(n) PROVE IInv'
<1>1. UNCHANGED <<etcd, owes, attempt, seen, first, ver>> /\ pos' \in [Nodes -> Nat]
  BY DEF Watch, IInv, TypeOK
<1> DEFINE e == writes[pos[n] + 1]
           kind == ChangeType(n, e)
<1>2. pos[n] + 1 \in 1..Len(writes) /\ e \in Write
  <2>1. writes \in Seq(Write) /\ pos[n] \in Nat /\ pos[n] < Len(writes)
    BY DEF Watch, IInv, TypeOK, Write
  <2>2. Len(writes) \in Nat
    BY <2>1, LenProperties
  <2>3. pos[n] + 1 \in 1..Len(writes)
    BY <2>1, <2>2
  <2> QED
    BY <2>1, <2>3, ElementOfSeq
<1>3. CASE UNCHANGED <<pc, job, pending>>
  BY <1>1, <1>3, QuietSteps, SMTT(30) DEF local, IInv, TypeOK, NotesTyped
<1>4. ASSUME NEW k \in 1..MaxCalls,
             Spawn(<<n, k>>, [cfg |-> e.cfg, rev |-> e.rev, kind |-> kind]),
             pending' = [pending EXCEPT ![n] = @ \ {e.rev}]
      PROVE  IInv'
  <2> DEFINE u == <<n, k>>
             j == [cfg |-> e.cfg, rev |-> e.rev, kind |-> kind]
  <2>1. u \in Tasks /\ j \in Jobs
    BY <1>2 DEF Tasks, Jobs, Kinds, Write, ChangeType
  <2>2. /\ pc[u] = "idle"
        /\ pc' = [pc EXCEPT ![u] = "get"]
        /\ job' = [job EXCEPT ![u] = j]
    BY <1>4 DEF Spawn, Unused
  <2>3. Written(e.cfg, e.rev)
    BY <1>2 DEF Written
  <2> HIDE DEF u, j, e
  <2> USE <1>1, <2>1, <2>2 DEF IInv, etcd
  <2>4. TypeOK'
    BY <1>4, SMTT(30) DEF TypeOK, Active
  <2>5. SeenCurrent' /\ VersionsIssued'
    BY DEF TypeOK, SeenCurrent, VersionsIssued
  <2>6. WindowRetained' /\ UniqueVersions'
    BY DEF WindowRetained, UniqueVersions
  <2>7. AttemptsCounted' /\ ConflictMeansProgress'
    BY BoundsAssumption, SMTT(30) DEF TypeOK, AttemptsCounted, ConflictMeansProgress
  <2>8. PrunedStaysPruned'
    BY DEF TypeOK, PrunedStaysPruned, Cutoff
  <2>9. \A t \in Tasks : t # u => pc'[t] = pc[t] /\ job'[t] = job[t]
    BY DEF TypeOK
  <2>10. job'[u].cfg = e.cfg /\ job'[u].rev = e.rev
    BY DEF TypeOK, j
  <2>11. JobsWritten'
    BY <2>3, <2>9, <2>10, SMTT(30) DEF JobsWritten, Written
  <2>12. Provenance'
    BY DEF Provenance, Written
  <2> QED
    BY <2>4, <2>5, <2>6, <2>7, <2>8, <2>11, <2>12
<1> QED
  BY <1>3, <1>4, ZenonT(30) DEF Watch


\* Reading the meta key makes a call's copy current.
LEMMA ReadMetaStep == ASSUME IInv, NEW t \in Tasks, ReadMeta(t) PROVE IInv'
<1> USE DEF IInv, ReadMeta, etcd, notes
<1>1. TypeOK'
  BY DEF TypeOK, Active, Metas
<1>2. SeenCurrent' /\ VersionsIssued'
  BY DEF TypeOK, SeenCurrent, VersionsIssued
<1>3. WindowRetained' /\ UniqueVersions'
  BY DEF WindowRetained, UniqueVersions
<1>4. AttemptsCounted'
  BY SMTT(30) DEF TypeOK, AttemptsCounted, Metas
<1>5. ConflictMeansProgress' /\ PrunedStaysPruned'
  BY DEF TypeOK, ConflictMeansProgress, PrunedStaysPruned, Cutoff
<1>6. JobsWritten'
  BY DEF TypeOK, JobsWritten, Written
<1>7. Provenance'
  BY DEF Provenance, Written
<1> QED
  BY <1>1, <1>2, <1>3, <1>4, <1>5, <1>6, <1>7

\* The comparison guarantees that a committing call has read the current meta key.
LEMMA CommitIsCurrent ==
  ASSUME IInv, NEW t \in Tasks, Commit(t)
  PROVE  /\ seen[t] = meta /\ NewVersion(t) = meta.latest + 1
         /\ rev \in Nat /\ meta.latest \in Nat /\ meta.mod \in Nat /\ meta.mod <= rev
BY DEF IInv, Commit, Unmodified, SeenCurrent, TypeOK, Metas, NewVersion

\* A successful transaction creates the version after the newest one.
LEMMA CommitStep == ASSUME IInv, NEW t \in Tasks, Commit(t) PROVE IInv'
<1> USE BoundsAssumption DEF IInv
<1>1. /\ seen[t] = meta /\ NewVersion(t) = meta.latest + 1
      /\ rev \in Nat /\ meta.latest \in Nat /\ meta.mod \in Nat /\ meta.mod <= rev
  BY CommitIsCurrent
<1>2. /\ meta' = [latest |-> meta.latest + 1, mod |-> rev + 1]
      /\ rev' = rev + 1
      /\ ver' = [ver EXCEPT ![t] = meta.latest + 1]
      /\ UNCHANGED <<writes, pos, pending, owes, job, attempt, seen, first>>
  BY <1>1 DEF Commit, PutVersion, notes
<1>3. snaps' = [v \in DOMAIN snaps \cup {meta.latest + 1} |->
                 IF v = meta.latest + 1 THEN job[t] ELSE snaps[v]]
  BY <1>1 DEF Commit, PutVersion
<1>4. /\ pc[t] = "txn"
      /\ \/ pc' = [pc EXCEPT ![t] = "prune"]
         \/ pc' = [pc EXCEPT ![t] = "done"] /\ meta.latest + 1 <= MaxVersions
         \/ pc' = [pc EXCEPT ![t] = "error"]
  BY <1>1, SMTT(30) DEF Commit
<1>a. /\ \A u \in Tasks : u # t => pc'[u] = pc[u] /\ ver'[u] = ver[u]
      /\ ver'[t] = meta.latest + 1
      /\ pc'[t] \in {"prune", "done", "error"}
      /\ pc'[t] = "done" => meta.latest + 1 <= MaxVersions
      /\ \A u \in Tasks : ver[u] \in Nat
  BY <1>2, <1>4 DEF TypeOK
<1>5. TypeOK'
  <2>1. pc' \in [Tasks -> {"idle"} \cup Active \cup Ended]
    BY <1>4, ZenonT(30) DEF TypeOK, Active, Ended
  <2>2. DOMAIN snaps' \subseteq Nat /\ snaps' \in [DOMAIN snaps' -> Jobs]
    <3>1. job[t] \in Jobs /\ meta.latest \in Nat
      BY <1>1 DEF TypeOK, Metas
    <3>2. DOMAIN snaps \subseteq Nat /\ snaps \in [DOMAIN snaps -> Jobs]
      BY DEF TypeOK
    <3>3. DOMAIN snaps' = DOMAIN snaps \cup {meta.latest + 1}
      BY <1>3
    <3>4. DOMAIN snaps' \subseteq Nat
      BY <3>1, <3>2, <3>3
    <3>5. snaps' \in [DOMAIN snaps' -> Jobs]
      BY <1>3, <3>1, <3>2, <3>3
    <3> QED
      BY <3>4, <3>5
  <2>3. rev + 1 \in Nat /\ meta.latest + 1 \in Nat
    BY <1>1
  <2>4. meta' \in Metas /\ rev' \in Nat
    BY <1>2, <2>3 DEF Metas
  <2>5. ver \in [Tasks -> Nat]
    BY DEF TypeOK
  <2>6. ver' \in [Tasks -> Nat]
    BY <1>2, <2>3, <2>5
  <2> QED
    BY <1>2, <2>1, <2>2, <2>4, <2>6, SMTT(30) DEF TypeOK
<1>6. SeenCurrent'
  <2>1. \A u \in Tasks : /\ seen[u].mod \in Nat /\ seen[u].latest \in Nat
                         /\ seen[u].mod <= meta.mod /\ seen[u].latest <= meta.latest
    <3> TAKE u \in Tasks
    <3>1. seen[u].mod \in Nat /\ seen[u].latest \in Nat
      BY SMTT(30) DEF TypeOK, Metas
    <3>2. seen[u] = meta \/ (seen[u].mod < meta.mod /\ seen[u].latest < meta.latest)
      BY DEF SeenCurrent
    <3> QED
      BY <1>1, <3>1, <3>2
  <2>2. meta'.mod = rev + 1 /\ meta'.latest = meta.latest + 1 /\ seen' = seen /\ rev' = rev + 1
    BY <1>2
  <2>3. meta'.mod <= rev'
    BY <1>1, <2>2
  <2>4. \A u \in Tasks : seen'[u].mod < meta'.mod /\ seen'[u].latest < meta'.latest
    BY <1>1, <2>1, <2>2
  <2> QED
    BY <2>3, <2>4 DEF SeenCurrent
<1>7. VersionsIssued'
  BY <1>1, <1>2, <1>a, SMTT(30) DEF VersionsIssued
<1>8. UniqueVersions'
  BY <1>1, <1>2, <1>a, SMTT(30) DEF VersionsIssued, UniqueVersions
<1>9. WindowRetained'
  BY <1>1, <1>2, <1>3, SMTT(30) DEF WindowRetained
<1>10. AttemptsCounted' /\ ConflictMeansProgress'
  <2>1. \A u \in Tasks : first[u] \in Nat /\ attempt[u] \in Nat
    BY DEF TypeOK
  <2> QED
    BY <1>1, <1>2, <1>a, <2>1, SMTT(30) DEF AttemptsCounted, ConflictMeansProgress
<1>11. PrunedStaysPruned'
  <2> SUFFICES ASSUME NEW u \in Tasks, pc'[u] = "done", NEW v \in DOMAIN snaps'
               PROVE  v > ver'[u] - MaxVersions
    BY DEF PrunedStaysPruned, Cutoff
  <2>1. v \in 1..(meta.latest + 1) /\ (v = meta.latest + 1 \/ v \in DOMAIN snaps)
    BY <1>1, <1>3, SMTT(30) DEF WindowRetained
  <2>2. CASE u = t
    BY <1>1, <1>a, <2>1, <2>2, SMTT(30)
  <2>3. CASE u # t
    BY <1>1, <1>a, <2>1, <2>3 DEF PrunedStaysPruned, Cutoff, VersionsIssued
  <2> QED
    BY <2>2, <2>3
<1>12. JobsWritten'
  BY <1>2, <1>a DEF JobsWritten, Written
<1>13. Provenance'
  <2>1. Written(job[t].cfg, job[t].rev)
    BY <1>4 DEF JobsWritten
  <2>2. \A v \in DOMAIN snaps' : Written(snaps'[v].cfg, snaps'[v].rev)
    BY <1>3, <2>1 DEF Provenance
  <2> QED
    BY <1>2, <2>2 DEF Provenance, Written
<1> QED
  BY <1>5, <1>6, <1>7, <1>8, <1>9, <1>10, <1>11, <1>12, <1>13

\* A failed comparison shows that latest_version has grown since it was read.
LEMMA CasConflictStep == ASSUME IInv, NEW t \in Tasks, CasConflict(t) PROVE IInv'
<1> USE BoundsAssumption DEF IInv, CasConflict, etcd, notes
<1>1. /\ attempt[t] < MaxCasRetries /\ attempt[t] \in Nat
      /\ first[t] \in Nat /\ meta.latest \in Nat /\ seen[t].latest \in Nat
      /\ meta.latest >= first[t] + attempt[t] + 1
  <2>1. /\ attempt[t] \in Nat /\ first[t] \in Nat /\ meta.latest \in Nat
        /\ seen[t].latest \in Nat /\ pc[t] = "txn"
    BY DEF TypeOK, Metas
  <2>2. seen[t] # meta
    BY DEF Unmodified
  <2>3. seen[t].latest < meta.latest
    BY <2>2 DEF SeenCurrent
  <2>4. attempt[t] < MaxCasRetries /\ seen[t].latest >= first[t] + attempt[t]
    BY <2>1 DEF AttemptsCounted
  <2> QED
    BY <2>1, <2>3, <2>4
<1>a. /\ pc[t] = "txn"
      /\ \A u \in Tasks : u # t => pc'[u] = pc[u] /\ attempt'[u] = attempt[u]
      /\ attempt'[t] = attempt[t] + 1
      /\ \/ pc'[t] = "get" /\ attempt[t] + 1 < MaxCasRetries
         \/ pc'[t] = "conflict" /\ attempt[t] + 1 >= MaxCasRetries
  BY <1>1 DEF TypeOK, AfterConflict
<1>2. TypeOK'
  <2>1. attempt' \in [Tasks -> 0..MaxCasRetries]
    <3> DEFINE bound == 0..MaxCasRetries
    <3>1. attempt \in [Tasks -> bound]
      BY DEF TypeOK
    <3>2. attempt[t] + 1 \in bound
      BY <1>1
    <3>3. attempt' = [attempt EXCEPT ![t] = attempt[t] + 1]
      OBVIOUS
    <3> HIDE DEF bound
    <3>4. attempt' \in [Tasks -> bound]
      BY <3>1, <3>2, <3>3, Zenon
    <3> QED
      BY <3>4 DEF bound
  <2>2. pc' \in [Tasks -> {"idle"} \cup Active \cup Ended]
    BY DEF TypeOK, AfterConflict, Active, Ended
  <2> QED
    BY <2>1, <2>2, SMTT(30) DEF TypeOK
<1>3. SeenCurrent' /\ WindowRetained' /\ UniqueVersions'
  BY DEF SeenCurrent, WindowRetained, UniqueVersions
<1>4. VersionsIssued'
  BY <1>a DEF VersionsIssued
<1>5. AttemptsCounted'
  BY <1>1, <1>a, SMTT(30) DEF AttemptsCounted
<1>6. ConflictMeansProgress'
  BY <1>1, <1>a, SMTT(30) DEF ConflictMeansProgress
<1>7. PrunedStaysPruned'
  BY <1>a DEF PrunedStaysPruned, Cutoff
<1>8. JobsWritten'
  BY <1>a DEF JobsWritten, Written
<1>9. Provenance'
  BY DEF Provenance, Written
<1> QED
  BY <1>2, <1>3, <1>4, <1>5, <1>6, <1>7, <1>8, <1>9


\* Pruning deletes nothing inside the window: the cutoff lies behind it.
LEMMA PruneStep == ASSUME IInv, NEW t \in Tasks, Prune(t) PROVE IInv'
<1> USE BoundsAssumption DEF IInv
<1>1. /\ pc[t] = "prune" /\ pc' = [pc EXCEPT ![t] = "done"]
      /\ UNCHANGED <<writes, meta, pos, pending, owes, job, attempt, seen, first, ver>>
      /\ rev' = rev \/ rev' = rev + 1
      /\ DOMAIN snaps' = {w \in DOMAIN snaps : ~(w <= ver[t] - MaxVersions)}
      /\ \A v \in DOMAIN snaps' : snaps'[v] = snaps[v]
      /\ snaps' \in [DOMAIN snaps' -> {snaps[v] : v \in DOMAIN snaps'}]
  BY DEF Prune, local, Cutoff, Pruned, notes
<1>2. /\ rev \in Nat /\ meta \in Metas /\ meta.latest \in Nat /\ meta.mod \in Nat
      /\ DOMAIN snaps \subseteq Nat
      /\ \A u \in Tasks : u # t => pc'[u] = pc[u]
      /\ pc'[t] = "done"
      /\ \A u \in Tasks : ver[u] \in Nat /\ ver[u] <= meta.latest
  BY <1>1, SMTT(30) DEF TypeOK, Metas, VersionsIssued
<1>3. TypeOK'
  <2>1. DOMAIN snaps' \subseteq Nat /\ snaps' \in [DOMAIN snaps' -> Jobs]
    BY <1>1 DEF TypeOK
  <2>2. pc' \in [Tasks -> {"idle"} \cup Active \cup Ended] /\ rev' \in Nat
    BY <1>1, <1>2, SMTT(30) DEF TypeOK, Ended
  <2> QED
    BY <1>1, <2>1, <2>2, SMTT(30) DEF TypeOK
<1>4. SeenCurrent'
  BY <1>1, <1>2 DEF SeenCurrent
<1>5. VersionsIssued' /\ UniqueVersions' /\ AttemptsCounted' /\ ConflictMeansProgress'
  BY <1>1, <1>2 DEF VersionsIssued, UniqueVersions, AttemptsCounted, ConflictMeansProgress
<1>6. WindowRetained'
  BY <1>1, <1>2, SMTT(30) DEF WindowRetained
<1>7. PrunedStaysPruned'
  BY <1>1, <1>2, SMTT(30) DEF PrunedStaysPruned, Cutoff
<1>8. JobsWritten'
  BY <1>1, <1>2 DEF JobsWritten, Written
<1>9. Provenance'
  <2>1. \A v \in DOMAIN snaps' : v \in DOMAIN snaps /\ snaps'[v] = snaps[v]
    BY <1>1
  <2>2. \A v \in DOMAIN snaps' : Written(snaps'[v].cfg, snaps'[v].rev)
    BY <2>1 DEF Provenance
  <2> QED
    BY <1>1, <2>2 DEF Provenance, Written
<1> QED
  BY <1>3, <1>4, <1>5, <1>6, <1>7, <1>8, <1>9

\* A rollback takes its body from a stored snapshot and has no version yet.
LEMMA RollbackGetStep ==
  ASSUME IInv, NEW t \in Tasks, NEW v \in Nat, RollbackGet(t, v) PROVE IInv'
<1> USE DEF IInv
<1>1. /\ UNCHANGED <<rev, writes, meta, snaps, pos, pending, attempt, seen, first, ver>>
      /\ pc[t] = "idle"
  BY DEF RollbackGet, etcd, Unused
<1>2. CASE v \notin DOMAIN snaps
  <2>1. UNCHANGED <<etcd, local>> /\ NotesTyped'
    BY <1>1, <1>2 DEF RollbackGet, etcd, local, TypeOK, NotesTyped
  <2>2. pc' = [pc EXCEPT ![t] = "not_found"]
    BY <1>2 DEF RollbackGet
  <2>3. pc' \in [Tasks -> {"idle"} \cup Active \cup Ended]
    BY <2>2 DEF TypeOK, Ended
  <2>4. \A u \in Tasks : pc'[u] = pc[u] \/ pc'[u] = "not_found"
    BY <2>2 DEF TypeOK
  <2> QED
    BY <2>1, <2>3, <2>4, QuietSteps
<1>3. CASE v \in DOMAIN snaps
  <2>1. /\ job' = [job EXCEPT ![t] = [cfg |-> snaps[v].cfg, rev |-> 0, kind |-> "rollback"]]
        /\ pc' = [pc EXCEPT ![t] = "rb_put"]
        /\ owes' = owes \cup {t}
    BY <1>3 DEF RollbackGet
  <2>2. [cfg |-> snaps[v].cfg, rev |-> 0, kind |-> "rollback"] \in Jobs
    BY <1>3 DEF TypeOK, Jobs, Kinds
  <2>3. TypeOK'
    BY <1>1, <2>1, <2>2 DEF TypeOK, Active
  <2>4. \A u \in Tasks : u # t => pc'[u] = pc[u] /\ job'[u] = job[u]
    BY <2>1 DEF TypeOK
  <2>5. pc'[t] = "rb_put"
    BY <2>1 DEF TypeOK
  <2>6. SeenCurrent' /\ WindowRetained' /\ UniqueVersions'
    BY <1>1 DEF SeenCurrent, WindowRetained, UniqueVersions
  <2>7. VersionsIssued' /\ AttemptsCounted' /\ ConflictMeansProgress'
    BY <1>1, <2>4, <2>5 DEF VersionsIssued, AttemptsCounted, ConflictMeansProgress
  <2>8. PrunedStaysPruned' /\ JobsWritten' /\ Provenance'
    BY <1>1, <2>4, <2>5, SMTT(30) DEF PrunedStaysPruned, Cutoff, JobsWritten, Provenance, Written
  <2> QED
    BY <2>3, <2>6, <2>7, <2>8
<1> QED
  BY <1>2, <1>3


\* A rollback's put is a write of the site key that its save then records.
LEMMA RollbackPutStep == ASSUME IInv, NEW t \in Tasks, RollbackPut(t) PROVE IInv'
<1> USE DEF IInv
<1>1. /\ pc[t] = "rb_put" /\ WriteSite("put", job[t].cfg)
      /\ job' = [job EXCEPT ![t].rev = rev + 1]
      /\ \/ pc' = [pc EXCEPT ![t] = "get"]
         \/ pc' = [pc EXCEPT ![t] = "error"]
      /\ UNCHANGED <<meta, snaps, pos, pending, owes, attempt, seen, first, ver>>
  BY DEF RollbackPut, PutRevision, notes
<1>2. rev \in Nat /\ job[t] \in Jobs /\ job[t].cfg \in Bodies /\ meta \in Metas
  BY DEF TypeOK, Jobs
<1>3. /\ writes' \in Seq(Write) /\ rev' = rev + 1
      /\ \A b, r : Written(b, r) => Written(b, r)'
      /\ \A b, r : b = job[t].cfg /\ r = rev + 1 => Written(b, r)'
  <2> DEFINE c == job[t].cfg
  <2>1. c \in Bodies /\ WriteSite("put", c) /\ "put" \in {"put", "delete"}
    BY <1>1, <1>2
  <2>2. PICK d \in Bodies : d = c
    BY <2>1
  <2>3. WriteSite("put", d)
    BY <2>1, <2>2
  <2>4. /\ writes' \in Seq(Write) /\ rev' = rev + 1
        /\ \A b, r : Written(b, r) => Written(b, r)'
        /\ \A r : r = rev' => Written(d, r)'
    BY <2>1, <2>3, WriteSiteKeeps
  <2> QED
    BY <2>2, <2>4
<1>4. /\ \A u \in Tasks : u # t => pc'[u] = pc[u] /\ job'[u] = job[u]
      /\ pc'[t] \in {"get", "error"}
      /\ job'[t].cfg = job[t].cfg /\ job'[t].rev = rev + 1 /\ job'[t] \in Jobs
  <2>1. /\ \A u \in Tasks : u # t => pc'[u] = pc[u]
        /\ pc'[t] \in {"get", "error"}
    BY <1>1 DEF TypeOK
  <2>2. /\ \A u \in Tasks : u # t => job'[u] = job[u]
        /\ job'[t] = [job[t] EXCEPT !.rev = rev + 1]
    BY <1>1 DEF TypeOK
  <2>3. /\ job'[t].cfg = job[t].cfg /\ job'[t].rev = rev + 1 /\ job'[t] \in Jobs
    BY <1>2, <2>2 DEF Jobs
  <2> QED
    BY <2>1, <2>2, <2>3
<1>5. TypeOK'
  <2>1. job' \in [Tasks -> Jobs]
    BY <1>1, <1>4 DEF TypeOK
  <2>2. pc' \in [Tasks -> {"idle"} \cup Active \cup Ended]
    BY <1>1, ZenonT(30) DEF TypeOK, Active, Ended
  <2> QED
    BY <1>1, <1>2, <1>3, <2>1, <2>2, SMTT(30) DEF TypeOK, Write
<1>6. SeenCurrent'
  BY <1>1, <1>2, <1>3 DEF SeenCurrent, Metas
<1>7. VersionsIssued' /\ UniqueVersions' /\ WindowRetained'
  BY <1>1, <1>4 DEF VersionsIssued, UniqueVersions, WindowRetained
<1>8. AttemptsCounted' /\ ConflictMeansProgress'
  BY <1>1, <1>4, BoundsAssumption DEF AttemptsCounted, ConflictMeansProgress
<1>9. PrunedStaysPruned'
  BY <1>1, <1>4 DEF PrunedStaysPruned, Cutoff
<1>10. JobsWritten'
  BY <1>3, <1>4 DEF JobsWritten
<1>11. Provenance'
  BY <1>1, <1>3 DEF Provenance
<1> QED
  BY <1>5, <1>6, <1>7, <1>8, <1>9, <1>10, <1>11

\* Every step of the history preserves the inductive invariant.
LEMMA NextIInv == IInv /\ [Next]_vars => IInv'
<1> SUFFICES ASSUME IInv, [Next]_vars PROVE IInv'
  OBVIOUS
<1> USE DEF IInv
<1>1. CASE OperatorWrite
  BY <1>1, OperatorWriteStep
<1>2. ASSUME NEW n \in Nodes, Watch(n) PROVE IInv'
  BY <1>2, WatchStep
<1>3. ASSUME NEW n \in Nodes, Crash(n) PROVE IInv'
  <2>1. writes \in Seq(Write)
    BY DEF TypeOK, Write
  <2>2. Len(writes) \in Nat
    BY <2>1, LenProperties
  <2>3. UNCHANGED <<etcd, local>> /\ NotesTyped'
    BY <1>3, <2>2 DEF Crash, TypeOK, NotesTyped
  <2>4. /\ pc' \in [Tasks -> {"idle"} \cup Active \cup Ended]
        /\ \A t \in Tasks : pc'[t] = pc[t] \/ pc'[t] = "lost"
    BY <1>3 DEF Crash, TypeOK, Ended
  <2> QED
    BY <2>3, <2>4, QuietSteps
<1>4. ASSUME NEW t \in Tasks, Step(t) PROVE IInv'
  <2>1. CASE ReadMeta(t)
    BY <2>1, ReadMetaStep
  <2>2. CASE Commit(t)
    BY <2>2, CommitStep
  <2>3. CASE CasConflict(t)
    BY <2>3, CasConflictStep
  <2>4. CASE Prune(t)
    BY <2>4, PruneStep
  <2>5. CASE PruneFails(t) \/ EtcdError(t)
    <3>1. UNCHANGED <<etcd, local>> /\ NotesTyped'
      BY <2>5 DEF PruneFails, EtcdError, TypeOK, NotesTyped, notes
    <3>2. \/ pc' = [pc EXCEPT ![t] = "unpruned"]
          \/ pc' = [pc EXCEPT ![t] = "error"]
      BY <2>5 DEF PruneFails, EtcdError
    <3>3. /\ pc' \in [Tasks -> {"idle"} \cup Active \cup Ended]
          /\ \A u \in Tasks : pc'[u] = pc[u] \/ pc'[u] \in {"unpruned", "error"}
      BY <3>2, ZenonT(30) DEF TypeOK, Ended
    <3> QED
      BY <3>1, <3>3, QuietSteps
  <2>6. CASE RollbackPut(t)
    BY <2>6, RollbackPutStep
  <2>7. CASE SetPending(t)
    <3>1. t[1] \in Nodes /\ job[t].rev \in Nat
      BY DEF Tasks, TypeOK, Jobs
    <3>2. UNCHANGED <<etcd, local>> /\ pc' = pc /\ NotesTyped'
      BY <2>7, <3>1 DEF SetPending, TypeOK, NotesTyped
    <3> QED
      BY <3>2, QuietSteps, SMTT(30) DEF TypeOK
  <2> QED
    BY <1>4, <2>1, <2>2, <2>3, <2>4, <2>5, <2>6, <2>7 DEF Step
<1>5. ASSUME NEW t \in Tasks, NEW v \in 1..(meta.latest + 1), RollbackGet(t, v) PROVE IInv'
  <2>1. v \in Nat
    BY DEF TypeOK, Metas
  <2> QED
    BY <1>5, <2>1, RollbackGetStep
<1>6. CASE UNCHANGED vars
  <2>1. UNCHANGED <<etcd, local>> /\ pc' = pc /\ NotesTyped'
    BY <1>6 DEF vars, etcd, local, TypeOK, NotesTyped
  <2> QED
    BY <2>1, QuietSteps, SMTT(30) DEF TypeOK
<1> QED
  BY <1>1, <1>2, <1>3, <1>4, <1>5, <1>6 DEF Next

\* The inductive invariant holds in every reachable state.
THEOREM HistoryInvariant == Spec => []IInv
<1>1. Init => IInv
  BY InitIInv
<1>2. IInv /\ [Next]_vars => IInv'
  BY NextIInv
<1> QED
  BY <1>1, <1>2, PTL DEF Spec


\* The types of the variables, for every number of nodes and calls.
THEOREM TypeCorrect == Spec => []TypeOK
<1>1. IInv => TypeOK
  BY DEF IInv
<1> QED
  BY <1>1, HistoryInvariant, PTL

\* The newest MaxVersions versions of a site can always be read back.
THEOREM WindowAlwaysRetained == Spec => []WindowRetained
<1>1. IInv => WindowRetained
  BY DEF IInv
<1> QED
  BY <1>1, HistoryInvariant, PTL

\* No version number is ever handed out twice.
THEOREM VersionsUnique == Spec => []UniqueVersions
<1>1. IInv => UniqueVersions
  BY DEF IInv
<1> QED
  BY <1>1, HistoryInvariant, PTL

\* Every snapshot records a write that was made.
THEOREM SnapshotsGenuine == Spec => []Provenance
<1>1. IInv => Provenance
  BY DEF IInv
<1> QED
  BY <1>1, HistoryInvariant, PTL

\* A save that gives up on conflicts saw MaxCasRetries other saves succeed.
THEOREM GivingUpMeansProgress == Spec => []ConflictMeansProgress
<1>1. IInv => ConflictMeansProgress
  BY DEF IInv
<1> QED
  BY <1>1, HistoryInvariant, PTL

\* What a finished save has pruned does not come back.
THEOREM PruningIsFinal == Spec => []PrunedStaysPruned
<1>1. IInv => PrunedStaysPruned
  BY DEF IInv
<1> QED
  BY <1>1, HistoryInvariant, PTL

\* A version names one configuration for ever: no step rewrites a snapshot or
\* reuses the number of a deleted one.
THEOREM VersionsImmutable == Spec => SnapshotsImmutable
<1> DEFINE A == /\ \A v \in DOMAIN snaps \cap DOMAIN snaps' : snaps'[v] = snaps[v]
                /\ \A v \in DOMAIN snaps' \ DOMAIN snaps : v > meta.latest
<1>1. IInv /\ [Next]_vars => [A]_vars
  <2> SUFFICES ASSUME IInv, [Next]_vars PROVE A
    BY DEF A
  <2>1. CASE snaps' = snaps
    BY <2>1
  <2>2. ASSUME NEW t \in Tasks, Commit(t) PROVE A
    <3>1. NewVersion(t) = meta.latest + 1 /\ meta.latest \in Nat
      BY <2>2, CommitIsCurrent
    <3>2. meta.latest + 1 \notin DOMAIN snaps
      BY <3>1 DEF IInv, WindowRetained
    <3>3. snaps' = [v \in DOMAIN snaps \cup {meta.latest + 1} |->
                     IF v = meta.latest + 1 THEN job[t] ELSE snaps[v]]
      BY <2>2, <3>1 DEF Commit, PutVersion
    <3> QED
      BY <3>1, <3>2, <3>3
  <2>3. ASSUME NEW t \in Tasks, Prune(t) PROVE A
    BY <2>3 DEF Prune
  <2>4. \/ snaps' = snaps
        \/ \E t \in Tasks : Commit(t) \/ Prune(t)
    BY ZenonT(30) DEF Next, Step, OperatorWrite, Watch, Crash, ReadMeta, CasConflict, PruneFails,
           EtcdError, RollbackGet, RollbackPut, SetPending, etcd, vars
  <2> QED
    BY <2>1, <2>2, <2>3, <2>4
<1> QED
  BY <1>1, HistoryInvariant, PTL DEF Spec, SnapshotsImmutable

=============================================================================
