-------------------------- MODULE CoalescingProofs --------------------------
(* Proofs about Coalescing, for any number of requests: who owns the entry of  *)
(* a key, and which responses leave one behind.                               *)
EXTENDS Coalescing, TLAPS

Record == [pc : Phases, key : BOOLEAN, leader : BOOLEAN, on : Requests \cup {None}]

\* What a write to one request's record leaves: the other records and, of its own,
\* the fields it does not name.
LEMMA OneWritten ==
  ASSUME req \in [Requests -> Record], NEW r \in Requests, NEW x \in Record,
         req' = [req EXCEPT ![r] = x]
  PROVE  /\ req' \in [Requests -> Record]
         /\ \A q \in Requests \ {r} : req'[q] = req[q]
         /\ req'[r] = x
  OBVIOUS

\* A release keeps the invariant: the entry removed is the leader's own, and what
\* stays behind belongs to another leader or has lost its key.
LEMMA ReleaseKeeps ==
  ASSUME IInv, NEW r \in Requests, NEW p \in {"logging", "done"},
         req[r].pc \in {"origin", "body", "logging"}, ReleaseThen(r, p)
  PROVE  /\ entry' \in Requests \cup {None}
         /\ req' \in [Requests -> Record]
         /\ \A q \in Requests \ {r} : req'[q] = req[q]
         /\ req'[r].pc \in {"notify", "logging", "done"}
         /\ LeaderOwnsEntry' /\ KeyKept' /\ OnlyUncacheableOrphans'
<1> USE NoneAssumption
<1>1. /\ entry \in Requests \cup {None}
      /\ req \in [Requests -> Record]
  BY DEF IInv, TypeOK, Record
<1>2. CASE Removes(r)
  <2>1. /\ entry = r /\ entry' = None
        /\ req' = [req EXCEPT ![r].pc = "notify", ![r].leader = FALSE, ![r].on = entry]
    BY <1>2 DEF ReleaseThen, Removes, IInv, LeaderOwnsEntry
  <2>2. /\ req' \in [Requests -> Record]
        /\ \A q \in Requests \ {r} : req'[q] = req[q]
        /\ req'[r].pc = "notify" /\ req'[r].leader = FALSE
    <3> DEFINE x == [req[r] EXCEPT !.pc = "notify", !.leader = FALSE, !.on = entry]
    <3>1. req[r] \in Record
      BY <1>1
    <3>2. x \in Record
      BY <1>1, <3>1, ZenonT(30) DEF Record, Phases
    <3>3. x.pc = "notify"
      BY <3>1 DEF Record
    <3>4. x.leader = FALSE
      BY <3>1 DEF Record
    <3>5. req' = [req EXCEPT ![r] = x]
      BY <1>1, <2>1, ZenonT(30) DEF Record
    <3> HIDE DEF x
    <3> QED
      BY <1>1, <3>2, <3>3, <3>4, <3>5, OneWritten
  <2>3. \A q \in Requests : ~req'[q].leader
    BY <2>1, <2>2 DEF IInv, LeaderOwnsEntry
  <2> QED
    BY <2>1, <2>2, <2>3 DEF LeaderOwnsEntry, KeyKept, OnlyUncacheableOrphans, IInv
<1>3. CASE ~Removes(r)
  <2>1. /\ entry' = entry
        /\ req' = [req EXCEPT ![r].pc = p, ![r].leader = FALSE]
    BY <1>3 DEF ReleaseThen
  <2>2. /\ req' \in [Requests -> Record]
        /\ \A q \in Requests \ {r} : req'[q] = req[q]
        /\ req'[r].pc = p /\ req'[r].leader = FALSE /\ req'[r].key = req[r].key
    <3> DEFINE x == [req[r] EXCEPT !.pc = p, !.leader = FALSE]
    <3>1. req[r] \in Record
      BY <1>1
    <3>2. x \in Record
      BY <1>1, <3>1, ZenonT(30) DEF Record, Phases
    <3>3. x.pc = p /\ x.leader = FALSE /\ x.key = req[r].key
      BY <3>1 DEF Record
    <3>4. req' = [req EXCEPT ![r] = x]
      BY <2>1, ZenonT(30)
    <3> HIDE DEF x
    <3> QED
      BY <1>1, <3>2, <3>3, <3>4, OneWritten
  <2>3. entry = r => ~req[r].key
    BY <1>3 DEF Removes, IInv, OnlyUncacheableOrphans
  <2>4. LeaderOwnsEntry'
    BY <2>1, <2>2 DEF LeaderOwnsEntry, IInv
  <2>5. KeyKept'
    BY <2>2 DEF KeyKept, IInv
  <2>6. OnlyUncacheableOrphans'
    BY <1>1, <2>1, <2>2, <2>3 DEF OnlyUncacheableOrphans, IInv
  <2> QED
    BY <1>1, <2>1, <2>2, <2>4, <2>5, <2>6
<1> QED
  BY <1>2, <1>3

\* The initial state satisfies the invariant.
LEMMA InitIInv == Init => IInv
<1> SUFFICES ASSUME Init PROVE IInv
  OBVIOUS
<1>1. Fresh \in Record /\ Fresh.key = TRUE /\ Fresh.leader = FALSE
  BY DEF Fresh, Record, Phases
<1>2. entry = None /\ puts = {} /\ cached = FALSE
  BY DEF Init
<1>3. req \in [Requests -> Record] /\ \A r \in Requests : req[r] = Fresh
  BY <1>1 DEF Init
<1>4. TypeOK
  BY <1>2, <1>3, ZenonT(30) DEF TypeOK, Record
<1> QED
  BY <1>1, <1>2, <1>3, <1>4 DEF IInv, LeaderOwnsEntry, KeyKept, OnlyUncacheableOrphans

\* Every step preserves it.
LEMMA NextIInv == IInv /\ [Next]_vars => IInv'
<1> SUFFICES ASSUME IInv, [Next]_vars PROVE IInv'
  OBVIOUS
<1> USE NoneAssumption, VerdictsAssumption
<1>1. /\ entry \in Requests \cup {None}
      /\ req \in [Requests -> Record]
      /\ puts \subseteq {q \in Requests : req[q].pc \in {"notify", "logging", "done"}}
      /\ cached \in BOOLEAN
  BY DEF IInv, TypeOK, Record
<1>2. ASSUME NEW r \in Requests, Lookup(r) \/ Wait(r) \/ TimeOut(r) \/ Recheck(r) \/ CloneEntry(r)
      PROVE  IInv'
  <2>1. /\ req' \in [Requests -> Record]
        /\ \A q \in Requests \ {r} : req'[q] = req[q]
        /\ req'[r].key = req[r].key /\ req'[r].leader = req[r].leader
        /\ UNCHANGED <<entry, puts, cached>>
    BY <1>1, <1>2 DEF Lookup, Wait, TimeOut, MayTimeOut, Recheck, CloneEntry, To, Record, Phases
  <2>2. req[r].key /\ req[r].pc \notin {"notify", "logging", "done"}
    BY <1>2 DEF Lookup, Wait, TimeOut, MayTimeOut, Recheck, CloneEntry, IInv, KeyKept
  <2> QED
    BY <1>1, <2>1, <2>2, ZenonT(30) DEF IInv, TypeOK, Record, LeaderOwnsEntry, KeyKept, OnlyUncacheableOrphans
<1>3. ASSUME NEW r \in Requests, Lead(r) PROVE IInv'
  <2>1. /\ entry = None /\ entry' = r
        /\ req' \in [Requests -> Record]
        /\ \A q \in Requests \ {r} : req'[q] = req[q]
        /\ req'[r].key = req[r].key /\ req'[r].leader = TRUE
        /\ req[r].pc = "enter"
        /\ UNCHANGED <<puts, cached>>
    <3> DEFINE x == [req[r] EXCEPT !.pc = "origin", !.leader = TRUE]
    <3>1. req[r] \in Record
      BY <1>1
    <3>2. x \in Record
      BY <3>1, ZenonT(30) DEF Record, Phases
    <3>3. x.key = req[r].key
      BY <3>1 DEF Record
    <3>4. x.leader = TRUE
      BY <3>1 DEF Record
    <3>5. req' = [req EXCEPT ![r] = x]
      BY <1>1, <1>3, ZenonT(30) DEF Lead, Record
    <3>6. /\ entry = None /\ entry' = r /\ req[r].pc = "enter"
          /\ UNCHANGED <<puts, cached>>
      BY <1>3 DEF Lead, Vacant
    <3> HIDE DEF x
    <3> QED
      BY <1>1, <3>2, <3>3, <3>4, <3>5, <3>6, OneWritten
  <2> QED
    BY <1>1, <2>1 DEF IInv, TypeOK, Record, LeaderOwnsEntry, KeyKept, OnlyUncacheableOrphans
<1>4. ASSUME NEW r \in Requests, NotifyWaiters(r) PROVE IInv'
  <2>1. /\ req' \in [Requests -> Record]
        /\ \A q \in Requests : req'[q].key = req[q].key /\ req'[q].leader = req[q].leader
        /\ \A q \in Requests : \/ req'[q].pc = req[q].pc
                               \/ req'[q].pc = "logging" /\ req[q].pc = "notify"
                               \/ req'[q].pc = "woken" /\ req[q].pc = "waiting"
        /\ UNCHANGED <<entry, puts, cached>>
    BY <1>1, <1>4 DEF NotifyWaiters, Record, Phases
  <2>2. TypeOK'
    BY <1>1, <2>1 DEF TypeOK, Record
  <2> QED
    BY <1>1, <2>1, <2>2 DEF IInv, LeaderOwnsEntry, KeyKept, OnlyUncacheableOrphans
<1>5. ASSUME NEW r \in Requests, FailToConnect(r) \/ EndOfStream(r) \/ Logging(r) PROVE IInv'
  <2>1. PICK p \in {"logging", "done"} : ReleaseThen(r, p)
    BY <1>5 DEF FailToConnect, EndOfStream, Logging, SafetyNet
  <2>2. req[r].pc \in {"origin", "body", "logging"}
    BY <1>5 DEF FailToConnect, EndOfStream, Logging
  <2>3. /\ entry' \in Requests \cup {None}
        /\ req' \in [Requests -> Record]
        /\ \A q \in Requests \ {r} : req'[q] = req[q]
        /\ req'[r].pc \in {"notify", "logging", "done"}
        /\ LeaderOwnsEntry' /\ KeyKept' /\ OnlyUncacheableOrphans'
    BY <2>1, <2>2, ReleaseKeeps
  <2>4. puts' \subseteq puts \cup {r} /\ cached' = cached
    BY <1>5 DEF FailToConnect, EndOfStream, Logging
  <2>5. TypeOK'
    BY <1>1, <2>3, <2>4 DEF TypeOK, Record
  <2> QED
    BY <2>3, <2>5 DEF IInv
<1>6. ASSUME NEW r \in Requests, NEW v \in Verdicts, ResponseFilter(r, v) PROVE IInv'
  <2>1. /\ req' \in [Requests -> Record]
        /\ \A q \in Requests \ {r} : req'[q] = req[q]
        /\ req'[r].pc = "body" /\ req'[r].leader = req[r].leader
        /\ req[r].pc = "origin" /\ req[r].key
        /\ UNCHANGED <<entry, puts, cached>>
    <3> DEFINE x == [req[r] EXCEPT !.pc = "body", !.key = v]
    <3>1. req[r] \in Record /\ v \in BOOLEAN
      BY <1>1
    <3>2. x \in Record
      BY <3>1, ZenonT(30) DEF Record, Phases
    <3>3. x.pc = "body"
      BY <3>1 DEF Record
    <3>4. x.leader = req[r].leader
      BY <3>1 DEF Record
    <3>5. req' = [req EXCEPT ![r] = x]
      BY <1>1, <1>6, ZenonT(30) DEF ResponseFilter, Record
    <3>6. /\ req[r].pc = "origin" /\ req[r].key
          /\ UNCHANGED <<entry, puts, cached>>
      BY <1>6 DEF ResponseFilter, IInv, KeyKept
    <3> HIDE DEF x
    <3> QED
      BY <1>1, <3>2, <3>3, <3>4, <3>5, <3>6, OneWritten
  <2> QED
    BY <1>1, <2>1 DEF IInv, TypeOK, Record, LeaderOwnsEntry, KeyKept, OnlyUncacheableOrphans
<1>7. ASSUME NEW r \in Requests, TooLarge(r) PROVE IInv'
  <2>1. /\ req' = [req EXCEPT ![r] = [req[r] EXCEPT !.key = FALSE]]
        /\ req[r].pc = "body"
        /\ UNCHANGED <<entry, puts, cached>>
    BY <1>1, <1>7 DEF TooLarge, Record
  <2>2. [req[r] EXCEPT !.key = FALSE] \in Record
    <3>1. req[r] \in Record
      BY <1>1
    <3> QED
      BY <3>1, ZenonT(30) DEF Record, Phases
  <2>3. [req[r] EXCEPT !.key = FALSE].pc = req[r].pc
    BY <1>1 DEF Record
  <2>4. [req[r] EXCEPT !.key = FALSE].key = FALSE
    BY <1>1 DEF Record
  <2>5. [req[r] EXCEPT !.key = FALSE].leader = req[r].leader
    BY <1>1 DEF Record
  <2>6. /\ req' \in [Requests -> Record]
        /\ \A q \in Requests \ {r} : req'[q] = req[q]
        /\ req'[r].pc = "body" /\ req'[r].leader = req[r].leader /\ req'[r].key = FALSE
    BY <1>1, <2>1, <2>2, <2>3, <2>4, <2>5, OneWritten
  <2> QED
    BY <1>1, <2>1, <2>6 DEF IInv, TypeOK, Record, LeaderOwnsEntry, KeyKept, OnlyUncacheableOrphans
<1>8. ASSUME NEW r \in Requests, Break(r) PROVE IInv'
  <2>1. /\ req' = [req EXCEPT ![r] = [req[r] EXCEPT !.pc = "logging"]]
        /\ UNCHANGED <<entry, puts, cached>>
    BY <1>1, <1>8 DEF Break, To, Record
  <2>2. /\ [req[r] EXCEPT !.pc = "logging"] \in Record
        /\ [req[r] EXCEPT !.pc = "logging"].pc = "logging"
        /\ [req[r] EXCEPT !.pc = "logging"].key = req[r].key
    BY <1>1 DEF Record, Phases
  <2>3. [req[r] EXCEPT !.pc = "logging"].leader = req[r].leader
    BY <1>1 DEF Record
  <2>4. /\ req' \in [Requests -> Record]
        /\ \A q \in Requests \ {r} : req'[q] = req[q]
        /\ req'[r].pc = "logging" /\ req'[r].leader = req[r].leader
        /\ req'[r].key = req[r].key
    BY <1>1, <2>1, <2>2, <2>3, OneWritten
  <2> QED
    BY <1>1, <2>1, <2>4 DEF IInv, TypeOK, Record, LeaderOwnsEntry, KeyKept, OnlyUncacheableOrphans
<1>9. ASSUME NEW r \in Requests, PutEnds(r) PROVE IInv'
  BY <1>1, <1>9, ZenonT(30) DEF PutEnds, IInv, TypeOK, Record, LeaderOwnsEntry, KeyKept, OnlyUncacheableOrphans
<1>10. CASE Evict \/ UNCHANGED vars
  BY <1>1, <1>10, ZenonT(30) DEF Evict, vars, IInv, TypeOK, Record, LeaderOwnsEntry, KeyKept,
                    OnlyUncacheableOrphans
<1> QED
  BY <1>2, <1>3, <1>4, <1>5, <1>6, <1>7, <1>8, <1>9, <1>10 DEF Next, Serve

\* The invariant holds throughout, for any number of concurrent misses.
THEOREM CoalescingInvariant == Spec => []IInv
  BY InitIInv, NextIInv, PTL DEF Spec

\* A leader that releases removes its own entry, never that of a later leader.
THEOREM LeadersOwnEntries == Spec => []LeaderOwnsEntry
<1>1. IInv => LeaderOwnsEntry
  BY DEF IInv
<1> QED
  BY <1>1, CoalescingInvariant, PTL

\* Only an uncacheable or oversized response leaves an entry without a leader.
THEOREM OrphansAreUncacheable == Spec => []OnlyUncacheableOrphans
<1>1. IInv => OnlyUncacheableOrphans
  BY DEF IInv
<1> QED
  BY <1>1, CoalescingInvariant, PTL
=============================================================================
