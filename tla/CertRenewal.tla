---------------------------- MODULE CertRenewal ----------------------------
(***************************************************************************)
(* check_and_renew of RenewalManager (cdn-proxy/src/ssl/renewal.rs) on       *)
(* several nodes, with the issuance of acme.rs and the tokens of             *)
(* challenge.rs.  Every remote call is a step.  Each node has certificates   *)
(* of its own; when they fall due is left open, and so is what the ACME      *)
(* servers answer.  Storing and serving certificates is in CertStore.        *)
(***************************************************************************)
EXTENDS RedisLock, FiniteSets

CONSTANTS
  Domains,    \* the keys of the certificate storage
  Scan,       \* lock_names::renewal_scan
  Providers   \* providers that have what they need; the others are skipped

VARIABLES
  due,        \* due[n]: domains whose certificate needs_renewal
  domains,    \* domains[n][d]: the field CertData.domains
  challenges, \* challenges[n]: ChallengeStore, the names with a token
  task        \* task[n]: the scan in progress

certVars == <<due, domains, challenges, task>>
vars == <<lockVars, certVars>>

\* todo: domains still to visit; providers: still to try; names: of the order;
\* pending: authorizations still to set up; tokens: challenge_tokens.
NoTask == [pc |-> "idle", dom |-> Scan, todo |-> {}, providers |-> {},
           names |-> {}, pending |-> {}, tokens |-> {}]

Init ==
  /\ LockInit
  /\ due = [n \in Nodes |-> {}]
  /\ domains = [n \in Nodes |-> [d \in Domains |-> {}]]
  /\ challenges = [n \in Nodes |-> {}]
  /\ task = [n \in Nodes |-> NoTask]

At(n, s) == task[n].pc = s
Goto(n, s) == task' = [task EXCEPT ![n].pc = s]

-----------------------------------------------------------------------------

FallsDue(n, d) ==
  /\ d \notin due[n]
  /\ due' = [due EXCEPT ![n] = @ \cup {d}]
  /\ UNCHANGED <<lockVars, domains, challenges, task>>

\* The scan lock; without it the node skips this round.
CheckAndRenew(n) ==
  /\ At(n, "idle")
  /\ \/ /\ Acquire(n, Scan)
        /\ task' = [task EXCEPT ![n].pc = "scan", ![n].todo = Domains]
     \/ AcquireFails(n, Scan) /\ UNCHANGED task
  /\ UNCHANGED <<due, domains, challenges>>

\* The next domain; one that is not due is passed over.
Visit(n, d) ==
  /\ At(n, "scan") /\ d \in task[n].todo
  /\ task' = [task EXCEPT ![n].todo = @ \ {d}, ![n].dom = d,
                          ![n].pc = IF d \in due[n] THEN "lock" ELSE "scan"]
  /\ UNCHANGED <<lockVars, due, domains, challenges>>

ScanEnds(n) ==
  /\ At(n, "scan") /\ task[n].todo = {}
  /\ Release(n, Scan)
  /\ task' = [task EXCEPT ![n] = NoTask]
  /\ UNCHANGED <<due, domains, challenges>>

\* domains_to_renew.  A record read from its files has no domains and a renewed one
\* has those of its order, so every order is for the one name of its directory.
DomainsToRenew(n, d) == IF domains[n][d] = {} THEN {d} ELSE domains[n][d]

\* The lock of the domain, and the second look: it reads this node's own storage,
\* which nobody else writes, so what was due still is.
LockDomain(n) ==
  LET d == task[n].dom IN
  /\ At(n, "lock")
  /\ \/ /\ Acquire(n, d)
        /\ IF d \in due[n]
           THEN task' = [task EXCEPT ![n].pc = "issue", ![n].providers = Providers,
                                     ![n].names = DomainsToRenew(n, d)]
           ELSE Goto(n, "release")
     \/ AcquireFails(n, d) /\ Goto(n, "scan")
  /\ UNCHANGED <<due, domains, challenges>>

-----------------------------------------------------------------------------
(* issue and issue_with_provider *)

\* Mutant: after the last provider the scan goes on without release.
GivesUpLocked(n) ==
  /\ At(n, "issue")
  /\ \/ \E p \in task[n].providers :
          task' = [task EXCEPT ![n].providers = @ \ {p}, ![n].pc = "order",
                               ![n].tokens = {}, ![n].pending = {}]
     \/ task[n].providers = {} /\ Goto(n, "scan")
  /\ UNCHANGED <<lockVars, due, domains, challenges>>

\* The next provider; after the last one AllProvidersFailed is reported.
TryProvider(n) ==
  /\ At(n, "issue")
  /\ \/ \E p \in task[n].providers :
          task' = [task EXCEPT ![n].providers = @ \ {p}, ![n].pc = "order",
                               ![n].tokens = {}, ![n].pending = {}]
     \/ task[n].providers = {} /\ Goto(n, "release")
  /\ UNCHANGED <<lockVars, due, domains, challenges>>

\* get_or_create_account, new_order, authorizations; authorizations that are
\* valid already need no challenge.
NewOrder(n) ==
  /\ At(n, "order")
  /\ \/ \E valid \in SUBSET task[n].names :
          task' = [task EXCEPT ![n].pc = "authorize", ![n].pending = task[n].names \ valid]
     \/ Goto(n, "issue")
  /\ UNCHANGED <<lockVars, due, domains, challenges>>

\* set_challenge, and the call that tells the server.
SetChallenge(n, name) ==
  /\ At(n, "authorize") /\ name \in task[n].pending
  /\ challenges' = [challenges EXCEPT ![n] = @ \cup {name}]
  /\ task' = [task EXCEPT ![n].tokens = @ \cup {name}, ![n].pending = @ \ {name}, ![n].pc = "ready"]
  /\ UNCHANGED <<lockVars, due, domains>>

\* The server offers no HTTP-01 challenge: the error returns without
\* cleanup_challenges, which leaves the tokens of the names before.
NoHttp01(n, name) ==
  /\ At(n, "authorize") /\ name \in task[n].pending
  /\ Goto(n, "issue")
  /\ UNCHANGED <<lockVars, due, domains, challenges>>

cleanup_challenges(n) == challenges' = [challenges EXCEPT ![n] = @ \ task[n].tokens]

\* Mutant: a failed order leaves its tokens in the store.
FailsUncleaned(n) == Goto(n, "issue") /\ UNCHANGED challenges

Fails(n) == Goto(n, "issue") /\ cleanup_challenges(n)

\* set_challenge_ready.
Ready(n) ==
  /\ At(n, "ready")
  /\ Fails(n) \/ (Goto(n, "authorize") /\ UNCHANGED challenges)
  /\ UNCHANGED <<lockVars, due, domains>>

\* All challenges are set: refresh until the order is ready.  Invalid, an error
\* and 300 s of polling fail it; a pending order is asked for again.
Poll(n) ==
  /\ At(n, "authorize") /\ task[n].pending = {}
  /\ Fails(n) \/ (Goto(n, "finalize") /\ cleanup_challenges(n))
  /\ UNCHANGED <<lockVars, due, domains>>

\* The request, finalize and the download; the tokens are gone by then.
Finalize(n) ==
  /\ At(n, "finalize")
  /\ Goto(n, "issue") \/ Goto(n, "store")
  /\ UNCHANGED <<lockVars, due, domains, challenges>>

\* put and invalidate, see CertStore; the webhook is in AdminTasks.
StoreCert(n) ==
  LET d == task[n].dom IN
  /\ At(n, "store")
  /\ due' = [due EXCEPT ![n] = @ \ {d}]
  /\ domains' = [domains EXCEPT ![n][d] = task[n].names]
  /\ Goto(n, "release")
  /\ UNCHANGED <<lockVars, challenges>>

ReleaseDomain(n) ==
  /\ At(n, "release")
  /\ Release(n, task[n].dom)
  /\ Goto(n, "scan")
  /\ UNCHANGED <<due, domains, challenges>>

-----------------------------------------------------------------------------

\* load_all reads the certificates back; their domains are not on the disk.
Restart(n) ==
  /\ Dies(n)
  /\ domains' = [domains EXCEPT ![n] = [d \in Domains |-> {}]]
  /\ challenges' = [challenges EXCEPT ![n] = {}]
  /\ task' = [task EXCEPT ![n] = NoTask]
  /\ UNCHANGED due

KeyExpires(k) == Expire(k) /\ UNCHANGED certVars

Renewal(n) ==
  \/ CheckAndRenew(n) \/ ScanEnds(n) \/ LockDomain(n) \/ TryProvider(n) \/ NewOrder(n)
  \/ Ready(n) \/ Poll(n) \/ Finalize(n) \/ StoreCert(n) \/ ReleaseDomain(n)
  \/ \E d \in Domains : Visit(n, d)
  \/ \E name \in Domains : SetChallenge(n, name) \/ NoHttp01(n, name)

Next ==
  \/ \E n \in Nodes : Renewal(n) \/ Restart(n) \/ \E d \in Domains : FallsDue(n, d)
  \/ \E k \in Keys : KeyExpires(k)

Spec == Init /\ [][Next]_vars

-----------------------------------------------------------------------------
(* Properties *)

\* While an order is being authorized every token it published is in the store, so
\* that the server can fetch it, and however the order ends none of them is left:
\* also where the server offers no HTTP-01 challenge and the order returns without
\* cleanup_challenges (acme.rs 246-252), because check_and_renew orders one name at
\* a time and no token has been set by then.
TokensFollowOrder ==
  \A n \in Nodes :
    challenges[n] = IF task[n].pc \in {"authorize", "ready"} THEN task[n].tokens ELSE {}

\* Whichever provider, order or call fails, the lock of a domain is given back before
\* the scan goes on to the next one, and the scan lock at its end: a scan holds the
\* scan lock, and the lock of a domain just while it deals with it (renewal.rs
\* 60-185).  A lock kept would block the domain until it expires.
LocksFollowScan ==
  \A n \in Nodes :
    held[n] = CASE At(n, "idle") -> {}
                [] task[n].pc \in {"scan", "lock"} -> {Scan}
                [] OTHER -> {Scan, task[n].dom}
=============================================================================
