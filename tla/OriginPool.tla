---------------------------- MODULE OriginPool ----------------------------
(***************************************************************************)
(* The origins of one site: their shared health record (health.rs), the      *)
(* active probes that a supervisor keeps running (health_probe.rs), and the   *)
(* requests that select an origin, connect, retry and report back            *)
(* (balancer.rs; upstream_peer, fail_to_connect and logging in proxy.rs).     *)
(* Which candidate the load-balancing algorithm returns is left open: every   *)
(* algorithm returns some candidate, so weights and response statistics only  *)
(* change how likely each is.  Pingora, which calls the handlers, is external.*)
(***************************************************************************)
EXTENDS Integers, FiniteSets

CONSTANTS
  Origins,     \* origin ids
  Backups,     \* those with backup = true
  Requests,    \* client requests of a behaviour
  None,        \* no origin selected
  Retries,     \* site.load_balancer.retries
  PassiveDown, \* HealthChecker.unhealthy_threshold
  PassiveUp,   \* HealthChecker.healthy_threshold
  ProbeDown,   \* ProbeTarget.unhealthy_threshold
  ProbeUp,     \* ProbeTarget.healthy_threshold
  Orders,      \* what else may happen: "config", "override", "panic"
  MaxFlips,    \* bound on changes of what the origins answer
  MaxClosed,   \* bound on kept-alive connections found closed
  MaxOrders    \* bound on config changes, health overrides and probe panics

ASSUME PoolAssumption == Backups \subseteq Origins /\ None \notin Origins
ASSUME ThresholdAssumption ==
  /\ PassiveDown \in Nat \ {0} /\ PassiveUp \in Nat \ {0}
  /\ ProbeDown \in Nat \ {0} /\ ProbeUp \in Nat \ {0}
ASSUME BoundsAssumption ==
  Retries \in Nat /\ MaxFlips \in Nat /\ MaxClosed \in Nat /\ MaxOrders \in Nat

VARIABLES
  up,      \* the origins that accept connections (environment)
  config,  \* live site config: health_check.enabled and the enabled origins
  health,  \* HealthChecker.state
  probe,   \* per origin: the probe task and its private ProbeState
  conns,   \* DynamicBalancer.active_conns
  req,     \* per request: its phase and what ProxyCtx holds
  flips,   \* changes of `up` so far
  closed,  \* kept-alive connections found closed so far
  orders,  \* operator actions and panics so far
  faulty,  \* origins that ever failed, or were overridden (history variable)
  left,    \* origins a client ever left (history variable)
  stale,   \* origins charged for a request that had moved on (history variable)
  dropped  \* per origin: attempts that a later one replaced (history variable)

env  == <<up, flips, closed>>
hist == <<faulty, left, stale, dropped>>
ops  == <<config, orders>>
vars == <<up, config, health, probe, conns, req, flips, closed, orders,
          faulty, left, stale, dropped>>

-----------------------------------------------------------------------------
(* HealthChecker.  A counter is only ever compared with its threshold, so it *)
(* is kept no higher than that.                                              *)

Bump(n, cap) == IF n < cap THEN n + 1 ELSE n

Healthy == [healthy |-> TRUE, failures |-> 0, successes |-> 0]

RecordSuccess(h) ==
  LET n == Bump(h.successes, PassiveUp)
  IN  [healthy |-> h.healthy \/ n >= PassiveUp, failures |-> 0, successes |-> n]

RecordFailure(h) ==
  LET n == Bump(h.failures, PassiveDown)
  IN  [healthy |-> h.healthy /\ n < PassiveDown, failures |-> n, successes |-> 0]

SetStatus(b) == [healthy |-> b, failures |-> 0, successes |-> 0]

-----------------------------------------------------------------------------
(* A probe task: not running, running, or ended by a panic; with a request on *)
(* the wire or between two ticks.                                            *)

NoProbe == [run |-> "off", answer |-> "idle", healthy |-> TRUE, failures |-> 0, successes |-> 0]
Started == [NoProbe EXCEPT !.run = "on"]

\* ProbeState after a successful and after a failed probe.
ProbeOk(p) ==
  LET n == Bump(p.successes, ProbeUp)
  IN  [p EXCEPT !.answer = "idle", !.failures = 0, !.successes = n,
                !.healthy = p.healthy \/ n >= ProbeUp]

ProbeBad(p) ==
  LET n == Bump(p.failures, ProbeDown)
  IN  [p EXCEPT !.answer = "idle", !.successes = 0, !.failures = n,
                !.healthy = p.healthy /\ n < ProbeDown]


\* update_probe_state writes the shared record only when its own view changes.
Published(h, before, after) == IF before # after THEN SetStatus(after) ELSE h

\* compute_desired_probes.
Desired == IF config.checked THEN config.enabled ELSE {}

-----------------------------------------------------------------------------
Idle == [pc |-> "start", site |-> {}, choice |-> None, origin |-> None, tried |-> 0, ok |-> TRUE]

Init ==
  /\ up = Origins
  /\ config = [checked |-> TRUE, enabled |-> Origins]
  /\ health = [o \in Origins |-> Healthy]
  /\ probe = [o \in Origins |-> NoProbe]
  /\ conns = [o \in Origins |-> 0]
  /\ req = [r \in Requests |-> Idle]
  /\ flips = 0 /\ closed = 0 /\ orders = 0
  /\ faulty = {} /\ left = {} /\ stale = {}
  /\ dropped = [o \in Origins |-> 0]

(* The environment: an origin goes down or comes back. *)
Flip(o) ==
  /\ flips < MaxFlips
  /\ flips' = flips + 1
  /\ up' = IF o \in up THEN up \ {o} ELSE up \cup {o}
  /\ faulty' = faulty \cup {o}
  /\ UNCHANGED <<closed, ops, health, probe, conns, req, left, stale, dropped>>

(* The operator: a new site config arrives, or PUT /_admin/upstream/health. *)
Reconfigure ==
  /\ orders < MaxOrders /\ "config" \in Orders
  /\ orders' = orders + 1
  /\ config' \in [checked : BOOLEAN, enabled : SUBSET Origins]
  /\ UNCHANGED <<env, health, probe, conns, req, hist>>

SetUpstreamHealth(o, b) ==
  /\ orders < MaxOrders /\ "override" \in Orders
  /\ orders' = orders + 1
  /\ health' = [health EXCEPT ![o] = SetStatus(b)]
  /\ faulty' = faulty \cup {o}
  /\ UNCHANGED <<env, config, probe, conns, req, left, stale, dropped>>

-----------------------------------------------------------------------------
(* The probes. *)

\* One pass of the supervisor: abort what is no longer desired, drop what has
\* ended, spawn what is missing.
Reconcile ==
  /\ probe' = [o \in Origins |->
                 IF o \notin Desired THEN NoProbe
                 ELSE IF probe[o].run = "on" THEN probe[o] ELSE Started]
  /\ UNCHANGED <<env, ops, health, conns, req, hist>>

ProbePanics(o) ==
  /\ probe[o].run = "on"
  /\ orders < MaxOrders /\ "panic" \in Orders
  /\ orders' = orders + 1
  /\ probe' = [probe EXCEPT ![o].run = "ended"]
  /\ UNCHANGED <<env, config, health, conns, req, hist>>

\* The origin is asked; its answer is read when the await returns.
ProbeTick(o) ==
  /\ probe[o].run = "on" /\ probe[o].answer = "idle"
  /\ probe' = [probe EXCEPT ![o].answer = IF o \in up THEN "ok" ELSE "failed"]
  /\ UNCHANGED <<env, ops, health, conns, req, hist>>

UpdateProbeState(o) ==
  /\ probe[o].run = "on" /\ probe[o].answer # "idle"
  /\ LET p == IF probe[o].answer = "ok" THEN ProbeOk(probe[o]) ELSE ProbeBad(probe[o])
     IN  /\ probe' = [probe EXCEPT ![o] = p]
         /\ health' = [health EXCEPT ![o] = Published(@, probe[o].healthy, p.healthy)]
  /\ UNCHANGED <<env, ops, conns, req, hist>>

Probing(o) == ProbeTick(o) \/ UpdateProbeState(o)

-----------------------------------------------------------------------------
(* Requests. *)

To(r, p) == req' = [req EXCEPT ![r].pc = p]

\* The request keeps the site config it matched.
Start(r) ==
  /\ req[r].pc = "start"
  /\ req' = [req EXCEPT ![r].pc = "select", ![r].site = config.enabled]
  /\ UNCHANGED <<env, ops, health, probe, conns, hist>>

\* select_peer: healthy primaries, else healthy backups.
Candidates(site) ==
  LET alive == {o \in site : health[o].healthy}
  IN  IF alive \ Backups # {} THEN alive \ Backups ELSE alive \cap Backups

SelectPeer(r) ==
  /\ req[r].pc = "select"
  /\ \E o \in Candidates(req[r].site) :
       req' = [req EXCEPT ![r].pc = "resolve", ![r].choice = o]
  /\ UNCHANGED <<env, ops, health, probe, conns, hist>>

\* No candidate, or the name of the one chosen does not resolve: the request
\* fails with what ctx.selected_origin held before.
SelectFails(r) ==
  /\ \/ req[r].pc = "select" /\ Candidates(req[r].site) = {}
     \/ req[r].pc = "resolve"
  /\ req' = [req EXCEPT ![r].pc = "logging", ![r].ok = FALSE]
  /\ stale' = stale \cup ({req[r].origin} \ {None})
  /\ UNCHANGED <<env, ops, health, probe, conns, faulty, left, dropped>>

\* conn_inc, then ctx.selected_origin; what an earlier attempt counted is not
\* given back.
UpstreamPeer(r) ==
  /\ req[r].pc = "resolve"
  /\ conns' = [conns EXCEPT ![req[r].choice] = @ + 1]
  /\ req' = [req EXCEPT ![r].pc = "connect", ![r].origin = req[r].choice]
  /\ dropped' = [o \in Origins |-> dropped[o] + IF o = req[r].origin THEN 1 ELSE 0]
  /\ UNCHANGED <<env, ops, health, probe, faulty, left, stale>>

Connects(r) ==
  /\ req[r].pc = "connect" /\ req[r].origin \in up
  /\ To(r, "exchange")
  /\ UNCHANGED <<env, ops, health, probe, conns, hist>>

\* Whether n failed attempts leave another.
TriesLeft(n) == n < Retries

FailToConnect(r) ==
  /\ req[r].pc = "connect" /\ req[r].origin \notin up
  /\ health' = [health EXCEPT ![req[r].origin] = RecordFailure(@)]
  /\ LET tried == req[r].tried + 1
         again == TriesLeft(tried)
     IN  req' = [req EXCEPT ![r].tried = tried,
                            ![r].pc = IF again THEN "select" ELSE "logging",
                            ![r].ok = again]
  /\ UNCHANGED <<env, ops, probe, conns, hist>>

\* A kept-alive connection turns out closed, whatever the state of its origin:
\* Pingora asks for a peer again without calling fail_to_connect (external).
ReusedClosed(r) ==
  /\ req[r].pc = "exchange" /\ closed < MaxClosed
  /\ closed' = closed + 1
  /\ To(r, "select")
  /\ UNCHANGED <<up, flips, ops, health, probe, conns, hist>>

\* The exchange ends: a status below 500, a 5xx of the origin, or the client
\* leaves before a status is written.
Answered(r) ==
  /\ req[r].pc = "exchange"
  /\ To(r, "logging")
  /\ UNCHANGED <<env, ops, health, probe, conns, hist>>

ServerError(r) ==
  /\ req[r].pc = "exchange"
  /\ req' = [req EXCEPT ![r].pc = "logging", ![r].ok = FALSE]
  /\ faulty' = faulty \cup {req[r].origin}
  /\ UNCHANGED <<env, ops, health, probe, conns, left, stale, dropped>>

ClientLeaves(r) ==
  /\ req[r].pc = "exchange"
  /\ req' = [req EXCEPT ![r].pc = "logging", ![r].ok = FALSE]
  /\ left' = left \cup {req[r].origin}
  /\ UNCHANGED <<env, ops, health, probe, conns, faulty, stale, dropped>>

\* Mutant: the outcome is charged to the last origin chosen, reached or not.
ChargedToChoice(r) == req[r].choice

\* The origin the outcome and the connection are charged to.
Charged(r) == req[r].origin

\* Mutant: the connection is given back twice.
DecTwice(n) == IF n > 1 THEN n - 2 ELSE 0

\* conn_dec saturates.
ConnDec(n) == IF n > 0 THEN n - 1 ELSE n

Logging(r) ==
  /\ req[r].pc = "logging"
  /\ To(r, "done")
  /\ IF Charged(r) = None
     THEN UNCHANGED <<health, conns>>
     ELSE LET o == Charged(r)
          IN  /\ health' = [health EXCEPT ![o] = IF req[r].ok THEN RecordSuccess(@)
                                                            ELSE RecordFailure(@)]
              /\ conns' = [conns EXCEPT ![o] = ConnDec(@)]
  /\ UNCHANGED <<env, ops, probe, hist>>

Serve(r) ==
  \/ Start(r) \/ SelectPeer(r) \/ SelectFails(r) \/ UpstreamPeer(r)
  \/ Connects(r) \/ FailToConnect(r) \/ ReusedClosed(r)
  \/ Answered(r) \/ ServerError(r) \/ ClientLeaves(r) \/ Logging(r)

Next ==
  \/ \E o \in Origins : Flip(o) \/ ProbePanics(o) \/ Probing(o)
  \/ \E o \in Origins, b \in BOOLEAN : SetUpstreamHealth(o, b)
  \/ Reconfigure
  \/ Reconcile
  \/ \E r \in Requests : Serve(r)

Spec == Init /\ [][Next]_vars

\* The supervisor's timer and every probe's interval keep firing, and a probe has
\* a time-out.  Nothing is assumed of requests: a stream may stay open for good.
Fairness ==
  /\ WF_vars(Reconcile)
  /\ \A o \in Origins : WF_vars(Probing(o))

FairSpec == Spec /\ Fairness

-----------------------------------------------------------------------------
(* Properties. *)

Records == [healthy : BOOLEAN, failures : 0..PassiveDown, successes : 0..PassiveUp]
Phases  == {"start", "select", "resolve", "connect", "exchange", "logging", "done"}

MaxTries == IF Retries = 0 THEN 1 ELSE Retries

\* Every variable has its type; a request never tries more than `retries` times
\* (and once when it is 0), and an origin is never charged before it is chosen.
TypeOK ==
  /\ up \subseteq Origins /\ faulty \subseteq Origins /\ left \subseteq Origins
  /\ config \in [checked : BOOLEAN, enabled : SUBSET Origins]
  /\ health \in [Origins -> Records]
  /\ probe \in [Origins -> [run : {"off", "on", "ended"}, answer : {"idle", "ok", "failed"},
                            healthy : BOOLEAN, failures : 0..ProbeDown, successes : 0..ProbeUp]]
  /\ conns \in [Origins -> Nat]
  /\ req \in [Requests -> [pc : Phases, site : SUBSET Origins, choice : Origins \cup {None},
                           origin : Origins \cup {None}, tried : 0..MaxTries, ok : BOOLEAN]]
  /\ flips \in 0..MaxFlips /\ orders \in 0..MaxOrders

\* A verdict agrees with the streak behind it, whichever of the requests, the
\* probe and the operator wrote it: a streak of failures as long as the passive
\* threshold means down, one of successes means up, and never both at once.
VerdictMatchesStreak ==
  \A o \in Origins :
    LET h == health[o]
    IN  /\ h.failures >= PassiveDown => ~h.healthy
        /\ h.successes >= PassiveUp => h.healthy
        /\ h.failures = 0 \/ h.successes = 0

\* The requests that reached an origin and are not logged yet.
Holding(o) == {r \in Requests : req[r].origin = o /\ req[r].pc # "done"}

\* The count that least-connections balancing reads is, over all retries, closed
\* connections, failures and the saturating conn_dec, the requests that hold the
\* origin and the attempts that a later one replaced: logging gives back only
\* the last (proxy.rs 868-872, 1793-1797).
ConnsAccounted ==
  \A o \in Origins : conns[o] = Cardinality(Holding(o)) + dropped[o]

\* Passive health charges the origin at fault: one that was never down, sent no
\* 5xx, was never overridden and was left by no client is unhealthy only if a
\* request that had moved on from it failed to find another (proxy.rs 1762-1775).
FaultTraced == \A o \in Origins \ (faulty \cup left \cup stale) : health[o].healthy

\* The same without the exception, which the code does not keep: a closed kept-alive
\* connection and a retry that finds no peer charge an origin without fault, though
\* record_failure is for a failed response from an origin (health.rs 101).
NoFalseVerdict == \A o \in Origins \ (faulty \cup left) : health[o].healthy


=============================================================================
