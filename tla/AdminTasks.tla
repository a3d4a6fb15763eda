---------------------------- MODULE AdminTasks -----------------------------
(***************************************************************************)
(* The site purges of the admin API (cdn-proxy/src/admin): the requests      *)
(* (endpoints.rs), the tasks (purge.rs) and the webhook that reports their   *)
(* end (webhook.rs), each with its in-memory tracker.  One site is modelled; *)
(* purge requests for it may overlap.                                        *)
(***************************************************************************)
EXTENDS Naturals

CONSTANTS
  Purges,       \* purge requests, each with the task it may start
  MaxRetries    \* of a webhook delivery

VARIABLES
  purge,        \* purge[p]: where request and task p are
  tracker,      \* tracker[p]: PurgeTaskTracker
  settledAt,    \* settledAt[p]: "recent", or "old" an hour later
  delivery,     \* delivery[p]: WebhookDeliveryTracker, and the loop behind it
  overlap       \* ghost: purges whose check ran before another's insert

vars == <<purge, tracker, settledAt, delivery, overlap>>

\* status and attempts are the tracked entry, tried counts the requests made.
NoDelivery == [pc |-> "none", status |-> "absent", attempts |-> 0, tried |-> 0]

Init ==
  /\ purge = [p \in Purges |-> "idle"]
  /\ tracker = [p \in Purges |-> "absent"]
  /\ settledAt = [p \in Purges |-> "recent"]
  /\ delivery = [p \in Purges |-> NoDelivery]
  /\ overlap = {}

-----------------------------------------------------------------------------
(* Site purges *)

has_active_for_site == \E p \in Purges : tracker[p] = "Running"

\* purge_cache, PurgeRequest::Site: an invalid or unknown site, or a purge that is
\* running, ends the request (400, 404, 409).
PurgeRequested(p) ==
  /\ purge[p] = "idle"
  /\ purge' = [purge EXCEPT ![p] = IF has_active_for_site THEN "refused" ELSE "checked"]
  /\ UNCHANGED <<tracker, settledAt, delivery, overlap>>

PurgeInvalid(p) ==
  /\ purge[p] = "idle"
  /\ purge' = [purge EXCEPT ![p] = "refused"]
  /\ UNCHANGED <<tracker, settledAt, delivery, overlap>>

\* Mutant: retain looks at the age alone.
EvictsByAge(q) == settledAt[q] = "recent" /\ tracker[q] # "Running"

\* Kept by insert: running, or settled within the hour.
Retained(q) == tracker[q] = "Running" \/ settledAt[q] = "recent"

\* insert and spawn; nothing holds the tracker between the check and the insert.
PurgeStarts(p) ==
  /\ purge[p] = "checked"
  /\ purge' = [purge EXCEPT ![p] = "scanning"]
  /\ tracker' = [q \in Purges |-> IF q = p THEN "Running"
                                  ELSE IF Retained(q) THEN tracker[q] ELSE "absent"]
  /\ overlap' = overlap \cup {q \in Purges : purge[q] = "checked" /\ q # p}
  /\ UNCHANGED <<settledAt, delivery>>

\* purge_site_inner: the keys SCAN finds are deleted, without any the objects are
\* listed; deleting or listing may fail.
PurgeScan(p) ==
  /\ purge[p] = "scanning"
  /\ purge' \in {[purge EXCEPT ![p] = s] : s \in {"delete_many", "oss_only"}}
  /\ UNCHANGED <<tracker, settledAt, delivery, overlap>>

\* Mutant: a purge that fails is only logged.
FailureUntracked(p, result) ==
  IF result = "Failed" THEN tracker ELSE [tracker EXCEPT ![p] = result]

Updated(p, result) == [tracker EXCEPT ![p] = IF @ = "absent" THEN @ ELSE result]

\* update_completed or update_failed, then dispatch: a delivery is spawned when the
\* site has a webhook.
PurgeSettles(p) ==
  /\ purge[p] \in {"delete_many", "oss_only"}
  /\ purge' = [purge EXCEPT ![p] = "settled"]
  /\ \E result \in {"Completed", "Failed"} : tracker' = Updated(p, result)
  /\ delivery' \in {delivery, [delivery EXCEPT ![p].pc = "spawned"]}
  /\ UNCHANGED <<settledAt, overlap>>

\* An hour passes after the task has settled.
HourPasses(p) ==
  /\ purge[p] = "settled" /\ settledAt[p] = "recent"
  /\ settledAt' = [settledAt EXCEPT ![p] = "old"]
  /\ UNCHANGED <<purge, tracker, delivery, overlap>>

-----------------------------------------------------------------------------
(* Webhook deliveries *)

\* deliver_webhook registers the delivery; entries older than an hour go, pending
\* ones too.
DeliveryStarts(p) ==
  /\ delivery[p].pc = "spawned"
  /\ delivery' = [q \in Purges |->
       IF q = p THEN [delivery[q] EXCEPT !.pc = "attempt", !.status = "Pending"]
       ELSE IF settledAt[q] = "old" THEN [delivery[q] EXCEPT !.status = "absent"]
       ELSE delivery[q]]
  /\ UNCHANGED <<purge, tracker, settledAt, overlap>>

\* The update_ functions do nothing when the entry was evicted.
Marked(d, status, n) ==
  IF d.status = "absent" THEN d ELSE [d EXCEPT !.status = status, !.attempts = n]

\* for attempt in 0..=max_retries has come to its end.
Exhausted(n) == n = MaxRetries + 1

\* One request.  Success ends the delivery and leaves attempts as it was; any other
\* answer, or none, is counted and retried.
Attempt(p) ==
  LET n == delivery[p].tried + 1
      d == [delivery[p] EXCEPT !.tried = n]
      end == [d EXCEPT !.pc = "done"]
  IN
  /\ delivery[p].pc = "attempt"
  /\ \/ delivery' = [delivery EXCEPT ![p] = Marked(end, "Delivered", d.attempts)]
     \/ /\ ~Exhausted(n)
        /\ delivery' = [delivery EXCEPT ![p] = Marked(d, "Pending", n)]
     \/ /\ Exhausted(n)
        /\ delivery' = [delivery EXCEPT ![p] = Marked(end, "Failed", MaxRetries + 1)]
  /\ UNCHANGED <<purge, tracker, settledAt, overlap>>

-----------------------------------------------------------------------------

Task ==
  \E p \in Purges : \/ PurgeStarts(p) \/ PurgeScan(p) \/ PurgeSettles(p)
                    \/ DeliveryStarts(p) \/ Attempt(p)

Next ==
  \/ Task
  \/ \E p \in Purges : PurgeRequested(p) \/ PurgeInvalid(p) \/ HourPasses(p)

\* The runtime polls the tasks, and a webhook request has a time-out.  Nothing is
\* assumed of the calls a purge makes to Redis and the object store: they have none.
Fairness ==
  WF_vars(\E p \in Purges : PurgeStarts(p) \/ DeliveryStarts(p) \/ Attempt(p))

Spec == Init /\ [][Next]_vars /\ Fairness

-----------------------------------------------------------------------------

\* The purge is with Redis or the object store.
Calling(p) == purge[p] \in {"scanning", "delete_many", "oss_only"}

\* What the status endpoints report is true.  A purge that is under way is listed
\* as running, however many requests and evictions came in between; a second one
\* runs beside it only when both requests were checked before either was inserted.
\* A delivery listed as failed has been tried 1 + max_retries times, as it says.
StatusTrue ==
  /\ \A p \in Purges : Calling(p) => tracker[p] = "Running"
  /\ \A p, q \in Purges : (p # q /\ tracker[p] = "Running" /\ tracker[q] = "Running") =>
       {p, q} \cap overlap # {}
  /\ \A p \in Purges : delivery[p].status = "Failed" =>
       delivery[p].attempts = delivery[p].tried /\ delivery[p].tried > MaxRetries

\* A purge whose calls are answered, well or badly, is not listed as running for
\* ever, and a webhook delivery is never pending for ever (purge.rs, webhook.rs).
TasksSettle ==
  /\ \A p \in Purges : (Calling(p) ~> ~Calling(p)) =>
       ((tracker[p] = "Running") ~> (tracker[p] # "Running"))
  /\ \A p \in Purges : (delivery[p].status = "Pending") ~> (delivery[p].status # "Pending")
=============================================================================
