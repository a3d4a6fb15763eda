----------------------------- MODULE CcLimiter -----------------------------
(***************************************************************************)
(* The rate limiter of one client and URL (cdn-middleware/src/cc): the ban    *)
(* cache, the counter of the current window, the check every request makes,   *)
(* and the counts sent on to Redis.                                           *)
(***************************************************************************)
EXTENDS Naturals, FiniteSetsExt

CONSTANTS
  Requests,
  Rate,        \* of the matching rule, or the defaults
  SyncEvery,   \* increments per Redis update (10)
  MaxWindows,  \* bound: counters created
  MaxCount     \* bound: requests counted in a window

Windows == 1..MaxWindows
Actions == {"Block", "Challenge", "Delay", "Log"}

VARIABLES
  action,      \* the action of the rule
  banned,      \* CcState.blocked holds the client
  window,      \* the window whose counter CcState.counters holds, 0: none
  opened,      \* windows opened so far
  count,       \* count[w]: the counter of window w
  req,         \* req[r]: the check of r, its window and the count it was given
  syncs,       \* Redis updates that have been spawned
  redis,       \* the counter in Redis
  admitted     \* ghost: requests window w has let through as within the rate

vars == <<action, banned, window, opened, count, req, syncs, redis, admitted>>

Idle == [pc |-> "idle", win |-> 0, n |-> 0]

Init ==
  /\ action \in Actions
  /\ banned = FALSE /\ window = 0 /\ opened = 0
  /\ count = [w \in Windows |-> 0]
  /\ req = [r \in Requests |-> Idle]
  /\ syncs = 0 /\ redis = 0
  /\ admitted = [w \in Windows |-> 0]

\* Steps 1 to 3: a banned client is refused, a valid challenge cookie admits.
Begin(r) ==
  /\ req[r] = Idle /\ ~banned
  /\ req' = [req EXCEPT ![r].pc = "entry"]
  /\ UNCHANGED <<action, banned, window, opened, count, syncs, redis, admitted>>

\* increment, first half: the counter in the cache, or a new one.
Entry(r) ==
  /\ req[r].pc = "entry"
  /\ IF window # 0
     THEN UNCHANGED <<window, opened>>
     ELSE /\ opened < MaxWindows
          /\ opened' = opened + 1 /\ window' = opened'
  /\ req' = [req EXCEPT ![r].pc = "add", ![r].win = window']
  /\ UNCHANGED <<action, banned, count, syncs, redis, admitted>>

should_sync_redis(n) == n >= SyncEvery /\ n % SyncEvery = 0

\* increment, second half: fetch_add on the counter that was found, which may have
\* expired from the cache meanwhile.
Add(r) ==
  LET w == req[r].win
      n == count[w] + 1
  IN
  /\ req[r].pc = "add" /\ n <= MaxCount
  /\ count' = [count EXCEPT ![w] = n]
  /\ req' = [req EXCEPT ![r].pc = "judge", ![r].n = n]
  /\ syncs' = IF should_sync_redis(n) THEN syncs + 1 ELSE syncs
  /\ UNCHANGED <<action, banned, window, opened, redis, admitted>>

\* Mutant: the counter is read again.
get_count(r) == IF window = 0 THEN 0 ELSE count[window]

\* The value fetch_add returned.
Counted(r) == req[r].n

\* Step 6: within the rate the request goes on; above it Block bans the client,
\* Challenge, Delay and Log have no state.
Judge(r) ==
  /\ req[r].pc = "judge"
  /\ req' = [req EXCEPT ![r] = Idle]
  /\ IF Counted(r) <= Rate
     THEN admitted' = [admitted EXCEPT ![req[r].win] = @ + 1] /\ UNCHANGED banned
     ELSE banned' = (banned \/ action = "Block") /\ UNCHANGED admitted
  /\ UNCHANGED <<action, window, opened, count, syncs, redis>>

\* The window of the counter, or the ban, has lasted its time; the admin API may
\* lift a ban.
WindowExpires ==
  /\ window # 0 /\ window' = 0
  /\ UNCHANGED <<action, banned, opened, count, req, syncs, redis, admitted>>

BanEnds ==
  /\ banned /\ banned' = FALSE
  /\ UNCHANGED <<action, window, opened, count, req, syncs, redis, admitted>>

\* incr_by_ex: a failure is only logged; the key expires in Redis.
Sync ==
  /\ syncs > 0 /\ syncs' = syncs - 1
  /\ redis' \in {redis, redis + SyncEvery}
  /\ UNCHANGED <<action, banned, window, opened, count, req, admitted>>

RedisExpires ==
  /\ redis # 0 /\ redis' = 0
  /\ UNCHANGED <<action, banned, window, opened, count, req, syncs, admitted>>

Next ==
  \/ WindowExpires \/ BanEnds \/ Sync \/ RedisExpires
  \/ \E r \in Requests : Begin(r) \/ Entry(r) \/ Add(r) \/ Judge(r)

Spec == Init /\ [][Next]_vars

-----------------------------------------------------------------------------

\* A window lets at most the rate through, whichever of its requests are still
\* under way when its counter expires.  What Redis is told never runs ahead of what
\* was counted.
CountersHold ==
  /\ \A w \in Windows : admitted[w] <= Rate
  /\ redis + SyncEvery * syncs <= MapThenSumSet(LAMBDA w : count[w], Windows)
=============================================================================
