------------------------------ MODULE AIUsage ------------------------------
(***************************************************************************)
(* Admission of AI requests by the API (beginAIUsage of                    *)
(* apps/api/internal/http/ai_access.go) and the two handlers that hold the *)
(* lease it returns, for one feature ('copilot' or 'executive_briefing').  *)
(*                                                                         *)
(* The rows of ai_usage_events are counted and the new one is inserted in  *)
(* one transaction under two advisory locks, of the account and of the     *)
(* feature.  Each statement of it is a step.  NOW() is the time at which   *)
(* the transaction began, before it waits for the locks; so created_at of  *)
(* the new row lies in the past, and rows may be inserted out of order.    *)
(***************************************************************************)
EXTENDS Integers, FiniteSets

CONSTANTS
  Users,
  Requests,    \* requests that may be open or done, each makes one row
  UserLimit,   \* limits per account: PerMinute, PerDay, Concurrent
  GlobalLimit, \* and of the feature; 0 is no limit
  Minute,      \* one minute, in ticks
  Day,         \* one day
  Stale,       \* aiUsageStaleAfter
  MaxTime      \* bound: the last tick

Limits == [minute : Nat, day : Nat, running : Nat]

ASSUME UsageAssumption ==
  /\ IsFiniteSet(Requests)
  /\ UserLimit \in Limits
  /\ GlobalLimit \in Limits
  /\ Minute \in Nat
  /\ Day \in Nat \ {0}
  /\ Stale \in Nat
  /\ MaxTime \in Nat

VARIABLES
  clock,
  owner,    \* the account of each request
  request,  \* the handler: its phase, and the NOW() of its transaction
  usage     \* ai_usage_events, by request

vars == <<clock, owner, request, usage>>

Times == 0..MaxTime
Counting == {"user", "ready", "admitted"}  \* holding the lock of the account
Phases == {"idle", "opened", "running", "done"} \cup Counting

Init ==
  /\ clock = 0
  /\ owner \in [Requests -> Users]
  /\ request = [r \in Requests |-> [phase |-> "idle", now |-> 0]]
  /\ usage = [r \in Requests |-> [status |-> "none", created |-> 0]]

Enter(r, phase) ==
  /\ request' = [request EXCEPT ![r].phase = phase]
  /\ UNCHANGED <<clock, owner>>

---------------------------------------------------------------------------
(* beginAIUsage. *)

Begin(r) ==
  /\ request[r].phase = "idle"
  /\ request' = [request EXCEPT ![r] = [phase |-> "opened", now |-> clock]]
  /\ UNCHANGED <<clock, owner, usage>>

\* pg_advisory_xact_lock of user:feature.
UserLockFree(r) ==
  \A q \in Requests : request[q].phase \in Counting => owner[q] # owner[r]

LockUser(r) ==
  /\ request[r].phase = "opened"
  /\ UserLockFree(r)
  /\ Enter(r, "user")
  /\ UNCHANGED usage

GloballyLimited == \E kind \in DOMAIN GlobalLimit : GlobalLimit[kind] > 0

\* pg_advisory_xact_lock of global:feature.
GlobalLockFree == \A q \in Requests : request[q].phase \notin {"ready", "admitted"}

LockGlobal(r) ==
  /\ request[r].phase = "user"
  /\ GloballyLimited => GlobalLockFree
  /\ Enter(r, "ready")
  /\ UNCHANGED usage

Rows == {r \in Requests : usage[r].status # "none"}

\* Mutant: the minute is open at its start.
OpenMinute(group, now) == {r \in group \cap Rows : usage[r].created > now - Minute}

\* The rows of a group of requests that a statement with this NOW() counts.
InMinute(group, now) == {r \in group \cap Rows : usage[r].created >= now - Minute}

\* Mutant: the day is that of the count and not that of the row to come.
DayOfCount(group, now) == {r \in group \cap Rows : usage[r].created >= (clock \div Day) * Day}

InDay(group, now) == {r \in group \cap Rows : usage[r].created >= (now \div Day) * Day}

\* Mutant: a lease is thought dead after half the time.
HalfStale(group, now) ==
  {r \in group \cap Rows : usage[r].status = "started" /\ usage[r].created >= now - Stale \div 2}

Active(group, now) ==
  {r \in group \cap Rows : usage[r].status = "started" /\ usage[r].created >= now - Stale}

Below(limit, counted) == limit = 0 \/ Cardinality(counted) < limit

Admits(limit, group, now) ==
  /\ Below(limit.minute, InMinute(group, now))
  /\ Below(limit.day, InDay(group, now))
  /\ Below(limit.running, Active(group, now))

SameUser(r) == {q \in Requests : owner[q] = owner[r]}

WithinLimits(r) ==
  /\ Admits(UserLimit, SameUser(r), request[r].now)
  /\ Admits(GlobalLimit, Requests, request[r].now)

\* The six counts in one statement; 429 when a limit is reached.
Count(r) ==
  /\ request[r].phase = "ready"
  /\ Enter(r, IF WithinLimits(r) THEN "admitted" ELSE "done")
  /\ UNCHANGED usage

\* The row is inserted and the transaction committed; the locks are free.
Insert(r) ==
  /\ request[r].phase = "admitted"
  /\ usage' = [usage EXCEPT ![r] = [status |-> "started", created |-> request[r].now]]
  /\ Enter(r, "running")

\* The client goes away or the database fails: the transaction rolls back.
Abandon(r) ==
  /\ request[r].phase \in {"opened"} \cup Counting
  /\ Enter(r, "done")
  /\ UNCHANGED usage

---------------------------------------------------------------------------
(* The handlers: AIExecutiveBriefingStream and AICopilotChat. *)

\* Mutant: a status of its own, which no count and no constraint knows.
FinishOtherwise(r) ==
  /\ request[r].phase = "running"
  /\ usage' = [usage EXCEPT ![r].status = "ended"]
  /\ Enter(r, "done")

\* The deferred lease.Finish, 'completed' or 'failed'.
Finish(r) ==
  /\ request[r].phase = "running"
  /\ usage' = [usage EXCEPT ![r].status = "finished"]
  /\ Enter(r, "done")

\* The process dies, or the error of Finish is ignored: the row stays.
LoseLease(r) ==
  /\ request[r].phase = "running"
  /\ Enter(r, "done")
  /\ UNCHANGED usage

\* A request ends before its lease is stale: the Mastra client gives up after
\* 150 seconds by default.
EndsInTime(r) ==
  request[r].phase \notin {"idle", "done"} => clock < request[r].now + Stale

Tick ==
  /\ clock < MaxTime
  /\ \A r \in Requests : EndsInTime(r)
  /\ clock' = clock + 1
  /\ UNCHANGED <<owner, request, usage>>

Handle(r) ==
  \/ Begin(r) \/ LockUser(r) \/ LockGlobal(r) \/ Count(r) \/ Insert(r) \/ Abandon(r)
  \/ Finish(r) \/ LoseLease(r)

Next == Tick \/ \E r \in Requests : Handle(r)

Spec == Init /\ [][Next]_vars

---------------------------------------------------------------------------
(* Properties. *)

\* Every variable has its type.
TypeOK ==
  /\ clock \in Times
  /\ owner \in [Requests -> Users]
  /\ request \in [Requests -> [phase : Phases, now : Times]]
  /\ usage \in [Requests -> [status : {"none", "started", "finished"}, created : Times]]

\* The requests a limit is about: those of one account, or all.
Within(limit, set) == limit = 0 \/ Cardinality(set) <= limit
OfUser(u) == {r \in Requests : owner[r] = u}

InWindow(group, t) == {r \in group \cap Rows : usage[r].created \in t..(t + Minute)}

\* No minute, wherever it begins, has more requests of an account, or of all
\* accounts, than the limit, although requests count with the time at which
\* they began to wait and are inserted out of that order.
MinuteIsBounded ==
  \A t \in Times :
    /\ \A u \in Users : Within(UserLimit.minute, InWindow(OfUser(u), t))
    /\ Within(GlobalLimit.minute, InWindow(Requests, t))

OnDay(group, d) == {r \in group \cap Rows : usage[r].created \div Day = d}

\* No calendar day has more requests than the limit, also when the request
\* waits for the locks at midnight.
DayIsBounded ==
  \A d \in Times :
    /\ \A u \in Users : Within(UserLimit.day, OnDay(OfUser(u), d))
    /\ Within(GlobalLimit.day, OnDay(Requests, d))

Running(group) == {r \in group : request[r].phase = "running"}

\* No account, and not all of them together, has more handlers at work on the
\* paid upstream than the limit, whatever became of the leases of earlier ones.
RunningIsBounded ==
  /\ \A u \in Users : Within(UserLimit.running, Running(OfUser(u)))
  /\ Within(GlobalLimit.running, Running(Requests))

=============================================================================
