--------------------------- MODULE AIUsageProofs ---------------------------
(***************************************************************************)
(* Proofs about AIUsage, for any number of accounts and requests and any   *)
(* limits.                                                                 *)
(*                                                                         *)
(* The argument: the advisory locks keep what a request has counted true   *)
(* until it has inserted its row (Decided below), and what it counts holds *)
(* every row its own would share a minute, a day or an upstream with.      *)
(***************************************************************************)
EXTENDS AIUsage, FiniteSetTheorems, TLAPS

---------------------------------------------------------------------------
(* Counting. *)

\* A set within a limit stays within it when it shrinks.
LEMMA WithinSubset ==
  ASSUME NEW limit \in Nat, NEW B, IsFiniteSet(B), NEW A \in SUBSET B, Within(limit, B)
  PROVE  Within(limit, A)
<1>1. Cardinality(A) <= Cardinality(B) /\ Cardinality(A) \in Nat /\ Cardinality(B) \in Nat
  BY FS_Subset, FS_CardinalityType
<1>2. QED
  BY <1>1 DEF Within

\* One more than what was counted below the limit is within it.
LEMMA OneMore ==
  ASSUME NEW limit \in Nat, NEW counted, IsFiniteSet(counted), Below(limit, counted),
         NEW r, NEW A \in SUBSET (counted \cup {r})
  PROVE  Within(limit, A)
<1> DEFINE all == counted \cup {r}
<1>1. /\ IsFiniteSet(all)
      /\ Cardinality(all) = Cardinality(counted) \/ Cardinality(all) = Cardinality(counted) + 1
  BY FS_AddElement
<1>2. Cardinality(counted) \in Nat /\ Cardinality(all) \in Nat
  BY <1>1, FS_CardinalityType
<1>3. Within(limit, all)
  BY <1>1, <1>2 DEF Below, Within
<1> HIDE DEF all
<1>4. A \in SUBSET all
  BY DEF all
<1>5. QED
  BY <1>1, <1>3, <1>4, WithinSubset

LEMMA FiniteGroups == \A group \in SUBSET Requests : IsFiniteSet(group)
BY UsageAssumption, FS_Subset

\* A time lies after the beginning of its day.
LEMMA DayBegins ==
  ASSUME NEW t \in Nat, NEW d \in Nat \ {0}
  PROVE  t \div d \in Nat /\ (t \div d) * d <= t
OBVIOUS

LEMMA LimitTypes ==
  /\ UserLimit.minute \in Nat /\ UserLimit.day \in Nat /\ UserLimit.running \in Nat
  /\ GlobalLimit.minute \in Nat /\ GlobalLimit.day \in Nat /\ GlobalLimit.running \in Nat
  /\ DOMAIN GlobalLimit = {"minute", "day", "running"}
BY UsageAssumption DEF Limits

---------------------------------------------------------------------------
(* The inductive invariant. *)

\* The two advisory locks.
LocksExclude ==
  \A q, r \in Requests : q # r =>
    /\ request[q].phase \in Counting /\ request[r].phase \in Counting => owner[q] # owner[r]
    /\ GloballyLimited =>
         ~(/\ request[q].phase \in {"ready", "admitted"}
           /\ request[r].phase \in {"ready", "admitted"})

\* A request has a row from its insertion on, with the time it began at.
RowsOfRequests ==
  \A r \in Requests :
    /\ request[r].phase \in {"idle", "opened"} \cup Counting => usage[r].status = "none"
    /\ request[r].phase = "running" => usage[r] = [status |-> "started", created |-> request[r].now]

\* Nothing open began in the future or so long ago that its lease is stale.
OpenIsFresh ==
  \A r \in Requests : request[r].phase \notin {"idle", "done"} =>
    request[r].now <= clock /\ clock <= request[r].now + Stale

\* What was counted still holds when the row is inserted.
Decided == \A r \in Requests : request[r].phase = "admitted" => WithinLimits(r)

Inv ==
  /\ TypeOK
  /\ LocksExclude
  /\ RowsOfRequests
  /\ OpenIsFresh
  /\ Decided
  /\ MinuteIsBounded
  /\ DayIsBounded
  /\ RunningIsBounded

LEMMA TypeInit == Init => TypeOK
<1>1. 0 \in Times
  BY UsageAssumption DEF Times
<1>2. QED
  BY <1>1 DEF Init, TypeOK, Phases

LEMMA TypeStep == TypeOK /\ [Next]_vars => TypeOK'
<1> SUFFICES ASSUME TypeOK, [Next]_vars PROVE TypeOK'
  OBVIOUS
<1>1. ASSUME Tick PROVE TypeOK'
  BY <1>1, UsageAssumption DEF Tick, TypeOK, Times
<1>2. ASSUME NEW r \in Requests, Handle(r) PROVE TypeOK'
  <2>1. CASE Begin(r)
    BY <2>1 DEF Begin, TypeOK, Phases
  <2>2. CASE LockUser(r) \/ LockGlobal(r) \/ Count(r) \/ Abandon(r) \/ LoseLease(r)
    <3>1. PICK p \in Phases : Enter(r, p)
      BY <2>2 DEF LockUser, LockGlobal, Count, Abandon, LoseLease, Phases, Counting
    <3>2. QED
      BY <2>2, <3>1 DEF LockUser, LockGlobal, Count, Abandon, LoseLease, Enter, TypeOK
  <2>3. CASE Insert(r)
    BY <2>3 DEF Insert, Enter, TypeOK, Phases
  <2>4. CASE Finish(r)
    BY <2>4 DEF Finish, Enter, TypeOK, Phases
  <2>5. QED
    BY <1>2, <2>1, <2>2, <2>3, <2>4 DEF Handle
<1>3. CASE UNCHANGED vars
  BY <1>3 DEF TypeOK, vars
<1>4. QED
  BY <1>1, <1>2, <1>3 DEF Next

---------------------------------------------------------------------------
(* What the counts see of a step. *)

\* A step that adds no row, and starts none again, keeps the windows bounded.
LEMMA SameRows ==
  ASSUME Inv, owner' = owner,
         \A q \in Requests : /\ usage'[q].status = "none" <=> usage[q].status = "none"
                             /\ usage'[q].created = usage[q].created
  PROVE  MinuteIsBounded' /\ DayIsBounded'
<1>1. Rows' = Rows
  BY DEF Rows
<1>2. \A u \in Users : OfUser(u)' = OfUser(u)
  BY DEF OfUser
<1>3. \A group \in SUBSET Requests, t \in Times :
        InWindow(group, t)' = InWindow(group, t) /\ OnDay(group, t)' = OnDay(group, t)
  BY <1>1 DEF InWindow, OnDay
<1>4. Requests \in SUBSET Requests /\ \A u \in Users : OfUser(u) \in SUBSET Requests
  BY DEF OfUser
<1>5. MinuteIsBounded'
  <2>1. \A t \in Times, u \in Users : InWindow(OfUser(u), t)' = InWindow(OfUser(u), t)
    BY <1>1, <1>2 DEF InWindow, OfUser
  <2>2. \A t \in Times : InWindow(Requests, t)' = InWindow(Requests, t)
    BY <1>3, <1>4
  <2>3. QED
    BY <2>1, <2>2 DEF Inv, MinuteIsBounded
<1>6. DayIsBounded'
  <2>1. \A d \in Times, u \in Users : OnDay(OfUser(u), d)' = OnDay(OfUser(u), d)
    BY <1>1, <1>2 DEF OnDay, OfUser
  <2>2. \A d \in Times : OnDay(Requests, d)' = OnDay(Requests, d)
    BY <1>3, <1>4
  <2>3. QED
    BY <2>1, <2>2 DEF Inv, DayIsBounded
<1>7. QED
  BY <1>5, <1>6

\* A step that sets no handler to work keeps those at work bounded.
LEMMA NoneStarts ==
  ASSUME Inv, owner' = owner,
         \A q \in Requests : request'[q].phase = "running" => request[q].phase = "running"
  PROVE  RunningIsBounded'
<1>1. \A group \in SUBSET Requests :
        /\ IsFiniteSet(Running(group))
        /\ Running(group)' \in SUBSET Running(group)
  BY FiniteGroups DEF Running
<1>2. ASSUME NEW u \in Users PROVE Within(UserLimit.running, Running(OfUser(u))')
  <2>1. OfUser(u) \in SUBSET Requests
    BY DEF OfUser
  <2>2. /\ IsFiniteSet(Running(OfUser(u)))
        /\ Running(OfUser(u))' \in SUBSET Running(OfUser(u))
    BY <1>1, <2>1 DEF Running, OfUser
  <2>3. QED
    BY <2>2, WithinSubset, LimitTypes DEF Inv, RunningIsBounded
<1>3. Within(GlobalLimit.running, Running(Requests)')
  BY <1>1, WithinSubset, LimitTypes DEF Inv, RunningIsBounded
<1>4. QED
  BY <1>2, <1>3 DEF RunningIsBounded

\* Counts below a limit stay below it when sets shrink.
LEMMA BelowSubset ==
  ASSUME NEW limit \in Nat, NEW B, IsFiniteSet(B), NEW A \in SUBSET B, Below(limit, B)
  PROVE  Below(limit, A)
<1>1. Cardinality(A) <= Cardinality(B) /\ Cardinality(A) \in Nat /\ Cardinality(B) \in Nat
  BY FS_Subset, FS_CardinalityType
<1>2. QED
  BY <1>1 DEF Below

\* A group that gets no row, and starts none again, is admitted as before.
LEMMA AdmitsStill ==
  ASSUME NEW limit \in Limits, NEW group \in SUBSET Requests, NEW now \in Times,
         \A q \in group : /\ usage'[q].status # "none" => usage[q].status # "none"
                          /\ usage'[q].status = "started" => usage[q].status = "started"
                          /\ usage'[q].created = usage[q].created,
         Admits(limit, group, now)
  PROVE  Admits(limit, group, now)'
<1>1. /\ InMinute(group, now)' \in SUBSET InMinute(group, now)
      /\ InDay(group, now)' \in SUBSET InDay(group, now)
      /\ Active(group, now)' \in SUBSET Active(group, now)
  BY DEF InMinute, InDay, Active, Rows
<1>2. /\ IsFiniteSet(InMinute(group, now))
      /\ IsFiniteSet(InDay(group, now))
      /\ IsFiniteSet(Active(group, now))
  BY FiniteGroups DEF InMinute, InDay, Active
<1>3. limit.minute \in Nat /\ limit.day \in Nat /\ limit.running \in Nat
  BY DEF Limits
<1>4. /\ Below(limit.minute, InMinute(group, now)')
      /\ Below(limit.day, InDay(group, now)')
      /\ Below(limit.running, Active(group, now)')
  BY <1>1, <1>2, <1>3, BelowSubset DEF Admits
<1>5. QED
  BY <1>4 DEF Admits

\* So a request that was admitted still is, unless a row was inserted.
LEMMA DecidedStill ==
  ASSUME Inv, owner' = owner,
         NEW r \in Requests, WithinLimits(r), request'[r].now = request[r].now,
         \A q \in Requests : /\ usage'[q].status # "none" => usage[q].status # "none"
                             /\ usage'[q].status = "started" => usage[q].status = "started"
                             /\ usage'[q].created = usage[q].created
  PROVE  WithinLimits(r)'
<1>1. SameUser(r)' = SameUser(r) /\ SameUser(r) \in SUBSET Requests
  BY DEF SameUser
<1>2. request[r].now \in Times
  BY DEF Inv, TypeOK
<1> DEFINE now == request[r].now
           group == SameUser(r)
<1>3. Admits(UserLimit, group, now) /\ Admits(GlobalLimit, Requests, now)
  BY DEF WithinLimits
<1>4. QED
  <2>1. PICK n \in Times, g \in SUBSET Requests : n = now /\ g = group
    BY <1>1, <1>2
  <2>2. Admits(UserLimit, g, n)' /\ Admits(GlobalLimit, Requests, n)'
    BY <2>1, <1>3, AdmitsStill, UsageAssumption
  <2>3. QED
    BY <2>1, <2>2, <1>1 DEF WithinLimits, Admits, InMinute, InDay, Active

---------------------------------------------------------------------------
(* The row that is inserted. *)

\* It joins the rows, with the NOW() of the request.
LEMMA InsertAdds ==
  ASSUME Inv, NEW r \in Requests, Insert(r)
  PROVE  /\ Rows' = Rows \cup {r}
         /\ usage'[r] = [status |-> "started", created |-> request[r].now]
         /\ usage'[r].created = request[r].now
         /\ \A q \in Requests \ {r} : usage'[q] = usage[q] /\ request'[q] = request[q]
         /\ request'[r].phase = "running" /\ request'[r].now = request[r].now
         /\ owner' = owner /\ clock' = clock
         /\ request[r].now \in Times
         /\ WithinLimits(r)
<1>1. /\ usage'[r] = [status |-> "started", created |-> request[r].now]
      /\ usage'[r].created = request[r].now
      /\ \A q \in Requests \ {r} : usage'[q] = usage[q] /\ request'[q] = request[q]
      /\ request'[r].phase = "running" /\ request'[r].now = request[r].now
      /\ owner' = owner /\ clock' = clock
  BY DEF Insert, Enter, Inv, TypeOK
<1>2. Rows' = Rows \cup {r}
  BY <1>1 DEF Rows
<1>3. request[r].now \in Times /\ WithinLimits(r)
  BY DEF Insert, Inv, TypeOK, Decided
<1>4. QED
  BY <1>1, <1>2, <1>3

\* A window of a minute that it falls into was counted.
LEMMA MinuteGrows ==
  ASSUME Inv, NEW r \in Requests, Insert(r), NEW group \in SUBSET Requests,
         NEW limit \in Nat, NEW t \in Times, Within(limit, InWindow(group, t)),
         r \in group => Below(limit, InMinute(group, request[r].now))
  PROVE  Within(limit, InWindow(group, t)')
<1> DEFINE now == request[r].now
<1>0. /\ Rows' = Rows \cup {r}
      /\ usage'[r].created = now
      /\ \A q \in Requests \ {r} : usage'[q] = usage[q]
  BY InsertAdds
<1>1. /\ now \in Nat /\ t \in Nat /\ Minute \in Nat
      /\ \A q \in Requests : usage[q].created \in Nat
  BY InsertAdds, UsageAssumption DEF Times, Inv, TypeOK
<1>2. CASE r \in group /\ now \in t..(t + Minute)
  <2>1. IsFiniteSet(InMinute(group, now))
    BY FiniteGroups DEF InMinute
  <2>2. InWindow(group, t)' \in SUBSET (InMinute(group, now) \cup {r})
    <3> SUFFICES ASSUME NEW q \in InWindow(group, t)', q # r
                 PROVE  q \in InMinute(group, now)
      OBVIOUS
    <3>1. /\ q \in group /\ q \in Rows' /\ q \in Requests
          /\ usage'[q].created \in t..(t + Minute)
      BY DEF InWindow
    <3>2. q \in Rows /\ usage[q].created \in t..(t + Minute)
      BY <3>1, <1>0
    <3>3. usage[q].created >= now - Minute
      BY <1>1, <1>2, <3>1, <3>2
    <3>4. QED
      BY <3>1, <3>2, <3>3 DEF InMinute
  <2>3. QED
    BY <1>2, <2>1, <2>2, OneMore
<1>3. CASE ~(r \in group /\ now \in t..(t + Minute))
  <2>1. InWindow(group, t)' \in SUBSET InWindow(group, t)
    <3> SUFFICES ASSUME NEW q \in InWindow(group, t)' PROVE q \in InWindow(group, t)
      OBVIOUS
    <3>1. q \in group /\ q \in Rows' /\ usage'[q].created \in t..(t + Minute)
      BY DEF InWindow
    <3>2. q # r
      BY <1>0, <1>1, <1>3, <3>1
    <3>3. q \in Requests /\ q \in Rows /\ usage'[q] = usage[q]
      BY <3>1, <3>2, <1>0
    <3>4. QED
      BY <3>1, <3>3 DEF InWindow
  <2>2. IsFiniteSet(InWindow(group, t))
    BY FiniteGroups DEF InWindow
  <2>3. QED
    BY <2>1, <2>2, WithinSubset
<1>4. QED
  BY <1>2, <1>3

\* The day that it falls into was counted.
LEMMA DayGrows ==
  ASSUME Inv, NEW r \in Requests, Insert(r), NEW group \in SUBSET Requests,
         NEW limit \in Nat, NEW d \in Times, Within(limit, OnDay(group, d)),
         r \in group => Below(limit, InDay(group, request[r].now))
  PROVE  Within(limit, OnDay(group, d)')
<1> DEFINE now == request[r].now
<1>0. /\ Rows' = Rows \cup {r}
      /\ usage'[r].created = now
      /\ \A q \in Requests \ {r} : usage'[q] = usage[q]
  BY InsertAdds
<1>1. /\ now \in Nat /\ Day \in Nat \ {0}
      /\ \A q \in Requests : usage[q].created \in Nat
  BY InsertAdds, UsageAssumption DEF Times, Inv, TypeOK
<1>2. CASE r \in group /\ now \div Day = d
  <2>1. IsFiniteSet(InDay(group, now))
    BY FiniteGroups DEF InDay
  <2>2. \A q \in OnDay(group, d) : usage[q].created >= (now \div Day) * Day
    BY <1>1, <1>2, DayBegins DEF OnDay
  <2>3. OnDay(group, d) \in SUBSET InDay(group, now)
    BY <2>2 DEF OnDay, InDay
  <2>4. OnDay(group, d)' \in SUBSET (OnDay(group, d) \cup {r})
    <3> SUFFICES ASSUME NEW q \in OnDay(group, d)', q # r PROVE q \in OnDay(group, d)
      OBVIOUS
    <3>1. q \in group /\ q \in Rows' /\ usage'[q].created \div Day = d
      BY DEF OnDay
    <3>2. QED
      BY <3>1, <1>0 DEF OnDay
  <2>5. QED
    BY <1>2, <2>1, <2>3, <2>4, OneMore
<1>3. CASE ~(r \in group /\ now \div Day = d)
  <2>1. OnDay(group, d)' \in SUBSET OnDay(group, d)
    <3> SUFFICES ASSUME NEW q \in OnDay(group, d)' PROVE q \in OnDay(group, d)
      OBVIOUS
    <3>1. q \in group /\ q \in Rows' /\ usage'[q].created \div Day = d
      BY DEF OnDay
    <3>2. q # r
      BY <1>0, <1>3, <3>1
    <3>3. q \in Requests /\ q \in Rows /\ usage'[q] = usage[q]
      BY <3>1, <3>2, <1>0
    <3>4. QED
      BY <3>1, <3>3 DEF OnDay
  <2>2. IsFiniteSet(OnDay(group, d))
    BY FiniteGroups DEF OnDay
  <2>3. QED
    BY <2>1, <2>2, WithinSubset
<1>4. QED
  BY <1>2, <1>3

\* The handlers at work hold leases that were counted as active.
LEMMA RunningGrows ==
  ASSUME Inv, NEW r \in Requests, Insert(r), NEW group \in SUBSET Requests,
         NEW limit \in Nat, Within(limit, Running(group)),
         r \in group => Below(limit, Active(group, request[r].now))
  PROVE  Within(limit, Running(group)')
<1> DEFINE now == request[r].now
<1>1. /\ now \in Nat /\ clock \in Nat /\ Stale \in Nat /\ now <= clock
      /\ \A q \in Requests : request[q].now \in Nat
  BY InsertAdds, UsageAssumption DEF Times, Inv, TypeOK, OpenIsFresh, Insert
<1>2. Running(group)' \in SUBSET (Running(group) \cup {r})
  BY InsertAdds DEF Running
<1>3. CASE r \in group
  <2>1. IsFiniteSet(Active(group, now))
    BY FiniteGroups DEF Active
  <2>2. Running(group) \in SUBSET Active(group, now)
    <3> SUFFICES ASSUME NEW q \in Running(group) PROVE q \in Active(group, now)
      OBVIOUS
    <3>1. /\ q \in group /\ q \in Requests /\ request[q].phase = "running"
          /\ usage[q].status = "started" /\ usage[q].created = request[q].now
      <4>1. q \in group /\ q \in Requests /\ request[q].phase = "running"
        BY DEF Running
      <4>2. usage[q] = [status |-> "started", created |-> request[q].now]
        BY <4>1 DEF Inv, RowsOfRequests
      <4>3. QED
        BY <4>1, <4>2
    <3>2. clock <= request[q].now + Stale
      BY <3>1 DEF Inv, OpenIsFresh
    <3>3. QED
      BY <1>1, <3>1, <3>2 DEF Active, Rows
  <2>3. QED
    BY <1>2, <1>3, <2>1, <2>2, OneMore
<1>4. CASE r \notin group
  <2>1. Running(group)' \in SUBSET Running(group)
    BY <1>2, <1>4 DEF Running
  <2>2. IsFiniteSet(Running(group))
    BY FiniteGroups DEF Running
  <2>3. QED
    BY <2>1, <2>2, WithinSubset
<1>5. QED
  BY <1>3, <1>4

\* What the request counted of its account and of all.
LEMMA InsertCounted ==
  ASSUME Inv, NEW r \in Requests, Insert(r)
  PROVE  /\ \A u \in Users : r \in OfUser(u) => Admits(UserLimit, OfUser(u), request[r].now)
         /\ Admits(GlobalLimit, Requests, request[r].now)
         /\ \A u \in Users : OfUser(u) \in SUBSET Requests /\ OfUser(u)' = OfUser(u)
<1>1. WithinLimits(r) /\ owner' = owner
  BY InsertAdds
<1>2. \A u \in Users : OfUser(u) \in SUBSET Requests /\ OfUser(u)' = OfUser(u)
  BY <1>1 DEF OfUser
<1>3. \A u \in Users : r \in OfUser(u) => OfUser(u) = SameUser(r)
  BY DEF OfUser, SameUser
<1>4. QED
  BY <1>1, <1>2, <1>3 DEF WithinLimits

LEMMA InsertKeepsInv ==
  ASSUME Inv, TypeOK', NEW r \in Requests, Insert(r)
  PROVE  Inv'
<1> USE InsertAdds
<1>1. request[r].phase = "admitted"
  BY DEF Insert
<1>2. LocksExclude'
  <2> SUFFICES ASSUME NEW p \in Requests, NEW q \in Requests, p # q
               PROVE  (/\ request[p].phase \in Counting /\ request[q].phase \in Counting
                            => owner[p] # owner[q]
                       /\ GloballyLimited =>
                            ~(/\ request[p].phase \in {"ready", "admitted"}
                              /\ request[q].phase \in {"ready", "admitted"}))'
    BY DEF LocksExclude
  <2>1. CASE p = r \/ q = r
    BY <2>1 DEF Counting
  <2>2. CASE p # r /\ q # r
    <3>1. request'[p] = request[p] /\ request'[q] = request[q] /\ owner' = owner
      BY <2>2
    <3>2. QED
      BY <3>1 DEF Inv, LocksExclude, GloballyLimited
  <2>3. QED
    BY <2>1, <2>2
<1>3. RowsOfRequests'
  BY DEF Inv, RowsOfRequests, Counting
<1>4. OpenIsFresh'
  BY <1>1 DEF Inv, OpenIsFresh
<1>5. Decided'
  <2> SUFFICES ASSUME NEW q \in Requests, request'[q].phase = "admitted"
               PROVE  WithinLimits(q)'
    BY DEF Decided
  <2>1. q # r /\ request[q].phase = "admitted" /\ request'[q] = request[q]
    OBVIOUS
  <2>2. owner[q] # owner[r] /\ ~GloballyLimited
    BY <1>1, <2>1 DEF Inv, LocksExclude, Counting
  <2>3. WithinLimits(q) /\ request[q].now \in Times
    BY <2>1 DEF Inv, Decided, TypeOK
  <2>4. PICK n \in Times, g \in SUBSET Requests : n = request[q].now /\ g = SameUser(q)
    BY <2>3 DEF SameUser
  <2>5. Admits(UserLimit, g, n)
    BY <2>3, <2>4 DEF WithinLimits
  <2>6. Admits(UserLimit, g, n)'
    <3>1. \A p \in g : usage'[p] = usage[p]
      BY <2>2, <2>4 DEF SameUser
    <3>2. QED
      BY <2>5, <3>1, AdmitsStill, UsageAssumption
  <2>7. Admits(GlobalLimit, Requests, n)'
    <3>1. GlobalLimit.minute = 0 /\ GlobalLimit.day = 0 /\ GlobalLimit.running = 0
      BY <2>2, LimitTypes DEF GloballyLimited
    <3>2. QED
      BY <3>1 DEF Admits, Below
  <2>8. SameUser(q)' = g /\ request'[q].now = n
    BY <2>1, <2>4 DEF SameUser
  <2>9. QED
    BY <2>6, <2>7, <2>8 DEF WithinLimits, Admits, InMinute, InDay, Active
<1>6. MinuteIsBounded'
  <2>1. \A t \in Times, u \in Users : Within(UserLimit.minute, InWindow(OfUser(u), t)')
    <3> SUFFICES ASSUME NEW t \in Times, NEW u \in Users
                 PROVE  Within(UserLimit.minute, InWindow(OfUser(u), t)')
      OBVIOUS
    <3>1. PICK g \in SUBSET Requests : g = OfUser(u)
      BY InsertCounted
    <3>2. Within(UserLimit.minute, InWindow(g, t)')
      BY <3>1, InsertCounted, MinuteGrows, LimitTypes DEF Inv, MinuteIsBounded, Admits
    <3>3. QED
      BY <3>1, <3>2, InsertCounted DEF InWindow
  <2>2. \A t \in Times : Within(GlobalLimit.minute, InWindow(Requests, t)')
    BY InsertCounted, MinuteGrows, LimitTypes DEF Inv, MinuteIsBounded, Admits
  <2>3. QED
    BY <2>1, <2>2 DEF MinuteIsBounded
<1>7. DayIsBounded'
  <2>1. \A d \in Times, u \in Users : Within(UserLimit.day, OnDay(OfUser(u), d)')
    <3> SUFFICES ASSUME NEW d \in Times, NEW u \in Users
                 PROVE  Within(UserLimit.day, OnDay(OfUser(u), d)')
      OBVIOUS
    <3>1. PICK g \in SUBSET Requests : g = OfUser(u)
      BY InsertCounted
    <3>2. Within(UserLimit.day, OnDay(g, d)')
      BY <3>1, InsertCounted, DayGrows, LimitTypes DEF Inv, DayIsBounded, Admits
    <3>3. QED
      BY <3>1, <3>2, InsertCounted DEF OnDay
  <2>2. \A d \in Times : Within(GlobalLimit.day, OnDay(Requests, d)')
    BY InsertCounted, DayGrows, LimitTypes DEF Inv, DayIsBounded, Admits
  <2>3. QED
    BY <2>1, <2>2 DEF DayIsBounded
<1>8. RunningIsBounded'
  <2>1. \A u \in Users : Within(UserLimit.running, Running(OfUser(u))')
    <3> SUFFICES ASSUME NEW u \in Users PROVE Within(UserLimit.running, Running(OfUser(u))')
      OBVIOUS
    <3>1. PICK g \in SUBSET Requests : g = OfUser(u)
      BY InsertCounted
    <3>2. Within(UserLimit.running, Running(g)')
      BY <3>1, InsertCounted, RunningGrows, LimitTypes DEF Inv, RunningIsBounded, Admits
    <3>3. QED
      BY <3>1, <3>2, InsertCounted DEF Running
  <2>2. Within(GlobalLimit.running, Running(Requests)')
    BY InsertCounted, RunningGrows, LimitTypes DEF Inv, RunningIsBounded, Admits
  <2>3. QED
    BY <2>1, <2>2 DEF RunningIsBounded
<1>9. QED
  BY <1>2, <1>3, <1>4, <1>5, <1>6, <1>7, <1>8 DEF Inv

---------------------------------------------------------------------------
(* The other steps. *)

LEMMA InvInit == Init => Inv
<1> SUFFICES ASSUME Init PROVE Inv
  OBVIOUS
<1>1. TypeOK
  BY TypeInit
<1>2. LocksExclude /\ RowsOfRequests /\ OpenIsFresh /\ Decided
  BY DEF Init, LocksExclude, RowsOfRequests, OpenIsFresh, Decided, Counting
<1>3. Rows = {} /\ \A group \in SUBSET Requests : Running(group) = {}
  <2>1. \A r \in Requests : usage[r].status = "none" /\ request[r].phase # "running"
    BY DEF Init
  <2>2. Rows = {}
    BY <2>1 DEF Rows
  <2>3. QED
    BY <2>1, <2>2 DEF Running
<1>4. \A limit \in Nat : Within(limit, {})
  BY FS_EmptySet DEF Within
<1>5. QED
  BY <1>1, <1>2, <1>3, <1>4, LimitTypes
     DEF Inv, MinuteIsBounded, DayIsBounded, RunningIsBounded, InWindow, OnDay, OfUser

\* A step of a request that writes no row: what the invariant asks of it.
LEMMA EnterKeepsInv ==
  ASSUME Inv, TypeOK', NEW r \in Requests, NEW p \in Phases, Enter(r, p), usage' = usage,
         p # "running",
         p = "idle" \/ p = "opened" => request[r].phase = p,
         p # "done" => request[r].phase \in {"opened"} \cup Counting,
         p \in Counting => request[r].phase \in Counting \/ UserLockFree(r),
         p \in {"ready", "admitted"} =>
           \/ request[r].phase \in {"ready", "admitted"}
           \/ GloballyLimited => GlobalLockFree,
         p = "admitted" => WithinLimits(r)
  PROVE  Inv'
<1>1. /\ owner' = owner /\ clock' = clock
      /\ request'[r].phase = p /\ request'[r].now = request[r].now
      /\ \A q \in Requests \ {r} : request'[q] = request[q]
  BY DEF Enter, Inv, TypeOK
<1>2. LocksExclude'
  <2> SUFFICES ASSUME NEW a \in Requests, NEW b \in Requests, a # b
               PROVE  (/\ request[a].phase \in Counting /\ request[b].phase \in Counting
                            => owner[a] # owner[b]
                       /\ GloballyLimited =>
                            ~(/\ request[a].phase \in {"ready", "admitted"}
                              /\ request[b].phase \in {"ready", "admitted"}))'
    BY DEF LocksExclude
  <2>1. CASE a # r /\ b # r
    <3>1. request'[a] = request[a] /\ request'[b] = request[b] /\ owner' = owner
      BY <2>1, <1>1
    <3>2. QED
      BY <3>1 DEF Inv, LocksExclude, GloballyLimited
  <2>2. CASE a = r
    <3>1. request'[b] = request[b]
      BY <2>2, <1>1
    <3>2. QED
      BY <2>2, <3>1, <1>1
      DEF Inv, LocksExclude, GloballyLimited, UserLockFree, GlobalLockFree, Counting
  <2>3. CASE b = r
    <3>1. request'[a] = request[a]
      BY <2>3, <1>1
    <3>2. QED
      BY <2>3, <3>1, <1>1
      DEF Inv, LocksExclude, GloballyLimited, UserLockFree, GlobalLockFree, Counting
  <2>4. QED
    BY <2>1, <2>2, <2>3
<1>3. RowsOfRequests'
  BY <1>1 DEF Inv, RowsOfRequests, Counting, Phases
<1>4. OpenIsFresh'
  BY <1>1 DEF Inv, OpenIsFresh, Counting, Phases
<1>5. Decided'
  <2> SUFFICES ASSUME NEW q \in Requests, request'[q].phase = "admitted"
               PROVE  WithinLimits(q)'
    BY DEF Decided
  <2>1. request'[q].now = request[q].now
    BY <1>1
  <2>2. WithinLimits(q)
    <3>1. CASE q = r
      BY <3>1, <1>1
    <3>2. CASE q # r
      BY <3>2, <1>1 DEF Inv, Decided
    <3>3. QED
      BY <3>1, <3>2
  <2>3. QED
    BY <2>1, <2>2, <1>1, DecidedStill
<1>6. MinuteIsBounded' /\ DayIsBounded'
  BY <1>1, SameRows
<1>7. RunningIsBounded'
  BY <1>1, NoneStarts
<1>8. QED
  BY <1>2, <1>3, <1>4, <1>5, <1>6, <1>7 DEF Inv

LEMMA BeginKeepsInv ==
  ASSUME Inv, TypeOK', NEW r \in Requests, Begin(r)
  PROVE  Inv'
<1>1. /\ owner' = owner /\ clock' = clock /\ usage' = usage
      /\ request[r].phase = "idle"
      /\ request'[r].phase = "opened" /\ request'[r].now = clock
      /\ \A q \in Requests \ {r} : request'[q] = request[q]
  BY DEF Begin, Inv, TypeOK
<1>2. LocksExclude'
  <2> SUFFICES ASSUME NEW a \in Requests, NEW b \in Requests, a # b
               PROVE  (/\ request[a].phase \in Counting /\ request[b].phase \in Counting
                            => owner[a] # owner[b]
                       /\ GloballyLimited =>
                            ~(/\ request[a].phase \in {"ready", "admitted"}
                              /\ request[b].phase \in {"ready", "admitted"}))'
    BY DEF LocksExclude
  <2>1. CASE a # r /\ b # r
    <3>1. request'[a] = request[a] /\ request'[b] = request[b]
      BY <2>1, <1>1
    <3>2. QED
      BY <3>1, <1>1 DEF Inv, LocksExclude, GloballyLimited
  <2>2. CASE a = r \/ b = r
    BY <2>2, <1>1 DEF Counting
  <2>3. QED
    BY <2>1, <2>2
<1>3. RowsOfRequests'
  BY <1>1 DEF Inv, RowsOfRequests, Counting
<1>4. OpenIsFresh'
  <2>1. clock \in Nat /\ Stale \in Nat
    BY UsageAssumption DEF Inv, TypeOK, Times
  <2>2. QED
    BY <2>1, <1>1 DEF Inv, OpenIsFresh
<1>5. Decided'
  <2> SUFFICES ASSUME NEW q \in Requests, request'[q].phase = "admitted"
               PROVE  WithinLimits(q)'
    BY DEF Decided
  <2>1. q # r
    BY <1>1
  <2>2. request'[q] = request[q]
    BY <2>1, <1>1
  <2>3. WithinLimits(q)
    BY <2>2 DEF Inv, Decided
  <2>4. QED
    BY <2>2, <2>3, <1>1, DecidedStill
<1>6. MinuteIsBounded' /\ DayIsBounded'
  BY <1>1, SameRows
<1>7. RunningIsBounded'
  BY <1>1, NoneStarts
<1>8. QED
  BY <1>2, <1>3, <1>4, <1>5, <1>6, <1>7 DEF Inv

LEMMA FinishKeepsInv ==
  ASSUME Inv, TypeOK', NEW r \in Requests, Finish(r)
  PROVE  Inv'
<1>1. /\ owner' = owner /\ clock' = clock
      /\ request[r].phase = "running"
      /\ request'[r].phase = "done" /\ request'[r].now = request[r].now
      /\ \A q \in Requests \ {r} : request'[q] = request[q] /\ usage'[q] = usage[q]
      /\ usage'[r].status = "finished" /\ usage'[r].created = usage[r].created
      /\ usage[r].status = "started"
  BY DEF Finish, Enter, Inv, TypeOK, RowsOfRequests
<1>2. LocksExclude'
  <2> SUFFICES ASSUME NEW a \in Requests, NEW b \in Requests, a # b
               PROVE  (/\ request[a].phase \in Counting /\ request[b].phase \in Counting
                            => owner[a] # owner[b]
                       /\ GloballyLimited =>
                            ~(/\ request[a].phase \in {"ready", "admitted"}
                              /\ request[b].phase \in {"ready", "admitted"}))'
    BY DEF LocksExclude
  <2>1. CASE a # r /\ b # r
    <3>1. request'[a] = request[a] /\ request'[b] = request[b]
      BY <2>1, <1>1
    <3>2. QED
      BY <3>1, <1>1 DEF Inv, LocksExclude, GloballyLimited
  <2>2. CASE a = r \/ b = r
    BY <2>2, <1>1 DEF Counting
  <2>3. QED
    BY <2>1, <2>2
<1>3. RowsOfRequests'
  BY <1>1 DEF Inv, RowsOfRequests, Counting
<1>4. OpenIsFresh'
  BY <1>1 DEF Inv, OpenIsFresh
<1>5. \A q \in Requests : /\ usage'[q].status = "none" <=> usage[q].status = "none"
                          /\ usage'[q].status = "started" => usage[q].status = "started"
                          /\ usage'[q].created = usage[q].created
                          /\ request'[q].now = request[q].now
  BY <1>1
<1>6. Decided'
  <2> SUFFICES ASSUME NEW q \in Requests, request'[q].phase = "admitted"
               PROVE  WithinLimits(q)'
    BY DEF Decided
  <2>1. q # r
    BY <1>1
  <2>2. request'[q] = request[q]
    BY <2>1, <1>1
  <2>3. WithinLimits(q)
    BY <2>2 DEF Inv, Decided
  <2>4. QED
    BY <2>2, <2>3, <1>1, <1>5, DecidedStill
<1>7. MinuteIsBounded' /\ DayIsBounded'
  BY <1>1, <1>5, SameRows
<1>8. RunningIsBounded'
  BY <1>1, NoneStarts
<1>9. QED
  BY <1>2, <1>3, <1>4, <1>6, <1>7, <1>8 DEF Inv

LEMMA TickKeepsInv ==
  ASSUME Inv, TypeOK', Tick
  PROVE  Inv'
<1>1. owner' = owner /\ request' = request /\ usage' = usage /\ clock' = clock + 1
  BY DEF Tick
<1>2. OpenIsFresh'
  <2>1. /\ clock \in Nat /\ Stale \in Nat
        /\ \A r \in Requests : request[r].now \in Nat
    BY UsageAssumption DEF Inv, TypeOK, Times
  <2>2. \A r \in Requests : request[r].phase \notin {"idle", "done"} =>
          request[r].now <= clock /\ clock < request[r].now + Stale
    BY DEF Tick, EndsInTime, Inv, OpenIsFresh
  <2>3. QED
    BY <2>1, <2>2, <1>1 DEF OpenIsFresh
<1>3. LocksExclude' /\ RowsOfRequests'
  BY <1>1 DEF Inv, LocksExclude, RowsOfRequests
<1>4. Decided'
  BY <1>1, DecidedStill DEF Inv, Decided
<1>5. MinuteIsBounded' /\ DayIsBounded' /\ RunningIsBounded'
  BY <1>1, SameRows, NoneStarts
<1>6. QED
  BY <1>2, <1>3, <1>4, <1>5 DEF Inv

LEMMA InvStep == Inv /\ [Next]_vars => Inv'
<1> SUFFICES ASSUME Inv, [Next]_vars PROVE Inv'
  OBVIOUS
<1>1. TypeOK'
  BY TypeStep DEF Inv
<1>2. CASE Tick
  BY <1>1, <1>2, TickKeepsInv
<1>3. ASSUME NEW r \in Requests, Handle(r) PROVE Inv'
  <2>1. CASE Begin(r)
    BY <2>1, <1>1, BeginKeepsInv
  <2>2. CASE LockUser(r)
    BY <2>2, <1>1, EnterKeepsInv DEF LockUser, Phases, Counting
  <2>3. CASE LockGlobal(r)
    BY <2>3, <1>1, EnterKeepsInv DEF LockGlobal, Phases, Counting
  <2>4. CASE Count(r)
    BY <2>4, <1>1, EnterKeepsInv DEF Count, Phases, Counting
  <2>5. CASE Insert(r)
    BY <2>5, <1>1, InsertKeepsInv
  <2>6. CASE Abandon(r) \/ LoseLease(r)
    BY <2>6, <1>1, EnterKeepsInv DEF Abandon, LoseLease, Phases, Counting
  <2>7. CASE Finish(r)
    BY <2>7, <1>1, FinishKeepsInv
  <2>8. QED
    BY <1>3, <2>1, <2>2, <2>3, <2>4, <2>5, <2>6, <2>7 DEF Handle
<1>4. CASE UNCHANGED vars
  <2>1. LocksExclude' /\ RowsOfRequests' /\ OpenIsFresh'
    BY <1>4 DEF vars, Inv, LocksExclude, RowsOfRequests, OpenIsFresh
  <2>2. Decided'
    BY <1>4, DecidedStill DEF vars, Inv, Decided
  <2>3. MinuteIsBounded' /\ DayIsBounded' /\ RunningIsBounded'
    BY <1>4, SameRows, NoneStarts DEF vars
  <2>4. QED
    BY <1>1, <2>1, <2>2, <2>3 DEF Inv
<1>5. QED
  BY <1>2, <1>3, <1>4 DEF Next

---------------------------------------------------------------------------
(* The theorems. *)

LEMMA InvAlways == Spec => []Inv
<1>1. QED
  BY InvInit, InvStep, PTL DEF Spec

\* Every reachable state of the admission of AI requests is well typed.
THEOREM TypeCorrect == Spec => []TypeOK
<1>1. Inv => TypeOK
  BY DEF Inv
<1>2. QED
  BY <1>1, InvAlways, PTL

\* beginAIUsage lets no minute have more requests than a limit, of an account
\* or of all, wherever the minute begins.
THEOREM MinutesBounded == Spec => []MinuteIsBounded
<1>1. Inv => MinuteIsBounded
  BY DEF Inv
<1>2. QED
  BY <1>1, InvAlways, PTL

\* beginAIUsage lets no calendar day have more requests than a limit.
THEOREM DaysBounded == Spec => []DayIsBounded
<1>1. Inv => DayIsBounded
  BY DEF Inv
<1>2. QED
  BY <1>1, InvAlways, PTL

\* No more handlers are at work than a limit says, if each ends before its
\* lease is stale.
THEOREM RunningBounded == Spec => []RunningIsBounded
<1>1. Inv => RunningIsBounded
  BY DEF Inv
<1>2. QED
  BY <1>1, InvAlways, PTL

=============================================================================
