---------------------- MODULE LifecycleDeliveryProofs ----------------------
(***************************************************************************)
(* Proofs about LifecycleDelivery, for every number of subscribers,        *)
(* channels, workers, attempts, revisions, faults and operator retries.    *)
(***************************************************************************)
EXTENDS LifecycleDelivery, TLAPS

---------------------------------------------------------------------------
(* Type correctness. *)

\* Enqueueing gives every delivery a well-formed row.
LEMMA EnqueuedType ==
  ASSUME queue \in [Deliveries -> Rows], NEW a, NEW m
  PROVE  Enqueued(a, m) \in [Deliveries -> Rows]
<1> DEFINE act == LifecycleAction(a.type, a.status)
           to == Addressees(act, m)
<1>1. NewRow \in Rows
  BY BoundsAssumption DEF NewRow, Rows, RowStatuses
<1>2. ASSUME NEW d \in Deliveries
      PROVE  [queue[d] EXCEPT !.status = "skipped", !.due = FALSE] \in Rows
  BY DEF Rows, RowStatuses
<1>3. QED
  BY <1>1, <1>2, Zenon DEF Enqueued

\* What a worker does in its current phase says it is not idle.
LEMMA BusyIsJob ==
  ASSUME TypeOK, NEW w \in Workers, worker[w].phase # "idle"
  PROVE  worker[w] \in Jobs
BY DEF TypeOK, Idle

\* A marked row is a row.
LEMMA MarkType ==
  ASSUME TypeOK, NEW w \in Workers, Sending(w), NEW st \in RowStatuses, Mark(w, st)
  PROVE  /\ queue' \in [Deliveries -> Rows]
         /\ worker' \in [Workers -> {Idle} \cup Jobs]
<1>1. worker[w].row \in Deliveries
  BY BusyIsJob DEF Sending, Jobs
<1>2. worker' \in [Workers -> {Idle} \cup Jobs]
  BY DEF Mark, TypeOK
<1>3. CASE MarkFence(w)
  <2>1. queue' = [queue EXCEPT ![worker[w].row].status = st, ![worker[w].row].due = FALSE]
    BY <1>3 DEF Mark
  <2>2. QED
    BY <1>1, <1>2, <2>1 DEF TypeOK, Rows, RowStatuses
<1>4. CASE ~MarkFence(w)
  <2>1. queue' = [queue EXCEPT ![worker[w].row].due = FALSE]
    BY <1>4 DEF Mark
  <2>2. QED
    BY <1>1, <1>2, <2>1 DEF TypeOK, Rows, RowStatuses
<1>5. QED
  BY <1>3, <1>4

LEMMA TypeStep == TypeOK /\ [Next]_vars => TypeOK'
<1> SUFFICES ASSUME TypeOK, [Next]_vars PROVE TypeOK'
  OBVIOUS
<1> USE DEF TypeOK
<1>1. ASSUME NEW type \in Feed, NEW lapsed \in BOOLEAN, NEW m \in SUBSET Targets,
             Publish(type, lapsed, m)
      PROVE  TypeOK'
  <2>1. alert' \in [rev : 0..MaxRevision, type : {"alert", "update", "cancel"},
                    status : {"active", "expired", "cancelled"}]
    BY <1>1, BoundsAssumption DEF Publish
  <2>2. queue' \in [Deliveries -> Rows]
    BY <1>1, EnqueuedType DEF Publish
  <2>3. QED
    BY <1>1, <2>1, <2>2 DEF Publish, history
<1>2. ASSUME NEW m \in SUBSET Targets, Replay(m) PROVE TypeOK'
  BY <1>2, EnqueuedType DEF Replay, history
<1>3. ASSUME Expire PROVE TypeOK'
  BY <1>3, EnqueuedType DEF Expire, history
<1>4. ASSUME NEW d \in Deliveries, RetryDelivery(d) PROVE TypeOK'
  BY <1>4, BoundsAssumption DEF RetryDelivery, NewRow, Rows, RowStatuses
<1>5. ASSUME NEW d \in Deliveries, Acknowledge(d) PROVE TypeOK'
  BY <1>5 DEF Acknowledge, Rows, RowStatuses, history
<1>6. ASSUME NEW d \in Deliveries, Elapse(d) PROVE TypeOK'
  <2>1. queue' \in [Deliveries -> Rows]
    BY <1>6 DEF Elapse, Rows
  <2>2. faults' \in 0..MaxFaults
    BY <1>6, BoundsAssumption DEF Elapse
  <2>3. QED
    BY <1>6, <2>1, <2>2 DEF Elapse, history
<1>7. ASSUME SetSource PROVE TypeOK'
  BY <1>7 DEF SetSource, history
<1>8. ASSUME NEW c \in Channels, SetChannel(c) PROVE TypeOK'
  BY <1>8 DEF SetChannel, history
<1>9. ASSUME NEW w \in Workers, NEW d \in Deliveries, Claim(w, d) PROVE TypeOK'
  <2>1. queue[d].attempts + 1 \in 1..MaxAttempts
    BY <1>9, BoundsAssumption DEF Claim, Claimable, Rows
  <2>2. queue' \in [Deliveries -> Rows]
    <3>1. queue' = [queue EXCEPT ![d].attempts = queue[d].attempts + 1, ![d].due = FALSE]
      BY <1>9 DEF Claim
    <3>2. queue[d].attempts + 1 \in 0..MaxAttempts
      BY <2>1, BoundsAssumption
    <3>3. QED
      BY <3>1, <3>2 DEF Rows
  <2>3. worker' \in [Workers -> {Idle} \cup Jobs]
    BY <1>9, <2>1 DEF Claim, Jobs
  <2>4. QED
    BY <1>9, <2>2, <2>3 DEF Claim, history
<1>10. ASSUME NEW w \in Workers, BeginSend(w) PROVE TypeOK'
  <2>1. worker[w] \in Jobs
    BY <1>10, BusyIsJob DEF BeginSend
  <2>2. queue[worker[w].row].due \in BOOLEAN
    BY <2>1 DEF Jobs, Rows
  <2>3. worker' \in [Workers -> {Idle} \cup Jobs]
    BY <1>10, <2>1, <2>2 DEF BeginSend, Jobs
  <2>4. QED
    BY <1>10, <2>3 DEF BeginSend, history
<1>11. ASSUME NEW w \in Workers, StartSend(w) PROVE TypeOK'
  BY <1>11, BusyIsJob DEF StartSend, Jobs, history
<1>12. ASSUME NEW w \in Workers, SkipClaimed(w) PROVE TypeOK'
  <2>1. worker[w].row \in Deliveries
    BY <1>12, BusyIsJob DEF SkipClaimed, Jobs
  <2>2. QED
    BY <1>12, <2>1 DEF SkipClaimed, Rows, RowStatuses, history
<1>13. ASSUME NEW w \in Workers, LeaseLost(w) PROVE TypeOK'
  BY <1>13 DEF LeaseLost, history
<1>14. ASSUME NEW w \in Workers, SendSucceeds(w) PROVE TypeOK'
  <2>1. worker[w].row \in Deliveries
    BY <1>14, BusyIsJob DEF SendSucceeds, Sending, Jobs
  <2>2. received' \in [Deliveries -> Nat]
    BY <1>14, <2>1 DEF SendSucceeds, Arrive
  <2>3. QED
    BY <1>14, <2>2, MarkType DEF SendSucceeds, Mark, RowStatuses
<1>15. ASSUME NEW w \in Workers, SendFails(w) PROVE TypeOK'
  BY <1>15, MarkType DEF SendFails, Mark, RowStatuses, history
<1>16. ASSUME NEW w \in Workers, NEW arrived \in BOOLEAN, SendGivesUp(w, arrived)
       PROVE  TypeOK'
  <2>1. worker[w].row \in Deliveries
    BY <1>16, BusyIsJob DEF SendGivesUp, Sending, Jobs
  <2>2. received' \in [Deliveries -> Nat]
    BY <1>16, <2>1 DEF SendGivesUp, Arrive
  <2>3. QED
    BY <1>16, <2>2, MarkType DEF SendGivesUp, Mark, RowStatuses
<1>17. ASSUME NEW w \in Workers, NEW arrived \in BOOLEAN, Crash(w, arrived)
       PROVE  TypeOK'
  <2>1. arrived => worker[w].row \in Deliveries
    BY <1>17, BusyIsJob DEF Crash, Sending, Jobs
  <2>2. received' \in [Deliveries -> Nat] /\ excused' \in SUBSET Deliveries
    BY <1>17, <2>1 DEF Crash, Arrive
  <2>3. QED
    BY <1>17, <2>2, BoundsAssumption DEF Crash
<1>18. CASE UNCHANGED vars
  BY <1>18 DEF vars
<1>19. QED
  BY <1>1, <1>2, <1>3, <1>4, <1>5, <1>6, <1>7, <1>8, <1>9, <1>10, <1>11, <1>12,
     <1>13, <1>14, <1>15, <1>16, <1>17, <1>18
     DEF Next, Environment, Process

\* Type correctness of the delivery component.
THEOREM TypeCorrect == Spec => []TypeOK
<1>1. Init => TypeOK
  BY BoundsAssumption DEF Init, TypeOK, NoRow, Rows
<1>2. QED
  BY <1>1, TypeStep, PTL DEF Spec


---------------------------------------------------------------------------
(* The lock discipline. *)

\* The two facts about a send under way support each other: the source lock
\* keeps the revision and the setting still, the row lock keeps the attempt.
LockInv == SendContained /\ SendOwnsItsRow

\* A step that moves no worker and finds the source lock free keeps LockInv:
\* nobody is sending before or after it.
LEMMA LockFreeStep ==
  ASSUME SourceLockFree, UNCHANGED worker
  PROVE  LockInv'
<1>1. \A w \in Workers : ~Sending(w)'
  BY DEF SourceLockFree, Sending
<1>2. QED
  BY <1>1 DEF LockInv, SendContained, SendOwnsItsRow

\* A worker that leaves its job takes nobody into the send phase, so the
\* others keep what they had if their rows are untouched.
LEMMA LeaveStep ==
  ASSUME TypeOK, LockInv, NEW w \in Workers,
         worker' = [worker EXCEPT ![w] = Idle],
         UNCHANGED <<active, alert>>,
         Sending(w) \/ SourceLockFree \/ UNCHANGED queue
  PROVE  LockInv'
<1> SUFFICES ASSUME NEW v \in Workers, Sending(v)'
             PROVE  /\ active' /\ IsCurrent(worker[v].row)'
                    /\ HoldsAttempt(v)'
                    /\ \A u \in Workers : Sending(u)' => u = v
  BY DEF LockInv, SendContained, SendOwnsItsRow, HoldsAttempt
<1>1. \A u \in Workers : Sending(u)' => u # w /\ worker'[u] = worker[u] /\ Sending(u)
  BY DEF TypeOK, Sending, Idle
<1>2. v # w /\ worker'[v] = worker[v] /\ Sending(v)
  BY <1>1
<1>3. UNCHANGED queue
  BY <1>2 DEF LockInv, SendOwnsItsRow, SourceLockFree
<1>4. QED
  BY <1>1, <1>2, <1>3 DEF LockInv, SendContained, SendOwnsItsRow, IsCurrent, HoldsAttempt

\* A step that moves no worker and leaves source, alert and the locked rows'
\* statuses and attempts alone keeps LockInv.
LEMMA RowStep ==
  ASSUME LockInv, UNCHANGED <<active, alert, worker>>,
         \A v \in Workers : Sending(v) =>
           /\ queue'[worker[v].row].status = queue[worker[v].row].status
           /\ queue'[worker[v].row].attempts = queue[worker[v].row].attempts
  PROVE  LockInv'
BY DEF LockInv, SendContained, SendOwnsItsRow, Sending, IsCurrent, HoldsAttempt

LEMMA LockStep == TypeOK /\ LockInv /\ [Next]_vars => LockInv'
<1> SUFFICES ASSUME TypeOK, LockInv, [Next]_vars PROVE LockInv'
  OBVIOUS
<1>a. ASSUME NEW v \in Workers, Sending(v)
      PROVE  worker[v].row \in Deliveries /\ queue[worker[v].row].status \in Open
  BY <1>a, BusyIsJob DEF LockInv, SendOwnsItsRow, HoldsAttempt, Sending, Jobs
<1>1. ASSUME NEW type \in Feed, NEW lapsed \in BOOLEAN, NEW m \in SUBSET Targets,
             Publish(type, lapsed, m)
      PROVE  LockInv'
  BY <1>1, LockFreeStep DEF Publish
<1>2. ASSUME NEW m \in SUBSET Targets, Replay(m) PROVE LockInv'
  BY <1>2, LockFreeStep DEF Replay
<1>3. CASE Expire
  BY <1>3, LockFreeStep DEF Expire
<1>4. ASSUME NEW d \in Deliveries, RetryDelivery(d) PROVE LockInv'
  <2>1. \A v \in Workers : Sending(v) => worker[v].row # d
    BY <1>4 DEF RetryDelivery, RowLocked
  <2>2. QED
    BY <1>4, <1>a, <2>1, RowStep DEF RetryDelivery, TypeOK
<1>5. ASSUME NEW d \in Deliveries, Acknowledge(d) PROVE LockInv'
  <2>1. \A v \in Workers : Sending(v) => worker[v].row # d
    BY <1>5, <1>a DEF Acknowledge, Open
  <2>2. QED
    BY <1>5, <1>a, <2>1, RowStep DEF Acknowledge, TypeOK
<1>6. ASSUME NEW d \in Deliveries, Elapse(d) PROVE LockInv'
  BY <1>6, <1>a, RowStep DEF Elapse, TypeOK, Rows
<1>7. CASE SetSource
  BY <1>7, LockFreeStep DEF SetSource
<1>8. ASSUME NEW c \in Channels, SetChannel(c) PROVE LockInv'
  BY <1>8, RowStep DEF SetChannel
<1>9. ASSUME NEW w \in Workers, NEW d \in Deliveries, Claim(w, d) PROVE LockInv'
  <2>1. \A v \in Workers : Sending(v) => worker[v].row # d
    BY <1>9 DEF Claim, Claimable, RowLocked
  <2>2. \A v \in Workers : Sending(v)' <=> Sending(v) /\ v # w
    BY <1>9 DEF Claim, Sending, TypeOK, Idle
  <2>3. \A v \in Workers : Sending(v) /\ v # w =>
          worker'[v] = worker[v] /\ queue'[worker[v].row] = queue[worker[v].row]
    BY <1>9, <1>a, <2>1 DEF Claim, TypeOK
  <2>4. UNCHANGED <<active, alert>>
    BY <1>9 DEF Claim
  <2>5. QED
    BY <2>2, <2>3, <2>4 DEF LockInv, SendContained, SendOwnsItsRow, IsCurrent, HoldsAttempt
<1>10. ASSUME NEW w \in Workers, BeginSend(w) PROVE LockInv'
  <2>1. \A v \in Workers : Sending(v)' <=> Sending(v)
    BY <1>10, BusyIsJob DEF BeginSend, Sending, TypeOK, Jobs
  <2>2. \A v \in Workers : worker'[v].row = worker[v].row \/ ~Sending(v)
    BY <1>10 DEF BeginSend, Sending, TypeOK
  <2>3. \A v \in Workers : Sending(v) => worker'[v] = worker[v]
    BY <1>10 DEF BeginSend, Sending, TypeOK
  <2>4. UNCHANGED <<active, alert, queue>>
    BY <1>10 DEF BeginSend
  <2>5. QED
    BY <2>1, <2>3, <2>4 DEF LockInv, SendContained, SendOwnsItsRow, IsCurrent, HoldsAttempt
<1>11. ASSUME NEW w \in Workers, StartSend(w) PROVE LockInv'
  <2>1. worker[w] \in Jobs
    BY <1>11, BusyIsJob DEF StartSend
  <2>2. \A v \in Workers : Sending(v)' <=> v = w
    BY <1>11, <2>1 DEF StartSend, SourceLockFree, Sending, TypeOK, Jobs
  <2>3. worker'[w].row = worker[w].row /\ worker'[w].attempt = worker[w].attempt
    BY <1>11, <2>1 DEF StartSend, TypeOK, Jobs
  <2>4. active /\ IsCurrent(worker[w].row) /\ HoldsAttempt(w)
    BY <1>11 DEF StartSend, LeaseValid
  <2>5. UNCHANGED <<active, alert, queue>>
    BY <1>11 DEF StartSend
  <2>6. QED
    BY <2>2, <2>3, <2>4, <2>5
       DEF LockInv, SendContained, SendOwnsItsRow, IsCurrent, HoldsAttempt
<1>12. ASSUME NEW w \in Workers, SkipClaimed(w) PROVE LockInv'
  BY <1>12, LeaveStep DEF SkipClaimed
<1>13. ASSUME NEW w \in Workers, LeaseLost(w) PROVE LockInv'
  BY <1>13, LeaveStep DEF LeaseLost
<1>14. ASSUME NEW w \in Workers, SendSucceeds(w) PROVE LockInv'
  BY <1>14, LeaveStep DEF SendSucceeds, Mark
<1>15. ASSUME NEW w \in Workers, SendFails(w) PROVE LockInv'
  BY <1>15, LeaveStep DEF SendFails, Mark
<1>16. ASSUME NEW w \in Workers, NEW arrived \in BOOLEAN, SendGivesUp(w, arrived)
       PROVE  LockInv'
  BY <1>16, LeaveStep DEF SendGivesUp, Mark
<1>17. ASSUME NEW w \in Workers, NEW arrived \in BOOLEAN, Crash(w, arrived)
       PROVE  LockInv'
  BY <1>17, LeaveStep DEF Crash
<1>18. CASE UNCHANGED vars
  BY <1>18, RowStep DEF vars
<1>19. QED
  BY <1>1, <1>2, <1>3, <1>4, <1>5, <1>6, <1>7, <1>8, <1>9, <1>10, <1>11, <1>12,
     <1>13, <1>14, <1>15, <1>16, <1>17, <1>18
     DEF Next, Environment, Process

LEMMA LockInductive == Spec => []LockInv
<1>1. Init => LockInv
  BY DEF Init, LockInv, SendContained, SendOwnsItsRow, Sending, Idle
<1>2. QED
  BY <1>1, LockStep, TypeCorrect, PTL DEF Spec

\* Containment never overtakes a send, however many workers there are.
THEOREM SendsAreContained == Spec => []SendContained
<1>1. LockInv => SendContained
  BY DEF LockInv
<1>2. QED
  BY <1>1, LockInductive, PTL

\* A worker that sends still owns the attempt it claimed, alone.
THEOREM SendsOwnTheirRow == Spec => []SendOwnsItsRow
<1>1. LockInv => SendOwnsItsRow
  BY DEF LockInv
<1>2. QED
  BY <1>1, LockInductive, PTL


---------------------------------------------------------------------------
(* At most one receipt, in the order of the revisions. *)

Unsettled == Open \cup {"none"}

\* A row that may still be sent has not reached anyone, and no row has reached
\* its recipient twice; unless the row is excused.
ReceiptInv ==
  \A d \in Deliveries : d \notin excused =>
    /\ received[d] <= 1
    /\ queue[d].status \in Unsettled => received[d] = 0

\* Nothing has been received that was not published.
ReachInv == \A d \in Deliveries : received[d] > 0 => d.rev <= alert.rev

\* What every step does to the history: only a send adds to it, one copy of a
\* current delivery whose row was still open.
LEMMA ReceiptStep ==
  ASSUME TypeOK, LockInv, [Next]_vars
  PROVE  \/ UNCHANGED received
         \/ \E r \in Deliveries :
              /\ received' = [received EXCEPT ![r] = @ + 1]
              /\ queue[r].status \in Open
              /\ IsCurrent(r)
              /\ active /\ UNCHANGED <<active, alert>>
              /\ r \in excused' \/ queue'[r].status \notin Unsettled
<1>1. ASSUME NEW w \in Workers, Sending(w)
      PROVE  /\ worker[w].row \in Deliveries
             /\ queue[worker[w].row].status \in Open
             /\ IsCurrent(worker[w].row)
             /\ MarkFence(w)
  BY <1>1, BusyIsJob
     DEF Sending, Jobs, LockInv, SendContained, SendOwnsItsRow, HoldsAttempt, MarkFence
<1>2. ASSUME NEW w \in Workers, Sending(w), NEW st \in {"sent", "dead_letter"}, Mark(w, st)
      PROVE  queue'[worker[w].row].status \notin Unsettled
  BY <1>1, <1>2 DEF Mark, TypeOK, Unsettled, Open, Rows
<1>3. ASSUME NEW w \in Workers, SendSucceeds(w)
      PROVE  \E r \in Deliveries :
               /\ received' = [received EXCEPT ![r] = @ + 1]
               /\ queue[r].status \in Open
               /\ IsCurrent(r)
               /\ active /\ UNCHANGED <<active, alert>>
               /\ r \in excused' \/ queue'[r].status \notin Unsettled
  <2>1. Sending(w) /\ Mark(w, "sent") /\ Arrive(w, TRUE) /\ active /\ UNCHANGED <<active, alert>>
    BY <1>1, <1>3 DEF SendSucceeds, Mark, MarkFence
  <2>2. received' = [received EXCEPT ![worker[w].row] = @ + 1]
    BY <2>1 DEF Arrive
  <2>3. worker[w].row \in Deliveries
    BY <1>1, <2>1
  <2>4. QED
    BY <1>1, <1>2, <2>1, <2>2, <2>3
<1>4. ASSUME NEW w \in Workers, NEW arrived \in BOOLEAN, SendGivesUp(w, arrived), arrived
      PROVE  \E r \in Deliveries :
               /\ received' = [received EXCEPT ![r] = @ + 1]
               /\ queue[r].status \in Open
               /\ IsCurrent(r)
               /\ active /\ UNCHANGED <<active, alert>>
               /\ r \in excused' \/ queue'[r].status \notin Unsettled
  <2>1. Sending(w) /\ Mark(w, "dead_letter") /\ Arrive(w, arrived) /\ active /\ UNCHANGED <<active, alert>>
    BY <1>1, <1>4 DEF SendGivesUp, Mark, MarkFence
  <2>2. received' = [received EXCEPT ![worker[w].row] = @ + 1]
    BY <1>4, <2>1 DEF Arrive
  <2>3. worker[w].row \in Deliveries
    BY <1>1, <2>1
  <2>4. QED
    BY <1>1, <1>2, <2>1, <2>2, <2>3
<1>5. ASSUME NEW w \in Workers, NEW arrived \in BOOLEAN, Crash(w, arrived), arrived
      PROVE  \E r \in Deliveries :
               /\ received' = [received EXCEPT ![r] = @ + 1]
               /\ queue[r].status \in Open
               /\ IsCurrent(r)
               /\ active /\ UNCHANGED <<active, alert>>
               /\ r \in excused' \/ queue'[r].status \notin Unsettled
  <2>1. Sending(w) /\ Arrive(w, arrived) /\ active /\ UNCHANGED <<active, alert>> /\ worker[w].row \in excused'
    BY <1>1, <1>5 DEF Crash, MarkFence
  <2>2. received' = [received EXCEPT ![worker[w].row] = @ + 1]
    BY <1>5, <2>1 DEF Arrive
  <2>3. worker[w].row \in Deliveries
    BY <1>1, <2>1
  <2>4. QED
    BY <1>1, <2>1, <2>2, <2>3
<1>6. ASSUME NEW w \in Workers, NEW arrived \in BOOLEAN, ~arrived,
             SendGivesUp(w, arrived) \/ Crash(w, arrived)
      PROVE  UNCHANGED received
  BY <1>6 DEF SendGivesUp, Crash, Arrive
<1>7. CASE Environment
  BY <1>7 DEF Environment, Publish, Replay, Expire, RetryDelivery, Acknowledge, Elapse,
              SetSource, SetChannel, history
<1>8. ASSUME NEW w \in Workers,
             \/ \E d \in Deliveries : Claim(w, d)
             \/ BeginSend(w) \/ StartSend(w) \/ SkipClaimed(w) \/ LeaseLost(w)
             \/ SendFails(w)
      PROVE  UNCHANGED received
  BY <1>8 DEF Claim, BeginSend, StartSend, SkipClaimed, LeaseLost, SendFails, history
<1>9. CASE UNCHANGED vars
  BY <1>9 DEF vars
<1>10. QED
  BY <1>3, <1>4, <1>5, <1>6, <1>7, <1>8, <1>9 DEF Next, Process

\* A settled row is never unsettled again, except by the operator's retry.
LEMMA SettledStep ==
  ASSUME TypeOK, LockInv, [Next]_vars, NEW d \in Deliveries, d \notin excused',
         queue'[d].status \in Unsettled
  PROVE  queue[d].status \in Unsettled
<1> USE DEF Unsettled, Open
<1>1. ASSUME NEW a, NEW m, queue' = Enqueued(a, m) PROVE queue[d].status \in Unsettled
  BY <1>1 DEF Enqueued, TypeOK, Rows
<1>2. CASE Environment
  <2>1. ASSUME NEW e \in Deliveries, RetryDelivery(e) PROVE queue[d].status \in Unsettled
    BY <2>1 DEF RetryDelivery, TypeOK
  <2>2. ASSUME NEW e \in Deliveries, Acknowledge(e) \/ Elapse(e)
        PROVE  queue[d].status \in Unsettled
    BY <2>2 DEF Acknowledge, Elapse, TypeOK, Rows
  <2>3. QED
    BY <1>1, <1>2, <2>1, <2>2
       DEF Environment, Publish, Replay, Expire, SetSource, SetChannel
<1>3. ASSUME NEW w \in Workers, NEW st, Sending(w), Mark(w, st)
      PROVE  queue[d].status \in Unsettled
  <2>1. worker[w].row \in Deliveries /\ queue[worker[w].row].status \in Open
    BY <1>3, BusyIsJob DEF Sending, Jobs, LockInv, SendOwnsItsRow, HoldsAttempt
  <2>2. d = worker[w].row \/ queue'[d] = queue[d]
    BY <1>3, <2>1 DEF Mark, TypeOK
  <2>3. QED
    BY <2>1, <2>2
<1>4. ASSUME NEW w \in Workers, Process(w) PROVE queue[d].status \in Unsettled
  <2>1. ASSUME NEW e \in Deliveries, Claim(w, e) PROVE queue[d].status \in Unsettled
    BY <2>1 DEF Claim, Claimable, TypeOK, Rows
  <2>2. CASE SkipClaimed(w)
    <3>1. worker[w].row \in Deliveries
      BY <2>2, BusyIsJob DEF SkipClaimed, Jobs
    <3>2. QED
      BY <2>2, <3>1 DEF SkipClaimed, TypeOK, HoldsAttempt
  <2>3. QED
    BY <1>3, <1>4, <2>1, <2>2
       DEF Process, BeginSend, StartSend, LeaseLost, SendSucceeds, SendFails, SendGivesUp, Crash
<1>5. CASE UNCHANGED vars
  BY <1>5 DEF vars
<1>6. QED
  BY <1>2, <1>4, <1>5 DEF Next

\* Excuses are never withdrawn and revisions never go back.
LEMMA ForwardStep ==
  ASSUME TypeOK, [Next]_vars
  PROVE  excused \subseteq excused' /\ alert.rev <= alert'.rev
<1>1. alert.rev \in Nat
  BY BoundsAssumption DEF TypeOK
<1>2. CASE Environment
  <2>1. CASE \E type \in Feed, lapsed \in BOOLEAN, m \in SUBSET Targets :
               Publish(type, lapsed, m)
    BY <1>1, <2>1 DEF Publish, history
  <2>2. CASE Expire
    BY <1>1, <2>2 DEF Expire, history, TypeOK
  <2>3. CASE (\E m \in SUBSET Targets : Replay(m)) \/ SetSource \/ \E c \in Channels : SetChannel(c)
    BY <1>1, <2>3 DEF Replay, SetSource, SetChannel, history
  <2>4. CASE \E d \in Deliveries : RetryDelivery(d) \/ Acknowledge(d) \/ Elapse(d)
    BY <1>1, <2>4 DEF RetryDelivery, Acknowledge, Elapse, history
  <2>5. QED
    BY <1>2, <2>1, <2>2, <2>3, <2>4 DEF Environment
<1>3. ASSUME NEW w \in Workers, Process(w)
      PROVE  excused \subseteq excused' /\ UNCHANGED alert
  BY <1>3 DEF Process, Claim, BeginSend, StartSend, SkipClaimed, LeaseLost, SendSucceeds,
              SendFails, SendGivesUp, Crash, Mark, history
<1>4. CASE UNCHANGED vars
  BY <1>1, <1>4 DEF vars
<1>5. QED
  BY <1>1, <1>2, <1>3, <1>4 DEF Next

LEMMA ReceiptInductive ==
  TypeOK /\ LockInv /\ ReceiptInv /\ ReachInv /\ [Next]_vars => ReceiptInv' /\ ReachInv'
<1> SUFFICES ASSUME TypeOK, LockInv, ReceiptInv, ReachInv, [Next]_vars
             PROVE  ReceiptInv' /\ ReachInv'
  OBVIOUS
<1>1. excused \subseteq excused' /\ alert.rev <= alert'.rev
  BY ForwardStep
<1>2. ReceiptInv'
  <2> SUFFICES ASSUME NEW d \in Deliveries, d \notin excused'
               PROVE  /\ received'[d] <= 1
                      /\ queue'[d].status \in Unsettled => received'[d] = 0
    BY DEF ReceiptInv
  <2>1. CASE UNCHANGED received
    BY <1>1, <2>1, SettledStep DEF ReceiptInv
  <2>2. ASSUME NEW r \in Deliveries,
               received' = [received EXCEPT ![r] = @ + 1],
               queue[r].status \in Open,
               r \in excused' \/ queue'[r].status \notin Unsettled
        PROVE  /\ received'[d] <= 1
               /\ queue'[d].status \in Unsettled => received'[d] = 0
    <3>1. CASE d = r
      <4>1. received[d] = 0
        BY <1>1, <2>2, <3>1 DEF ReceiptInv, Unsettled
      <4>2. QED
        BY <2>2, <3>1, <4>1 DEF TypeOK
    <3>2. CASE d # r
      <4>1. received'[d] = received[d]
        BY <2>2, <3>2 DEF TypeOK
      <4>2. QED
        BY <1>1, <4>1, SettledStep DEF ReceiptInv
    <3>3. QED
      BY <3>1, <3>2
  <2>3. QED
    BY <2>1, <2>2, ReceiptStep
<1>3. ReachInv'
  <2> SUFFICES ASSUME NEW d \in Deliveries, received'[d] > 0 PROVE d.rev <= alert'.rev
    BY DEF ReachInv
  <2>0. d.rev \in Nat /\ alert.rev \in Nat /\ alert'.rev \in Nat
    BY TypeStep, BoundsAssumption DEF TypeOK, Deliveries, Revisions
  <2>1. CASE UNCHANGED received
    BY <1>1, <2>0, <2>1 DEF ReachInv
  <2>2. ASSUME NEW r \in Deliveries,
               received' = [received EXCEPT ![r] = @ + 1], IsCurrent(r), UNCHANGED alert
        PROVE  d.rev <= alert'.rev
    <3>1. CASE d = r
      BY <2>0, <2>2, <3>1 DEF IsCurrent
    <3>2. CASE d # r
      BY <1>1, <2>0, <2>2, <3>2 DEF ReachInv, TypeOK
    <3>3. QED
      BY <3>1, <3>2
  <2>3. QED
    BY <2>1, <2>2, ReceiptStep
<1>4. QED
  BY <1>2, <1>3

LEMMA ReceiptsInvariant == Spec => [](ReceiptInv /\ ReachInv)
<1>1. Init => ReceiptInv /\ ReachInv
  BY DEF Init, ReceiptInv, ReachInv, Deliveries
<1>2. QED
  BY <1>1, ReceiptInductive, TypeCorrect, LockInductive, PTL DEF Spec

\* A row reaches its recipient at most once, unless it is excused.
THEOREM AtMostOneReceipt == Spec => []AtMostOnceUnlessExcused
<1>1. TypeOK /\ ReceiptInv => AtMostOnceUnlessExcused
  BY DEF TypeOK, ReceiptInv, AtMostOnceUnlessExcused
<1>2. QED
  BY <1>1, ReceiptsInvariant, TypeCorrect, PTL

\* Nobody receives an older revision after a newer one.
THEOREM RevisionsAreMonotone == Spec => MonotoneRevisions
<1>1. ASSUME TypeOK, LockInv, ReachInv, [Next]_vars
      PROVE  [\A d, e \in Deliveries :
                received'[d] > received[d] /\ e.to = d.to /\ received[e] > 0
                  => e.rev <= d.rev]_vars
  <2> SUFFICES ASSUME NEW d \in Deliveries, NEW e \in Deliveries,
                      received'[d] > received[d], received[e] > 0
               PROVE  e.rev <= d.rev
    OBVIOUS
  <2>1. e.rev <= alert.rev
    BY <1>1 DEF ReachInv
  <2>2. ~UNCHANGED received
    BY <1>1 DEF TypeOK
  <2>3. PICK r \in Deliveries :
          received' = [received EXCEPT ![r] = @ + 1] /\ IsCurrent(r)
    BY <1>1, <2>2, ReceiptStep
  <2>4. d = r
    BY <1>1, <2>3 DEF TypeOK
  <2>5. QED
    BY <2>1, <2>3, <2>4 DEF IsCurrent
<1>2. QED
  BY <1>1, TypeCorrect, LockInductive, ReceiptsInvariant, PTL DEF Spec, MonotoneRevisions

---------------------------------------------------------------------------
(* Withdrawals. *)

\* No row is ahead of the alert, the expiry of the current revision is queued
\* only by its expiry, and every other row but a warning follows a warning.
QueueInv ==
  \A d \in Deliveries : queue[d].status # "none" =>
    /\ d.rev <= alert.rev
    /\ d.action = "expiry" /\ d.rev = alert.rev => alert.status = "expired"
    /\ d.action # "alert" =>
         \E e \in Deliveries : /\ e.to = d.to /\ e.action = "alert"
                               /\ e.rev <= d.rev /\ queue[e].status # "none"

\* A step that writes no new row and leaves the alert alone keeps QueueInv.
LEMMA NoNewRow ==
  ASSUME QueueInv, UNCHANGED alert,
         \A d \in Deliveries : queue'[d].status = "none" <=> queue[d].status = "none"
  PROVE  QueueInv'
BY DEF QueueInv

\* The three transactions that enqueue.
Enqueues(m) ==
  /\ queue' = Enqueued(alert', m)
  /\ alert'.rev \in 1..MaxRevision
  /\ \/ alert'.rev = alert.rev + 1
     \/ alert'.rev = alert.rev /\ alert' = alert
     \/ alert'.rev = alert.rev /\ alert.status = "active" /\ alert'.status = "expired"

\* A row that is written now is for a prior recipient, or it is a warning.
LEMMA NewRows ==
  ASSUME TypeOK, QueueInv, NEW m, Enqueues(m)
  PROVE  QueueInv'
<1> DEFINE act == LifecycleAction(alert'.type, alert'.status)
<1>1. alert.rev \in Nat /\ alert'.rev \in Nat /\ alert.rev <= alert'.rev
  BY BoundsAssumption DEF TypeOK, Enqueues
<1>2. ASSUME NEW d \in Deliveries
      PROVE  /\ queue[d].status # "none" => queue'[d].status # "none"
             /\ queue'[d].status # "none" /\ queue[d].status = "none" =>
                  d.rev = alert'.rev /\ d.action = act /\ d.to \in Addressees(act, m)
  BY DEF Enqueues, Enqueued, Open, NewRow, TypeOK, Rows
<1>3. SUFFICES ASSUME NEW d \in Deliveries, queue'[d].status # "none"
      PROVE  /\ d.rev <= alert'.rev
             /\ d.action = "expiry" /\ d.rev = alert'.rev => alert'.status = "expired"
             /\ d.action # "alert" =>
                  \E e \in Deliveries : /\ e.to = d.to /\ e.action = "alert"
                                        /\ e.rev <= d.rev /\ queue'[e].status # "none"
  BY DEF QueueInv
<1>4. d.rev \in Nat
  BY BoundsAssumption DEF Deliveries, Revisions
<1>5. CASE queue[d].status # "none"
  <2>1. d.rev <= alert'.rev
    BY <1>1, <1>4, <1>5 DEF QueueInv
  <2>2. d.action = "expiry" /\ d.rev = alert'.rev => alert'.status = "expired"
    BY <1>1, <1>4, <1>5 DEF QueueInv, Enqueues
  <2>3. QED
    BY <1>2, <1>5, <2>1, <2>2 DEF QueueInv
<1>6. CASE queue[d].status = "none"
  <2>1. d.rev = alert'.rev /\ d.action = act /\ d.to \in Addressees(act, m)
    BY <1>2, <1>3, <1>6
  <2>2. d.action = "expiry" => alert'.status = "expired"
    BY <2>1 DEF LifecycleAction
  <2>3. ASSUME d.action # "alert"
        PROVE  \E e \in Deliveries : /\ e.to = d.to /\ e.action = "alert"
                                     /\ e.rev <= d.rev /\ queue'[e].status # "none"
    <3>1. PICK f \in Deliveries : f.to = d.to /\ queue[f].status # "none"
      BY <2>1, <2>3 DEF Addressees, PriorRecipients
    <3>2. f.rev <= alert.rev /\ f.rev \in Nat
      BY <3>1, BoundsAssumption DEF QueueInv, Deliveries, Revisions
    <3>3. CASE f.action = "alert"
      BY <1>1, <1>2, <2>1, <3>1, <3>2, <3>3
    <3>4. CASE f.action # "alert"
      <4>1. PICK e \in Deliveries : /\ e.to = f.to /\ e.action = "alert"
                                    /\ e.rev <= f.rev /\ queue[e].status # "none"
        BY <3>1, <3>4 DEF QueueInv
      <4>2. e.rev \in Nat
        BY BoundsAssumption DEF Deliveries, Revisions
      <4>3. e.rev <= d.rev
        BY <1>1, <2>1, <3>2, <4>1, <4>2
      <4>4. QED
        BY <1>2, <3>1, <4>1, <4>3
    <3>5. QED
      BY <3>3, <3>4
  <2>4. QED
    BY <1>1, <2>1, <2>2, <2>3
<1>7. QED
  BY <1>5, <1>6

\* Every step enqueues, or neither writes a row nor touches the alert.
LEMMA QueueStep ==
  ASSUME TypeOK, [Next]_vars
  PROVE  \/ \E m \in SUBSET Targets : Enqueues(m)
         \/ /\ UNCHANGED alert
            /\ \A d \in Deliveries : queue'[d].status = "none" <=> queue[d].status = "none"
<1> DEFINE Kept == \A d \in Deliveries : queue'[d].status = "none" <=> queue[d].status = "none"
<1>1. ASSUME NEW type \in Feed, NEW lapsed \in BOOLEAN, NEW m \in SUBSET Targets,
             Publish(type, lapsed, m)
      PROVE  Enqueues(m)
  BY <1>1, BoundsAssumption DEF Publish, Enqueues, TypeOK
<1>2. ASSUME NEW m \in SUBSET Targets, Replay(m) PROVE Enqueues(m)
  BY <1>2, BoundsAssumption DEF Replay, Enqueues, TypeOK
<1>3. ASSUME Expire PROVE Enqueues({})
  BY <1>3, BoundsAssumption DEF Expire, Enqueues, TypeOK
<1>4. ASSUME NEW d \in Deliveries, RetryDelivery(d) \/ Acknowledge(d) \/ Elapse(d)
      PROVE  UNCHANGED alert /\ Kept
  BY <1>4 DEF RetryDelivery, Acknowledge, Elapse, TypeOK, Rows, Open, NewRow
<1>5. ASSUME SetSource \/ \E c \in Channels : SetChannel(c) PROVE UNCHANGED alert /\ Kept
  BY <1>5 DEF SetSource, SetChannel
<1>6. ASSUME NEW w \in Workers, NEW st \in RowStatuses, Sending(w), Mark(w, st)
      PROVE  UNCHANGED alert /\ Kept
  <2>1. worker[w].row \in Deliveries /\ st # "none"
    BY <1>6, BusyIsJob DEF Sending, Jobs, RowStatuses
  <2>2. MarkFence(w) => queue[worker[w].row].status \in Open
    BY DEF MarkFence, HoldsAttempt
  <2>3. QED
    BY <1>6, <2>1, <2>2 DEF Mark, TypeOK, Rows, Open
<1>7. ASSUME NEW w \in Workers, Process(w) PROVE UNCHANGED alert /\ Kept
  <2>1. ASSUME NEW d \in Deliveries, Claim(w, d) PROVE UNCHANGED alert /\ Kept
    BY <2>1 DEF Claim, TypeOK, Rows
  <2>2. CASE SkipClaimed(w)
    <3>1. worker[w].row \in Deliveries
      BY <2>2, BusyIsJob DEF SkipClaimed, Jobs
    <3>2. QED
      BY <2>2, <3>1 DEF SkipClaimed, HoldsAttempt, Open, TypeOK, Rows
  <2>3. CASE BeginSend(w) \/ StartSend(w) \/ LeaseLost(w) \/ \E arrived \in BOOLEAN : Crash(w, arrived)
    BY <2>3 DEF BeginSend, StartSend, LeaseLost, Crash
  <2>4. CASE SendSucceeds(w) \/ SendFails(w) \/ \E arrived \in BOOLEAN : SendGivesUp(w, arrived)
    BY <1>6, <2>4 DEF SendSucceeds, SendFails, SendGivesUp, RowStatuses
  <2>5. QED
    BY <1>7, <2>1, <2>2, <2>3, <2>4 DEF Process
<1>8. CASE UNCHANGED vars
  BY <1>8 DEF vars
<1>9. QED
  BY <1>1, <1>2, <1>3, <1>4, <1>5, <1>7, <1>8 DEF Next, Environment

LEMMA QueueInvariant == Spec => []QueueInv
<1>1. Init => QueueInv
  BY DEF Init, QueueInv, NoRow
<1>2. TypeOK /\ QueueInv /\ [Next]_vars => QueueInv'
  BY NoNewRow, NewRows, QueueStep
<1>3. QED
  BY <1>1, <1>2, TypeCorrect, PTL DEF Spec

\* Nobody is told of a change who had no warning (PriorRecipients).
THEOREM WithdrawalsFollow == Spec => []WithdrawalFollowsWarning
<1>1. QueueInv => WithdrawalFollowsWarning
  BY DEF QueueInv, WithdrawalFollowsWarning
<1>2. QED
  BY <1>1, QueueInvariant, PTL

\* A change is queued for everyone who was told before and can be reached,
\* in the transaction that makes it (enqueue_official_alert_revision).
THEOREM WithdrawalsReach == Spec => WithdrawalReachesRecorded
<1> DEFINE act == LifecycleAction(alert'.type, alert'.status)
           of(t) == [to |-> t, rev |-> alert'.rev, action |-> act]
<1>1. ASSUME TypeOK, TypeOK', QueueInv, [Next]_vars, alert' # alert, act # "alert",
             NEW d \in Deliveries, queue[d].status \in {"sent", "acknowledged"}, d.to[2] \in on
      PROVE  queue'[of(d.to)].status = "pending"
  <2>1. PICK m \in SUBSET Targets : Enqueues(m)
    BY <1>1, QueueStep
  <2>2. of(d.to) \in Deliveries
    <3>1. act \in Actions
      BY DEF LifecycleAction, Actions
    <3>2. d.to \in Targets /\ alert'.rev \in Revisions
      BY <2>1 DEF Enqueues, Deliveries, Revisions
    <3>3. QED
      BY <3>1, <3>2 DEF Deliveries
  <2>3. d.to \in Addressees(act, m)
    BY <1>1 DEF Addressees, PriorRecipients, Deliveries
  <2>4. queue[of(d.to)].status = "none"
    <3>1. CASE alert'.rev = alert.rev + 1
      <4>1. alert.rev \in Nat /\ ~(alert.rev + 1 <= alert.rev)
        BY <1>1, BoundsAssumption DEF TypeOK
      <4>2. QED
        BY <1>1, <2>2, <3>1, <4>1 DEF QueueInv
    <3>2. CASE alert'.rev = alert.rev /\ alert.status = "active" /\ alert'.status = "expired"
      BY <1>1, <2>2, <3>2 DEF QueueInv, LifecycleAction
    <3>3. QED
      BY <1>1, <2>1, <3>1, <3>2 DEF Enqueues
  <2>5. queue'[of(d.to)] = NewRow
    BY <2>1, <2>2, <2>3, <2>4 DEF Enqueues, Enqueued
  <2>6. QED
    BY <2>5 DEF NewRow
<1>2. ASSUME TypeOK, TypeOK', QueueInv, [Next]_vars
      PROVE  [LET ac == LifecycleAction(alert'.type, alert'.status)
                  at(t) == [to |-> t, rev |-> alert'.rev, action |-> ac]
              IN  alert' # alert /\ ac # "alert" =>
                    \A d \in Deliveries :
                      queue[d].status \in {"sent", "acknowledged"} /\ d.to[2] \in on
                        => queue'[at(d.to)].status = "pending"]_vars
  BY <1>1, <1>2
<1>3. QED
  BY <1>2, TypeCorrect, QueueInvariant, PTL DEF Spec, WithdrawalReachesRecorded

---------------------------------------------------------------------------
(* Delivery implements the feed. *)

\* The newest revision of the history rec that target t has received.
Newest(rec, t, r) ==
  /\ r = 0 \/ \E d \in Deliveries : d.to = t /\ d.rev = r /\ rec[d] > 0
  /\ \A d \in Deliveries : d.to = t /\ rec[d] > 0 => d.rev <= r
LatestOf(rec, t) ==
  CHOOSE r \in 0..MaxRevision :
    /\ r = 0 \/ \E d \in Deliveries : d.to = t /\ d.rev = r /\ rec[d] > 0
    /\ \A d \in Deliveries : d.to = t /\ rec[d] > 0 => d.rev <= r

\* Every target has a newest revision, 0 before the first.
LatestInv == \A t \in Targets : \E r \in 0..MaxRevision : Newest(received, t, r)

\* There is but one newest revision.
LEMMA LatestIsNewest ==
  ASSUME NEW rec, NEW t, NEW r \in 0..MaxRevision, Newest(rec, t, r)
  PROVE  LatestOf(rec, t) = r
<1>1. \A d \in Deliveries : d.rev \in 1..MaxRevision
  BY DEF Deliveries, Revisions
<1>2. ASSUME NEW x \in 0..MaxRevision, Newest(rec, t, x) PROVE x = r
  <2>1. x <= r
    BY <1>1, <1>2, BoundsAssumption DEF Newest
  <2>2. r <= x
    BY <1>1, <1>2, BoundsAssumption DEF Newest
  <2>3. QED
    BY <2>1, <2>2, BoundsAssumption
<1> DEFINE l == LatestOf(rec, t)
<1>3. l \in 0..MaxRevision /\ Newest(rec, t, l)
  BY DEF LatestOf, Newest
<1>4. QED
  BY <1>2, <1>3

\* A delivery makes the revision it carries the newest one of its recipient.
LEMMA LatestStep ==
  ASSUME TypeOK, ReachInv, LatestInv, NEW r \in Deliveries, IsCurrent(r),
         received' = [received EXCEPT ![r] = @ + 1], NEW t \in Targets
  PROVE  /\ t = r.to => Newest(received', t, alert.rev)
         /\ t # r.to => \A x \in 0..MaxRevision :
                          Newest(received, t, x) => Newest(received', t, x)
<1>1. \A d \in Deliveries : received[d] \in Nat /\ received'[d] \in Nat
  BY DEF TypeOK
<1>2. received'[r] > 0 /\ \A d \in Deliveries : d # r => received'[d] = received[d]
  BY <1>1 DEF TypeOK
<1>3. r.rev = alert.rev /\ alert.rev \in Nat
  BY BoundsAssumption DEF IsCurrent, TypeOK
<1>4. \A d \in Deliveries : received'[d] > 0 => d.rev <= alert.rev
  BY <1>2, <1>3 DEF ReachInv
<1>5. QED
  BY <1>2, <1>3, <1>4 DEF Newest

LEMMA LatestInductive ==
  TypeOK /\ LockInv /\ ReachInv /\ LatestInv /\ [Next]_vars => LatestInv'
<1> SUFFICES ASSUME TypeOK, LockInv, ReachInv, LatestInv, [Next]_vars,
                    NEW t \in Targets
             PROVE  \E x \in 0..MaxRevision : Newest(received', t, x)
  BY DEF LatestInv
<1>1. PICK x \in 0..MaxRevision : Newest(received, t, x)
  BY DEF LatestInv
<1>2. CASE UNCHANGED received
  BY <1>1, <1>2
<1>3. ASSUME NEW r \in Deliveries,
             received' = [received EXCEPT ![r] = @ + 1], IsCurrent(r)
      PROVE  \E y \in 0..MaxRevision : Newest(received', t, y)
  <2>1. alert.rev \in 0..MaxRevision
    BY DEF TypeOK
  <2>2. QED
    BY <1>1, <1>3, <2>1, LatestStep
<1>4. QED
  BY <1>2, <1>3, ReceiptStep

\* What a step does to the feed of WarningFeed.
LEMMA FeedStep ==
  ASSUME TypeOK, LockInv, ReachInv, LatestInv, [Next]_vars
  PROVE  [Abstract!Next]_(Abstract!feed)
<1> DEFINE latest == [t \in Targets |-> LatestRevision(t)]
<1>1. /\ \A t \in Targets : LatestRevision(t) = LatestOf(received, t)
      /\ \A t \in Targets : LatestRevision(t)' = LatestOf(received', t)
  BY DEF LatestRevision, LatestOf
<1>2. alert.rev \in 0..MaxRevision /\ alert.rev \in Nat
  BY BoundsAssumption DEF TypeOK
<1>3. CASE UNCHANGED received
  <2>1. latest' = latest
    BY <1>1, <1>3
  <2>2. CASE UNCHANGED <<active, alert>>
    BY <2>1, <2>2 DEF Abstract!feed
  <2>3. ASSUME NEW type \in Feed, NEW lapsed \in BOOLEAN, NEW m \in SUBSET Targets,
               Publish(type, lapsed, m)
        PROVE  Abstract!Announce
    BY <1>2, <2>1, <2>3 DEF Publish, Abstract!Announce
  <2>4. ASSUME SetSource PROVE Abstract!Switch
    BY <2>1, <2>4 DEF SetSource, Abstract!Switch
  <2>5. ASSUME Expire PROVE UNCHANGED Abstract!feed
    <3>1. alert'.rev = alert.rev
      BY <2>5 DEF Expire, TypeOK
    <3>2. QED
      BY <2>1, <2>5, <3>1 DEF Expire, Abstract!feed
  <2>6. ASSUME ~SetSource, ~Expire,
               ~\E type \in Feed, lapsed \in BOOLEAN, m \in SUBSET Targets : Publish(type, lapsed, m)
        PROVE  UNCHANGED <<active, alert>>
    BY <2>6 DEF Next, vars, Environment, Process, Replay, RetryDelivery, Acknowledge, Elapse,
                SetChannel, Claim, BeginSend, StartSend, SkipClaimed, LeaseLost, SendSucceeds,
                SendFails, SendGivesUp, Crash, Mark
  <2>7. QED
    BY <2>2, <2>3, <2>4, <2>5, <2>6 DEF Abstract!Next
<1>4. ASSUME NEW r \in Deliveries,
             received' = [received EXCEPT ![r] = @ + 1], IsCurrent(r),
             active, UNCHANGED <<active, alert>>
      PROVE  Abstract!Deliver(r.to)
  <2>1. r.to \in Targets /\ alert.rev > 0
    BY <1>2, <1>4, BoundsAssumption DEF IsCurrent, Deliveries, Revisions
  <2>2. ASSUME NEW t \in Targets
        PROVE  LatestRevision(t)' = IF t = r.to THEN alert.rev ELSE LatestRevision(t)
    <3>1. CASE t = r.to
      <4>1. Newest(received', t, alert.rev)
        BY <1>4, <3>1, LatestStep
      <4>2. LatestOf(received', t) = alert.rev
        BY <1>2, <4>1, LatestIsNewest
      <4>3. QED
        BY <1>1, <3>1, <4>2
    <3>2. CASE t # r.to
      <4>1. PICK x \in 0..MaxRevision : Newest(received, t, x)
        BY DEF LatestInv
      <4>2. Newest(received', t, x)
        BY <1>4, <3>2, <4>1, LatestStep
      <4>3. LatestOf(received, t) = x /\ LatestOf(received', t) = x
        BY <4>1, <4>2, LatestIsNewest
      <4>4. QED
        BY <1>1, <3>2, <4>3
    <3>3. QED
      BY <3>1, <3>2
  <2>3. latest' = [latest EXCEPT ![r.to] = alert.rev]
    BY <2>1, <2>2
  <2>4. QED
    BY <1>4, <2>1, <2>3 DEF Abstract!Deliver
<1>5. ASSUME NEW r \in Deliveries, Abstract!Deliver(r.to) PROVE Abstract!Next
  <2>1. r.to \in Targets
    BY DEF Deliveries
  <2>2. QED
    BY <1>5, <2>1 DEF Abstract!Next
<1>6. QED
  BY <1>3, <1>4, <1>5, ReceiptStep

\* Delivery implements the feed: revisions only move forward, and what reaches
\* a recipient is the current one while the source is open (WarningFeed).
THEOREM ImplementsTheFeed == Spec => ImplementsFeed
<1>1. Init => LatestInv
  BY BoundsAssumption DEF Init, LatestInv, Newest
<1>2. Init => Abstract!Init
  <2> SUFFICES ASSUME Init PROVE Abstract!Init
    OBVIOUS
  <2>1. \A t \in Targets : LatestOf(received, t) = 0
    <3>1. 0 \in 0..MaxRevision
      BY BoundsAssumption
    <3>2. \A t \in Targets : Newest(received, t, 0)
      BY DEF Init, Newest
    <3>3. QED
      BY <3>1, <3>2, LatestIsNewest
  <2>2. [t \in Targets |-> LatestRevision(t)] = [t \in Targets |-> 0]
    BY <2>1 DEF LatestRevision, LatestOf
  <2>3. QED
    BY <2>2 DEF Init, Abstract!Init
<1>3. Spec => []LatestInv
  BY <1>1, LatestInductive, TypeCorrect, LockInductive, ReceiptsInvariant, PTL DEF Spec
<1>4. QED
  BY <1>2, <1>3, FeedStep, TypeCorrect, LockInductive, ReceiptsInvariant, PTL
     DEF Spec, ImplementsFeed, Abstract!Spec

=============================================================================
