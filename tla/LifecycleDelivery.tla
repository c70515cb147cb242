------------------------- MODULE LifecycleDelivery -------------------------
(***************************************************************************)
(* Delivery of official-alert lifecycle messages by the worker             *)
(* (apps/worker/alerts/lifecycle_delivery.py): one official source, one    *)
(* source alert identifier with its revisions, the rows of                 *)
(* ews_notification_log that announce them, and the worker processes that  *)
(* claim, send and mark those rows.                                        *)
(*                                                                         *)
(* A database transaction that makes no external call is one action.  The  *)
(* send transaction of a worker does make one, so it is several: it begins *)
(* (BeginSend), takes the advisory source lock, the FOR SHARE locks and    *)
(* the row lock (StartSend), and commits with the outcome or rolls back.   *)
(*                                                                         *)
(* next_attempt_at is kept as the Boolean "due" (next_attempt_at <= now()),*)
(* which time makes TRUE at any moment (Elapse).                           *)
(***************************************************************************)
EXTENDS Naturals

CONSTANTS
  Subscribers,   \* active rows of ews_subscribers
  Channels,      \* ews_channel_settings.channel
  Workers,       \* processes that run process_due_deliveries
  Feed,          \* bound: the message types the source publishes
  MaxAttempts,   \* MAX_DELIVERY_ATTEMPTS
  MaxRevision,   \* bound: revisions the source publishes for the alert
  MaxFaults,     \* bound: worker crashes, and stalls longer than a lease
  MaxRetries     \* bound: calls of the operator's retry endpoint

ASSUME BoundsAssumption ==
  /\ MaxAttempts \in Nat \ {0}
  /\ MaxRevision \in Nat \ {0}
  /\ MaxFaults \in Nat
  /\ MaxRetries \in Nat
  /\ Feed \subseteq {"alert", "update", "cancel"}

Targets == Subscribers \X Channels
Revisions == 1..MaxRevision
MessageTypes == {"alert", "update", "cancel"}  \* official_alerts.message_type
Actions == {"alert", "update", "cancellation", "expiry"}

\* The unique key of ews_notification_log for one source alert.
Deliveries == [to : Targets, rev : Revisions, action : Actions]

Open == {"pending", "failed"}
RowStatuses == {"pending", "failed", "sent", "acknowledged", "skipped", "dead_letter"}
Rows == [status : RowStatuses \cup {"none"}, attempts : 0..MaxAttempts, due : BOOLEAN]
NoRow == [status |-> "none", attempts |-> 0, due |-> FALSE]
NewRow == [status |-> "pending", attempts |-> 0, due |-> TRUE]

VARIABLES
  active,    \* official_source_settings: enabled and run_mode = 'active'
  on,        \* the channels whose ews_channel_settings.is_enabled is TRUE
  alert,     \* the official_alerts row with is_current; rev 0 when there is none
  queue,     \* ews_notification_log, by unique key
  worker,    \* the local variables of process_due_deliveries, per process
  faults,    \* faults so far
  retries,   \* operator retries so far
  received,  \* history: how often the provider passed a delivery on
  excused    \* history: deliveries whose outcome was lost, or retried by hand

vars == <<active, on, alert, queue, worker, faults, retries, received, excused>>

history == <<received, excused>>

Idle == [phase |-> "idle"]
Jobs == [phase : {"claimed", "waiting", "sending"}, row : Deliveries,
         attempt : 1..MaxAttempts, fresh : BOOLEAN]

Init ==
  /\ active \in BOOLEAN
  /\ on \in SUBSET Channels
  /\ alert = [rev |-> 0, type |-> "alert", status |-> "active"]
  /\ queue = [d \in Deliveries |-> NoRow]
  /\ worker = [w \in Workers |-> Idle]
  /\ faults = 0
  /\ retries = 0
  /\ received = [d \in Deliveries |-> 0]
  /\ excused = {}

---------------------------------------------------------------------------
(* Enqueueing a revision. *)

LifecycleAction(type, status) ==
  IF status = "expired" THEN "expiry"
  ELSE IF type = "cancel" THEN "cancellation"
  ELSE IF type = "update" THEN "update"
  ELSE "alert"

Sending(w) == worker[w].phase = "sending"

\* Mutant: nobody takes the advisory lock.
NoSourceLock == TRUE

\* pg_advisory_xact_lock of the source.  Only a send transaction keeps it
\* across steps; every other holder is a single action here.
SourceLockFree == \A w \in Workers : ~Sending(w)

\* Mutant: SKIP LOCKED reads the row version from before the open transaction.
NoRowLock(d) == FALSE

RowLocked(d) == \E w \in Workers : Sending(w) /\ worker[w].row = d

\* Mutant: a change is broadcast instead of following the earlier rows.
EveryTarget == Targets

\* Mutant: an acknowledged warning no longer counts as a receipt.
UnseenRecipients ==
  {t \in Targets : \E d \in Deliveries :
     d.to = t /\ queue[d].status \in {"pending", "failed", "sent"}}

\* Who has a row that counts as an earlier receipt.
PriorRecipients ==
  {t \in Targets : \E d \in Deliveries :
     /\ d.to = t
     /\ queue[d].status \in {"pending", "failed", "sent", "acknowledged"}}

\* A new warning goes to the matching subscribers, everything later to the
\* prior recipients; either way the channel must be enabled.
Addressees(action, matching) ==
  {t \in (IF action = "alert" THEN matching ELSE PriorRecipients) : t[2] \in on}

\* INSERT ... ON CONFLICT DO NOTHING, then the stale rows are skipped.
Enqueued(a, matching) ==
  LET act == LifecycleAction(a.type, a.status)
      to == Addressees(act, matching)
  IN  [d \in Deliveries |->
         IF d.rev = a.rev /\ d.action = act /\ d.to \in to /\ queue[d].status = "none"
           THEN NewRow
         ELSE IF d.rev < a.rev /\ queue[d].status \in Open
           THEN [queue[d] EXCEPT !.status = "skipped", !.due = FALSE]
         ELSE queue[d]]

\* persist_official_alert_revision of a message newer than the current one.
\* "lapsed": its expires_at is already past when it is ingested.
Publish(type, lapsed, matching) ==
  /\ SourceLockFree
  /\ active
  /\ alert.rev < MaxRevision
  /\ alert' = [rev |-> alert.rev + 1, type |-> type,
               status |-> IF type = "cancel" THEN "cancelled"
                          ELSE IF lapsed THEN "expired" ELSE "active"]
  /\ queue' = Enqueued(alert', matching)
  /\ UNCHANGED <<active, on, worker, faults, retries, history>>

\* persist_official_alert_revision of a message already stored: the current
\* revision is enqueued again (every poll replays the whole feed).
Replay(matching) ==
  /\ SourceLockFree
  /\ active
  /\ alert.rev > 0
  /\ queue' = Enqueued(alert, matching)
  /\ UNCHANGED <<active, on, alert, worker, faults, retries, history>>

\* expire_and_enqueue_official_alert_revisions: the revision stays current.
Expire ==
  /\ SourceLockFree
  /\ active
  /\ alert.rev > 0
  /\ alert.status = "active"
  /\ alert' = [alert EXCEPT !.status = "expired"]
  /\ queue' = Enqueued(alert', {})
  /\ UNCHANGED <<active, on, worker, faults, retries, history>>

---------------------------------------------------------------------------
(* process_due_deliveries. *)

\* Mutant: the claim forgets attempt_count < $1.
ClaimableForever(d) ==
  /\ queue[d].status \in Open
  /\ queue[d].due
  /\ d.to[2] \in on
  /\ ~RowLocked(d)

\* FOR UPDATE SKIP LOCKED over the due rows of enabled channels.
Claimable(d) ==
  /\ queue[d].status \in Open
  /\ queue[d].due
  /\ queue[d].attempts < MaxAttempts
  /\ d.to[2] \in on
  /\ ~RowLocked(d)

\* The claim commits on its own: it counts the attempt and leases the row.
Claim(w, d) ==
  /\ worker[w] = Idle
  /\ Claimable(d)
  /\ queue' = [queue EXCEPT ![d].attempts = @ + 1, ![d].due = FALSE]
  /\ worker' = [worker EXCEPT ![w] =
                  [phase |-> "claimed", row |-> d,
                   attempt |-> queue[d].attempts + 1, fresh |-> FALSE]]
  /\ UNCHANGED <<active, on, alert, faults, retries, history>>

\* The send transaction starts.  now() stays at this moment while the
\* worker waits for the source lock, so "fresh" is decided here.
BeginSend(w) ==
  /\ worker[w].phase = "claimed"
  /\ worker' = [worker EXCEPT ![w].phase = "waiting",
                              ![w].fresh = ~queue[worker[w].row].due]
  /\ UNCHANGED <<active, on, alert, queue, faults, retries, history>>

\* Mutant: the fence forgets attempt_count.
HoldsOpenRow(w) == queue[worker[w].row].status \in Open

\* attempt_count = $2 AND status IN ('pending', 'failed')
HoldsAttempt(w) ==
  /\ queue[worker[w].row].status \in Open
  /\ queue[worker[w].row].attempts = worker[w].attempt

\* _LOCK_QUEUE_FOR_SEND: the lease was running when the transaction began,
\* or somebody has moved next_attempt_at forward since.
LeaseValid(w) ==
  /\ HoldsAttempt(w)
  /\ worker[w].fresh \/ ~queue[worker[w].row].due

\* Mutant: is_current is not read.
AnyRevision(d) == TRUE

IsCurrent(d) == d.rev = alert.rev

\* All locks taken in the order source, setting, alert, row.
StartSend(w) ==
  /\ worker[w].phase = "waiting"
  /\ SourceLockFree
  /\ active
  /\ IsCurrent(worker[w].row)
  /\ LeaseValid(w)
  /\ worker' = [worker EXCEPT ![w].phase = "sending"]
  /\ UNCHANGED <<active, on, alert, queue, faults, retries, history>>

\* The source was contained, or the revision replaced, after the claim.
SkipClaimed(w) ==
  /\ worker[w].phase = "waiting"
  /\ SourceLockFree
  /\ ~active \/ ~IsCurrent(worker[w].row)
  /\ queue' = IF HoldsAttempt(w)
                THEN [queue EXCEPT ![worker[w].row].status = "skipped",
                                   ![worker[w].row].due = FALSE]
                ELSE queue
  /\ worker' = [worker EXCEPT ![w] = Idle]
  /\ UNCHANGED <<active, on, alert, faults, retries, history>>

\* The lease ran out before the transaction began, or the row has moved on.
LeaseLost(w) ==
  /\ worker[w].phase = "waiting"
  /\ SourceLockFree
  /\ active
  /\ IsCurrent(worker[w].row)
  /\ ~LeaseValid(w)
  /\ worker' = [worker EXCEPT ![w] = Idle]
  /\ UNCHANGED <<active, on, alert, queue, faults, retries, history>>

\* The fence of _MARK_SENT and _MARK_FAILED.
MarkFence(w) ==
  /\ HoldsAttempt(w)
  /\ IsCurrent(worker[w].row)
  /\ active

Mark(w, status) ==
  /\ queue' = IF MarkFence(w)
                THEN [queue EXCEPT ![worker[w].row].status = status,
                                   ![worker[w].row].due = FALSE]
                ELSE [queue EXCEPT ![worker[w].row].due = FALSE]
  /\ worker' = [worker EXCEPT ![w] = Idle]
  /\ UNCHANGED <<active, on, alert, faults, retries>>

\* The provider may have passed the message of w on.
Arrive(w, arrived) ==
  received' = IF arrived
                THEN [received EXCEPT ![worker[w].row] = @ + 1]
                ELSE received

\* The provider accepted the message.
SendSucceeds(w) ==
  /\ Sending(w)
  /\ Arrive(w, TRUE)
  /\ Mark(w, "sent")
  /\ UNCHANGED excused

\* Mutant: attempts > MAX_DELIVERY_ATTEMPTS.
SendFailsOffByOne(w) ==
  /\ Sending(w)
  /\ Mark(w, IF worker[w].attempt > MaxAttempts THEN "dead_letter" ELSE "failed")
  /\ UNCHANGED history

\* A definite failure that may be retried: dead letter at the last attempt.
SendFails(w) ==
  /\ Sending(w)
  /\ Mark(w, IF worker[w].attempt >= MaxAttempts THEN "dead_letter" ELSE "failed")
  /\ UNCHANGED history

\* A result the adapter calls not retryable: a refusal, or an outcome it
\* cannot know (timeout, dropped connection), when the message may be out.
SendGivesUp(w, arrived) ==
  /\ Sending(w)
  /\ Arrive(w, arrived)
  /\ Mark(w, "dead_letter")
  /\ UNCHANGED excused

\* The process dies, or an exception leaves process_due_deliveries: the open
\* transaction rolls back, the claim stays.  A send under way may arrive.
Crash(w, arrived) ==
  /\ faults < MaxFaults
  /\ worker[w] # Idle
  /\ arrived => Sending(w)
  /\ Arrive(w, arrived)
  /\ excused' = IF arrived THEN excused \cup {worker[w].row} ELSE excused
  /\ worker' = [worker EXCEPT ![w] = Idle]
  /\ faults' = faults + 1
  /\ UNCHANGED <<active, on, alert, queue, retries>>

---------------------------------------------------------------------------
(* The environment: time, operators and subscribers. *)

\* next_attempt_at passes.  It is a fault when the claimer of the row has
\* not begun its transaction yet: that worker stalled for a whole lease.
Stalled(d) ==
  \E w \in Workers : /\ worker[w].phase = "claimed"
                     /\ worker[w].row = d
                     /\ worker[w].attempt = queue[d].attempts

Elapse(d) ==
  /\ queue[d].status \in Open
  /\ ~queue[d].due
  /\ Stalled(d) => faults < MaxFaults
  /\ queue' = [queue EXCEPT ![d].due = TRUE]
  /\ faults' = IF Stalled(d) THEN faults + 1 ELSE faults
  /\ UNCHANGED <<active, on, alert, worker, retries, history>>

\* POST /ews/deliveries/{id}/retry.
RetryDelivery(d) ==
  /\ retries < MaxRetries
  /\ queue[d].status \in {"failed", "dead_letter"}
  /\ ~RowLocked(d)
  /\ queue' = [queue EXCEPT ![d] = NewRow]
  /\ retries' = retries + 1
  /\ excused' = excused \cup {d}
  /\ UNCHANGED <<active, on, alert, worker, faults, received>>

\* POST /ews/me/notifications/{id}/acknowledge.
Acknowledge(d) ==
  /\ queue[d].status = "sent"
  /\ queue' = [queue EXCEPT ![d].status = "acknowledged"]
  /\ UNCHANGED <<active, on, alert, worker, faults, retries, history>>

\* The administrator contains or resumes the source.  The UPDATE waits for
\* the FOR SHARE lock of a send under way.
SetSource ==
  /\ SourceLockFree
  /\ active' = ~active
  /\ UNCHANGED <<on, alert, queue, worker, faults, retries, history>>

SetChannel(c) ==
  /\ on' = IF c \in on THEN on \ {c} ELSE on \cup {c}
  /\ UNCHANGED <<active, alert, queue, worker, faults, retries, history>>

---------------------------------------------------------------------------

Environment ==
  \/ \E type \in Feed, lapsed \in BOOLEAN, m \in SUBSET Targets :
       Publish(type, lapsed, m)
  \/ \E m \in SUBSET Targets : Replay(m)
  \/ Expire
  \/ \E d \in Deliveries : RetryDelivery(d) \/ Acknowledge(d) \/ Elapse(d)
  \/ SetSource
  \/ \E c \in Channels : SetChannel(c)

Process(w) ==
  \/ \E d \in Deliveries : Claim(w, d)
  \/ BeginSend(w)
  \/ StartSend(w)
  \/ SkipClaimed(w)
  \/ LeaseLost(w)
  \/ SendSucceeds(w)
  \/ SendFails(w)
  \/ \E arrived \in BOOLEAN : SendGivesUp(w, arrived) \/ Crash(w, arrived)

Next == Environment \/ \E w \in Workers : Process(w)

Spec == Init /\ [][Next]_vars

\* Every process runs process_due_deliveries every 30 seconds, the oldest due
\* row first, and every send has a timeout; the advisory lock is a queue.  So
\* a due row is claimed in the end and a worker that waits gets the lock.
Fairness ==
  /\ \A w \in Workers :
       /\ WF_vars(BeginSend(w))
       /\ SF_vars(StartSend(w) \/ SkipClaimed(w) \/ LeaseLost(w))
       /\ WF_vars(SendSucceeds(w) \/ SendFails(w) \/ SendGivesUp(w, FALSE))
  /\ \A d \in Deliveries :
       /\ SF_vars(\E w \in Workers : Claim(w, d))
       /\ WF_vars(Elapse(d))

FairSpec == Spec /\ Fairness

---------------------------------------------------------------------------
(* Properties. *)

\* Every variable has its type.
TypeOK ==
  /\ active \in BOOLEAN
  /\ on \in SUBSET Channels
  /\ alert \in [rev : 0..MaxRevision, type : {"alert", "update", "cancel"},
                status : {"active", "expired", "cancelled"}]
  /\ queue \in [Deliveries -> Rows]
  /\ worker \in [Workers -> {Idle} \cup Jobs]
  /\ faults \in 0..MaxFaults
  /\ retries \in 0..MaxRetries
  /\ received \in [Deliveries -> Nat]
  /\ excused \in SUBSET Deliveries

\* Containment cannot overtake an external send: for as long as a message is
\* with the provider, its source is active and its revision current.
SendContained ==
  \A w \in Workers : Sending(w) => active /\ IsCurrent(worker[w].row)

\* A worker that sends owns its row: nobody else sends anything of the source,
\* and the mark that follows the send finds the attempt it claimed, so an
\* outcome the provider reported is never dropped by the fence.
SendOwnsItsRow ==
  \A w \in Workers : Sending(w) =>
    /\ queue[worker[w].row].status \in Open
    /\ queue[worker[w].row].attempts = worker[w].attempt
    /\ \A v \in Workers : Sending(v) => v = w

\* A row reaches its recipient at most once, whatever the workers, leases and
\* ambiguous timeouts do, unless the outcome of a send that arrived was rolled
\* back or an operator asked for the row to be sent again.
AtMostOnceUnlessExcused ==
  \A d \in Deliveries : received[d] > 1 => d \in excused

\* Nobody receives an older revision after a newer one.
MonotoneRevisions ==
  [][\A d, e \in Deliveries :
       received'[d] > received[d] /\ e.to = d.to /\ received[e] > 0 => e.rev <= d.rev]_vars

\* Updates, cancellations and expiries are never broadcast: whoever has a row
\* for one has a warning row of the same alert, of that revision or before.
WithdrawalFollowsWarning ==
  \A d \in Deliveries : queue[d].status # "none" /\ d.action # "alert" =>
    \E e \in Deliveries :
      /\ e.to = d.to
      /\ e.action = "alert"
      /\ e.rev <= d.rev
      /\ queue[e].status # "none"

\* The transaction that changes what is known of the alert queues the change
\* for everyone whose earlier message is recorded as sent, seen or not, and
\* whose channel is enabled.
WithdrawalReachesRecorded ==
  [][LET act == LifecycleAction(alert'.type, alert'.status)
         of(t) == [to |-> t, rev |-> alert'.rev, action |-> act]
     IN  alert' # alert /\ act # "alert" =>
           \A d \in Deliveries :
             queue[d].status \in {"sent", "acknowledged"} /\ d.to[2] \in on
               => queue'[of(d.to)].status = "pending"]_vars

\* A queued row is settled in the end, or its channel is switched off.
QueuedIsSettled ==
  \A d \in Deliveries :
    (queue[d].status \in Open) ~> (queue[d].status \notin Open \/ d.to[2] \notin on)

\* The abstract specification: a feed whose revisions only move forward and
\* reach a recipient only while the source is open.
LatestRevision(t) ==
  CHOOSE r \in 0..MaxRevision :
    /\ r = 0 \/ \E d \in Deliveries : d.to = t /\ d.rev = r /\ received[d] > 0
    /\ \A d \in Deliveries : d.to = t /\ received[d] > 0 => d.rev <= r

Abstract == INSTANCE WarningFeed WITH
  open <- active,
  revision <- alert.rev,
  latest <- [t \in Targets |-> LatestRevision(t)]

\* Delivery implements the feed of WarningFeed, where the newest revision a
\* target has received is read off the history.
ImplementsFeed == Abstract!Spec

---------------------------------------------------------------------------
(* What the documentation says and the code does not do. *)

\* docs/ews-lifecycle-delivery.md: "after the fifth attempt the delivery has
\* status dead_letter".  A row whose attempts are used up, whose lease is over
\* and which no worker holds can only stay as it is.
ExhaustedIsDeadLettered ==
  \A d \in Deliveries :
    /\ queue[d].attempts = MaxAttempts
    /\ queue[d].due
    /\ \A w \in Workers : worker[w] # Idle => worker[w].row # d
    => queue[d].status = "dead_letter"

\* docs/disaster-operations-runbook.md: the cancellation is sent to everyone
\* who received the first warning.
CancellationReachesWarned ==
  [][LET of(t) == [to |-> t, rev |-> alert'.rev, action |-> "cancellation"]
     IN  alert' # alert /\ alert'.status = "cancelled" =>
           \A d \in Deliveries : received[d] > 0 /\ d.to[2] \in on
             => queue'[of(d.to)].status = "pending"]_vars

=============================================================================
