--------------------------- MODULE CapLifecycle ---------------------------
(***************************************************************************)
(* The lifecycle graph of the BMKG CAP source: _upsert_cap_alert and       *)
(* _reconcile_cap_lifecycle of apps/worker/db/official_alerts.py, with the *)
(* queue rows that persist_official_alert_revision and the expiry job      *)
(* write in the same transaction.                                          *)
(*                                                                         *)
(* CAP messages reach the worker in any order and some only polls later:   *)
(* the index lists them as it likes, and a detail that cannot be fetched   *)
(* is left out.  Every ingest therefore rebuilds the component of the      *)
(* message: all rows get the identity of its root and a new revision, and  *)
(* the queue rows already written follow them.                             *)
(*                                                                         *)
(* A transaction is one action.  The claim, lease and send of a queue row  *)
(* are those of LifecycleDelivery; here a row is settled in one step.      *)
(***************************************************************************)
EXTENDS Naturals, FiniteSets

CONSTANTS
  Messages,   \* CAP identities (sender, identifier), as numbers in their order
  Feeds,      \* bound: what the messages of the source may be
  Subscribers, \* active rows of ews_subscribers
  Channels,   \* ews_channel_settings.channel
  Lapsing     \* bound: the messages whose expires_at may pass

Published == [sent : Nat, refs : SUBSET Messages, type : {"alert", "update", "cancel"}]

ASSUME FeedsAssumption ==
  /\ Messages \subseteq Nat \ {0}
  /\ IsFiniteSet(Messages)
  /\ Lapsing \subseteq Messages
  /\ \A f \in Feeds : f \in [Messages -> Published]

Targets == Subscribers \X Channels
Statuses == {"active", "updated", "expired", "cancelled"}
Actions == {"alert", "update", "cancellation", "expiry"}
QueueStatuses == {"pending", "sent", "skipped", "dead_letter"}
NoMessage == 0  \* NULL

VARIABLES
  feed,     \* the messages as published: sent_at, references, message_type
  lapsed,   \* the messages whose expires_at has passed
  on,       \* the channels whose ews_channel_settings.is_enabled is TRUE
  rows,     \* official_alerts of the source, by message identity
  queue,    \* ews_notification_log: a set of rows
  polled    \* history: the messages handed to persist_official_alert_revision

vars == <<feed, lapsed, on, rows, queue, polled>>

Stored == DOMAIN rows

Init ==
  /\ feed \in Feeds
  /\ lapsed = {}
  /\ on \in SUBSET Channels
  /\ rows = [m \in {} |-> NoMessage]
  /\ queue = {}
  /\ polled = {}

---------------------------------------------------------------------------
(* The graph. *)

\* A stored message and one it references, in either direction.  References
\* to another sender link nothing and are left out of refs.
Linked(S, a, b) == (a \in S /\ b \in feed[a].refs) \/ (b \in S /\ a \in feed[b].refs)

\* Mutant: the search stops at the neighbours.
Neighbours(S, m) == {m} \cup {a \in Messages : Linked(S, a, m)}

\* A set of identities that the search does not leave.
Closed(S, C) == \A a \in C, b \in Messages : Linked(S, a, b) => b \in C

\* What the search from m finds, the identities only known from references
\* included: the least set with m that it does not leave.
Component(S, m) ==
  LET closed == {C \in SUBSET Messages : m \in C /\ Closed(S, C)}
  IN  {a \in Messages : \A C \in closed : a \in C}

\* Mutant: revisions in the order of the identifiers.
ByIdentity(a, b) == a < b

\* The order (sent_at, identity).  A reference carries the sent time of the
\* message it names, so an identity not stored yet has one, too.
Before(a, b) ==
  \/ feed[a].sent < feed[b].sent
  \/ feed[a].sent = feed[b].sent /\ a < b

\* The oldest identity of the component that references nothing.
Canonical(S, C) ==
  LET Roots == {a \in C : a \notin S \/ feed[a].refs = {}}
      Candidates == IF Roots # {} THEN Roots ELSE C
  IN  CHOOSE a \in Candidates : \A b \in Candidates \ {a} : Before(a, b)

\* Mutant: expires_at is not read again.
UnexpiredStatus(m, current) ==
  IF feed[m].type = "cancel" THEN "cancelled"
  ELSE IF current THEN "active" ELSE "updated"

ReconciledStatus(m, current) ==
  IF feed[m].type = "cancel" THEN "cancelled"
  ELSE IF m \in lapsed THEN "expired"
  ELSE IF current THEN "active" ELSE "updated"

\* The rows once the component of m is rebuilt from the stored messages S.
Reconciled(S, m) ==
  LET C == Component(S, m)
      members == C \cap S
      older(a) == {b \in members : Before(b, a)}
      newest(a) == older(a) = members \ {a}
  IN  [a \in S |->
         IF a \in Stored \ members THEN rows[a]
         ELSE [key |-> Canonical(S, C),
               rev |-> Cardinality(older(a)) + 1,
               prev |-> IF older(a) = {} THEN NoMessage
                        ELSE CHOOSE b \in older(a) : \A c \in older(a) \ {b} : Before(c, b),
               current |-> newest(a),
               status |-> ReconciledStatus(a, newest(a))]]

---------------------------------------------------------------------------
(* The queue. *)

\* Mutant: only the queue rows of the current message follow.
RekeyedCurrent(R) ==
  {IF R[q.of].current THEN [q EXCEPT !.key = R[q.of].key, !.rev = R[q.of].rev] ELSE q :
     q \in queue}

\* Mutant: the queue rows are left behind.
LeftBehind(R) == queue

\* The queue rows follow their alerts, one alert after the other.
Rekeyed(R) == {[q EXCEPT !.key = R[q.of].key, !.rev = R[q.of].rev] : q \in queue}

\* An UPDATE of that loop meets the unique key of a row whose alert comes
\* later in the loop: the transaction is aborted.
Collides(R, C) ==
  \E p, q \in queue :
    /\ <<p.to, p.action>> = <<q.to, q.action>>
    /\ Before(p.of, q.of)
    /\ p.of \in C /\ q.of \in C
    /\ <<q.key, q.rev>> = <<R[p.of].key, R[p.of].rev>>

\* Mutant: the message type is written as the action.
RawAction(m, status) == IF status = "expired" THEN "expired" ELSE feed[m].type

LifecycleAction(m, status) ==
  IF status = "expired" THEN "expiry"
  ELSE IF feed[m].type = "cancel" THEN "cancellation"
  ELSE IF feed[m].type = "update" THEN "update"
  ELSE "alert"

\* The join with the enabled rows of ews_channel_settings.
Reachable == {t \in Targets : t[2] \in on}

\* Mutant: only what has arrived counts.
SentRecipients(Q, key) == {t \in Reachable : \E q \in Q :
  q.to = t /\ q.key = key /\ q.status = "sent"}

PriorRecipients(Q, key) == {t \in Reachable : \E q \in Q :
  q.to = t /\ q.key = key /\ q.status \in {"pending", "sent"}}

\* enqueue_official_alert_revision for the alerts cs of table R: INSERT ... ON
\* CONFLICT DO NOTHING, then the open rows of older revisions are skipped.
Enqueued(Q, R, cs, matching) ==
  LET act(c) == LifecycleAction(c, R[c].status)
      to(c) == IF act(c) = "alert" THEN matching ELSE PriorRecipients(Q, R[c].key)
      taken(t, c) == \E q \in Q : <<q.to, q.key, q.rev, q.action>>
                                    = <<t, R[c].key, R[c].rev, act(c)>>
      new == UNION {{[to |-> t, of |-> c, key |-> R[c].key, rev |-> R[c].rev,
                      action |-> act(c), status |-> "pending"] :
                       t \in {u \in to(c) : ~taken(u, c)}} : c \in cs}
      stale(q) == /\ q.status = "pending"
                  /\ \E c \in cs : q.key = R[c].key /\ q.rev < R[c].rev
  IN  {IF stale(q) THEN [q EXCEPT !.status = "skipped"] ELSE q : q \in Q \cup new}

---------------------------------------------------------------------------
(* The actions. *)

\* persist_official_alert_revision: the component is rebuilt and its current
\* alert enqueued, whether the message is new or a replay.
Ingest(m) ==
  LET S == Stored \cup {m}
      C == Component(S, m)
  IN  /\ rows' = Reconciled(S, m)
      /\ ~Collides(rows', C)
      /\ \E matching \in SUBSET Reachable :
           queue' = Enqueued(Rekeyed(rows'), rows', {a \in C \cap S : rows'[a].current},
                             matching)
      /\ polled' = polled \cup {m}
      /\ UNCHANGED <<feed, lapsed, on>>

\* The unique key is violated: nothing of the transaction remains, and the
\* cycle logs the message as rejected and goes on.
IngestAborts(m) ==
  LET S == Stored \cup {m}
  IN  /\ Collides(Reconciled(S, m), Component(S, m))
      /\ polled' = polled \cup {m}
      /\ UNCHANGED <<feed, lapsed, on, rows, queue>>

Lapse(m) ==
  /\ m \in Lapsing \ lapsed
  /\ lapsed' = lapsed \cup {m}
  /\ UNCHANGED <<feed, on, rows, queue, polled>>

\* expire_and_enqueue_official_alert_revisions.
Expire ==
  LET due == {m \in Stored \cap lapsed : rows[m].current /\ rows[m].status = "active"}
      R == [m \in Stored |->
              IF m \in due THEN [rows[m] EXCEPT !.status = "expired"] ELSE rows[m]]
  IN  /\ due # {}
      /\ rows' = R
      /\ queue' = Enqueued(queue, R, due, {})
      /\ UNCHANGED <<feed, lapsed, on, polled>>

\* process_due_deliveries: a row of a replaced alert or of a contained source
\* is skipped, any other ends as sent or as a dead letter.  The channel was on
\* when the row was claimed and may be off by now.
Settle(q) ==
  /\ q.status = "pending"
  /\ \E s \in {"sent", "dead_letter", "skipped"} :
       /\ s # "skipped" => rows[q.of].current
       /\ queue' = (queue \ {q}) \cup {[q EXCEPT !.status = s]}
  /\ UNCHANGED <<feed, lapsed, on, rows, polled>>

\* The operator's retry of a dead letter.
Requeue(q) ==
  /\ q.status = "dead_letter"
  /\ queue' = (queue \ {q}) \cup {[q EXCEPT !.status = "pending"]}
  /\ UNCHANGED <<feed, lapsed, on, rows, polled>>

\* The administrator switches a channel on or off.
SetChannel(c) ==
  /\ on' = IF c \in on THEN on \ {c} ELSE on \cup {c}
  /\ UNCHANGED <<feed, lapsed, rows, queue, polled>>

Next ==
  \/ \E m \in Messages : Ingest(m) \/ IngestAborts(m) \/ Lapse(m)
  \/ Expire
  \/ \E q \in queue : Settle(q) \/ Requeue(q)
  \/ \E c \in Channels : SetChannel(c)

Spec == Init /\ [][Next]_vars

---------------------------------------------------------------------------
(* Properties. *)

Rows == [key : Messages, rev : Nat \ {0}, prev : Messages \cup {NoMessage},
         current : BOOLEAN, status : Statuses]
QueueRows == [to : Targets, of : Messages, key : Messages, rev : Nat \ {0},
              action : Actions, status : QueueStatuses]

\* Every variable has its type.
TypeOK ==
  /\ feed \in [Messages -> Published]
  /\ lapsed \subseteq Lapsing
  /\ on \subseteq Channels
  /\ Stored \subseteq polled
  /\ polled \subseteq Messages
  /\ rows \in [Stored -> Rows]
  /\ queue \subseteq QueueRows

\* The lifecycle identity of the alerts is that of the graph, whatever the
\* order of arrival: alerts that are linked, directly or through an identity
\* both reference, share it, and no identity covers two unlinked groups.
KeysAreComponents ==
  LET Near(a, b) == \/ b \in feed[a].refs
                    \/ a \in feed[b].refs
                    \/ feed[a].refs \cap feed[b].refs # {}
  IN  /\ \A a, b \in Stored : Near(a, b) => rows[a].key = rows[b].key
      /\ \A a \in Stored :
           LET class == {b \in Stored : rows[b].key = rows[a].key}
           IN  \A part \in SUBSET class : part # {} /\ part # class =>
                 \E b \in part, c \in class \ part : Near(b, c)

\* The alerts of one lifecycle are its revisions 1, 2, ... in the order they
\* were sent; the last one, and only that, is current, and each names the one
\* before it, whatever the order in which they arrived.
RevisionsFollowSending ==
  \A a \in Stored :
    LET class == {b \in Stored : rows[b].key = rows[a].key}
    IN  /\ rows[a].rev \in 1..Cardinality(class)
        /\ rows[a].current <=> rows[a].rev = Cardinality(class)
        /\ rows[a].rev = 1 <=> rows[a].prev = NoMessage
        /\ rows[a].rev > 1 => /\ rows[a].prev \in class
                              /\ rows[rows[a].prev].rev = rows[a].rev - 1
        /\ \A b \in class : rows[a].rev < rows[b].rev =>
             /\ feed[a].sent <= feed[b].sent
             /\ feed[a].sent = feed[b].sent => a < b

\* Whatever the renumbering, a queue row carries the lifecycle identity and
\* revision of the alert it announces.
QueueFollowsAlert ==
  \A q \in queue : q.key = rows[q.of].key /\ q.rev = rows[q.of].rev

\* Nobody has two rows for the same message and action, although the unique
\* key of the table speaks of revisions, which change.
NotQueuedTwice ==
  \A p, q \in queue : <<p.to, p.of, p.action>> = <<q.to, q.of, q.action>> => p = q

\* A rebuild never brings an alert back: replaced, expired and cancelled are
\* final, also when components merge or a late message is put in between.
NeverRevived ==
  [][\A m \in Stored :
       /\ ~rows[m].current => ~rows'[m].current
       /\ rows[m].status \in {"expired", "cancelled"} => rows'[m].status = rows[m].status
       /\ rows[m].status = "updated" => rows'[m].status # "active"]_vars

\* When another message becomes the current one of a lifecycle and is no new
\* warning, everyone who has been sent or still awaits a message of any of the
\* lifecycles it joins, on a channel that is on, has a row for it.
MergedRecipientsAreTold ==
  [][\A c \in DOMAIN rows' :
       LET act == LifecycleAction(c, rows'[c].status)
           joined == {m \in Stored : rows'[m].key = rows'[c].key}
       IN  rows'[c].current /\ (c \in Stored => ~rows[c].current) /\ act # "alert" =>
             \A q \in queue :
               q.of \in joined /\ q.status \in {"pending", "sent"} /\ q.to[2] \in on =>
                 \E n \in queue' : n.to = q.to /\ n.of = c /\ n.action = act]_vars

\* docs/official-alert-lifecycle.md: out-of-order payloads are retained.
RetainedForAudit == polled \subseteq Stored

=============================================================================
