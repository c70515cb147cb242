--------------------------- MODULE AlertDispatch ---------------------------
(***************************************************************************)
(* Threshold alerts: the evaluation that ends an ingest cycle of the       *)
(* worker (apps/worker/alerts/evaluator.py) and the dispatch of each new   *)
(* alert to the watch zones it matches (apps/worker/alerts/dispatcher.py). *)
(*                                                                         *)
(* Cycles run concurrently: the scheduler and the ingest endpoint start    *)
(* them, and nothing excludes a second one.  Every statement is its own    *)
(* transaction, so an alert is looked up, created and dispatched in        *)
(* separate steps, and an exception ends the cycle where it happens.       *)
(*                                                                         *)
(* Rows are inserted here and delivered as LifecycleDelivery delivers.     *)
(***************************************************************************)
EXTENDS Naturals

CONSTANTS
  Events,      \* events of the feeds that cross their threshold, lie in an
               \* exposure region and are not held by the alert policy
  Cycles,      \* ingest cycles that may overlap
  Targets,     \* (subscriber, channel) pairs with an enabled preference
  MaxFaults    \* bound: cycles ended by a crash or a database error

ASSUME DispatchAssumption == MaxFaults \in Nat

\* What an alert is unique for: event_id and alert_type.
Kinds == {"peril", "risk_score"}
Keys == [event : Events, kind : Kinds]

\* Rows of alerts, told apart by the cycle that inserted them.
Alerts == [key : Keys, by : Cycles]
Rows == [alert : Alerts, to : Targets]

VARIABLES
  wanted,  \* whose zones and filters match an alert: severity, type, area
  alerts,  \* the alerts table
  log,     \* ews_notification_log, the rows of delivery_kind 'alert'
  cycle,   \* the evaluation of each cycle
  faults,  \* faults so far
  cut      \* history: alerts whose dispatch a fault cut short

vars == <<wanted, alerts, log, cycle, faults, cut>>

Idle == [phase |-> "idle"]
Runs == [phase : {"looking"}, kind : Kinds, todo : SUBSET Keys]
        \cup [phase : {"creating", "dispatching"}, kind : Kinds, todo : SUBSET Keys,
               key : Keys, left : SUBSET Targets]

Init ==
  /\ wanted \in [Keys -> SUBSET Targets]
  /\ alerts = {}
  /\ log = {}
  /\ cycle = [c \in Cycles |-> Idle]
  /\ faults = 0
  /\ cut = {}

---------------------------------------------------------------------------

\* The feeds list all events; the alerts are looked at in any order.
StartCycle(c) ==
  /\ cycle[c] = Idle
  /\ cycle' = [cycle EXCEPT ![c] = [phase |-> "looking", kind |-> "peril",
                                    todo |-> [event : Events, kind : {"peril"}]]]
  /\ UNCHANGED <<wanted, alerts, log, faults, cut>>

\* After the events of the cycle, those of the database with a score of 80.
LoadHighRisk(c, high) ==
  /\ cycle[c].phase = "looking"
  /\ cycle[c].kind = "peril"
  /\ cycle[c].todo = {}
  /\ cycle' = [cycle EXCEPT ![c] = [phase |-> "looking", kind |-> "risk_score",
                                    todo |-> [event : high, kind : {"risk_score"}]]]
  /\ UNCHANGED <<wanted, alerts, log, faults, cut>>

EndCycle(c) ==
  /\ cycle[c].phase = "looking"
  /\ cycle[c].kind = "risk_score"
  /\ cycle[c].todo = {}
  /\ cycle' = [cycle EXCEPT ![c] = Idle]
  /\ UNCHANGED <<wanted, alerts, log, faults, cut>>

HasAlert(k) == \E a \in alerts : a.key = k

Looking(c, k) == cycle[c].phase = "looking" /\ k \in cycle[c].todo

\* Mutant: a known alert ends the evaluation and not only its iteration.
PassOverAndReturn(c, k) ==
  /\ Looking(c, k)
  /\ HasAlert(k)
  /\ cycle' = [cycle EXCEPT ![c] = Idle]
  /\ UNCHANGED <<wanted, alerts, log, faults, cut>>

\* has_alert: nothing to do.
PassOver(c, k) ==
  /\ Looking(c, k)
  /\ HasAlert(k)
  /\ cycle' = [cycle EXCEPT ![c].todo = @ \ {k}]
  /\ UNCHANGED <<wanted, alerts, log, faults, cut>>

Decide(c, k) ==
  /\ Looking(c, k)
  /\ ~HasAlert(k)
  /\ cycle' = [cycle EXCEPT ![c] = [phase |-> "creating", kind |-> cycle[c].kind,
                                    todo |-> cycle[c].todo \ {k},
                                    key |-> k, left |-> {}]]
  /\ UNCHANGED <<wanted, alerts, log, faults, cut>>

\* Mutant: no unique index.
NeverTaken(k) == FALSE

\* uq_alerts_event_id_alert_type.
KeyTaken(k) == HasAlert(k)

\* Mutant: the alert is stored once its dispatch is through.
CreateAfterwards(c) ==
  /\ cycle[c].phase = "creating"
  /\ ~KeyTaken(cycle[c].key)
  /\ cycle' = [cycle EXCEPT ![c].phase = "dispatching", ![c].left = wanted[cycle[c].key]]
  /\ UNCHANGED <<wanted, alerts, log, faults, cut>>

\* create_alert, and the subscribers that dispatch_alert loads.
CreateAlert(c) ==
  /\ cycle[c].phase = "creating"
  /\ ~KeyTaken(cycle[c].key)
  /\ alerts' = alerts \cup {[key |-> cycle[c].key, by |-> c]}
  /\ cycle' = [cycle EXCEPT ![c].phase = "dispatching", ![c].left = wanted[cycle[c].key]]
  /\ UNCHANGED <<wanted, log, faults, cut>>

\* Another cycle has created it meanwhile: the exception ends this cycle, and
\* what it had not looked at yet waits for the next one.
CreateRefused(c) ==
  /\ cycle[c].phase = "creating"
  /\ KeyTaken(cycle[c].key)
  /\ cycle' = [cycle EXCEPT ![c] = Idle]
  /\ UNCHANGED <<wanted, alerts, log, faults, cut>>

---------------------------------------------------------------------------
(* dispatch_alert. *)

Dispatching(c) == cycle[c].phase = "dispatching"

Mine(c) == [key |-> cycle[c].key, by |-> c]

\* Mutant: told about the event is as good as told about the alert.
LoggedEvent(a, t) == \E r \in log : r.alert.key.event = a.key.event /\ r.to = t

\* is_already_notified, and the unique key of (subscriber, alert, channel).
Logged(a, t) == \E r \in log : r.alert = a /\ r.to = t

\* One target: a row that is queued, or says why it is skipped (quiet hours,
\* channel switched off, no address).
DispatchTo(c, t) ==
  /\ Dispatching(c)
  /\ t \in cycle[c].left
  /\ log' = IF Logged(Mine(c), t) THEN log
            ELSE log \cup {[alert |-> Mine(c), to |-> t]}
  /\ cycle' = [cycle EXCEPT ![c].left = @ \ {t}]
  /\ UNCHANGED <<wanted, alerts, faults, cut>>

EndDispatch(c) ==
  /\ Dispatching(c)
  /\ cycle[c].left = {}
  /\ cycle' = [cycle EXCEPT ![c] = [phase |-> "looking", kind |-> cycle[c].kind,
                                    todo |-> cycle[c].todo]]
  /\ UNCHANGED <<wanted, alerts, log, faults, cut>>

---------------------------------------------------------------------------

\* The worker dies, or a statement fails.
Fault(c) ==
  /\ faults < MaxFaults
  /\ cycle[c] # Idle
  /\ cut' = IF Dispatching(c) THEN cut \cup {Mine(c)} ELSE cut
  /\ cycle' = [cycle EXCEPT ![c] = Idle]
  /\ faults' = faults + 1
  /\ UNCHANGED <<wanted, alerts, log>>

Evaluate(c) ==
  \/ \E k \in Keys : PassOver(c, k) \/ Decide(c, k)
  \/ CreateAlert(c)
  \/ CreateRefused(c)
  \/ \E t \in Targets : DispatchTo(c, t)
  \/ EndDispatch(c)
  \/ \E high \in SUBSET Events : LoadHighRisk(c, high)
  \/ EndCycle(c)

Next == \E c \in Cycles : StartCycle(c) \/ Evaluate(c) \/ Fault(c)

Spec == Init /\ [][Next]_vars

\* The scheduler starts a cycle every five minutes and a cycle always ends:
\* its loops are over finite lists and statements have a timeout.
FairSpec == Spec /\ \A c \in Cycles : WF_vars(StartCycle(c)) /\ WF_vars(Evaluate(c))

---------------------------------------------------------------------------
(* Properties. *)

\* Every variable has its type.
TypeOK ==
  /\ wanted \in [Keys -> SUBSET Targets]
  /\ alerts \subseteq Alerts
  /\ log \subseteq Rows
  /\ cycle \in [Cycles -> {Idle} \cup Runs]
  /\ faults \in 0..MaxFaults
  /\ cut \subseteq alerts

\* However many cycles evaluate an event at the same time, each target has at
\* most one row for an event and kind of alert, and only if its zones match.
ToldOnce ==
  \A q, r \in log :
    /\ r.to \in wanted[r.alert.key]
    /\ q.alert.key = r.alert.key /\ q.to = r.to => q = r

\* An alert is dispatched by nobody but the cycle that created it, and never
\* again.  So whoever it concerns has a row, or will get one from that cycle,
\* unless a fault cut the dispatch short: a refused creation, of this cycle
\* or another, costs no target its notification.
LostOnlyByFault ==
  \A a \in alerts : \A t \in wanted[a.key] :
    \/ \E r \in log : r.alert = a /\ r.to = t
    \/ \E c \in Cycles : Dispatching(c) /\ Mine(c) = a /\ t \in cycle[c].left
    \/ a \in cut

\* Every event of the feeds gets its alert in the end, although a cycle that
\* loses the race for one alert drops all the events it has not looked at.
EventIsAlerted == \A e \in Events : <>HasAlert([event |-> e, kind |-> "peril"])

=============================================================================
