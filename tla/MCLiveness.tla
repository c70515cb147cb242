------------------------------ MODULE MCLiveness ------------------------------
(***************************************************************************)
(* What must happen in the end: in the delivery queue, in the control of a *)
(* source, and on the dashboard.  The three share no state, so that one    *)
(* behaviour is of one of them: "part" names it, the variables of the      *)
(* others are Off and stay so.                                             *)
(***************************************************************************)
EXTENDS Naturals

CONSTANTS
  Subscriber, Worker1, Worker2, Content

VARIABLES
  part, \* the component that this behaviour is of
  active, on, alert, queue, sender, deliveryFaults, retries, received, excused,
  setting, history, shadow, health, request, poller, controlFaults, dryOk,
  shadowOk, writes,
  version, loadFaults, loads, shown, sides, meta, error, loading, refreshing,
  hidden, replay

Workers == {Worker1, Worker2}

Delivery == INSTANCE LifecycleDelivery WITH
    Subscribers <- {Subscriber}, Channels <- {"email"}, Feed <- {"alert"},
    MaxAttempts <- 2, MaxRevision <- 1, MaxFaults <- 0, MaxRetries <- 0,
    worker <- sender, faults <- deliveryFaults
Control == INSTANCE SourceControl WITH
    Contents <- {Content}, Requests <- {}, MaxVersion <- 2, MaxFaults <- 1, Guarded <- TRUE,
    worker <- poller, faults <- controlFaults
Overview == INSTANCE OverviewLoads WITH
    Slots <- {1, 2}, MaxVersion <- 3, MaxFaults <- 2, faults <- loadFaults

deliveryVars ==
  <<active, on, alert, queue, sender, deliveryFaults, retries, received, excused>>
controlVars ==
  <<setting, history, shadow, health, request, poller, controlFaults, dryOk,
  shadowOk, writes>>
overviewVars ==
  <<version, loadFaults, loads, shown, sides, meta, error, loading, refreshing,
  hidden, replay>>
livenessVars == <<part, deliveryVars, controlVars, overviewVars>>

Off == "off"

DeliveryStart ==
  IF part = "delivery" THEN Delivery!Init
  ELSE /\ active = Off /\ on = Off /\ alert = Off /\ queue = Off /\ sender = Off
       /\ deliveryFaults = Off /\ retries = Off /\ received = Off /\ excused = Off
ControlStart ==
  IF part = "control" THEN Control!Init
  ELSE /\ setting = Off /\ history = Off /\ shadow = Off /\ health = Off
       /\ request = Off /\ poller = Off /\ controlFaults = Off /\ dryOk = Off
       /\ shadowOk = Off /\ writes = Off
OverviewStart ==
  IF part = "overview" THEN Overview!Init
  ELSE /\ version = Off /\ loadFaults = Off /\ loads = Off /\ shown = Off
       /\ sides = Off /\ meta = Off /\ error = Off /\ loading = Off
       /\ refreshing = Off /\ hidden = Off /\ replay = Off

Init ==
  /\ part \in {"delivery", "control", "overview"}
  /\ DeliveryStart /\ ControlStart /\ OverviewStart

Only(p) ==
  /\ part = p /\ UNCHANGED part
  /\ IF p = "delivery" THEN TRUE ELSE UNCHANGED deliveryVars
  /\ IF p = "control" THEN TRUE ELSE UNCHANGED controlVars
  /\ IF p = "overview" THEN TRUE ELSE UNCHANGED overviewVars

DeliveryStep == Only("delivery") /\ Delivery!Next
ControlStep == Only("control") /\ Control!Next
OverviewStep == Only("overview") /\ Overview!Next

Next == DeliveryStep \/ ControlStep \/ OverviewStep

\* The rows that a single warning can queue, itself and its expiry.
Rows == {d \in Delivery!Deliveries : d.action \in {"alert", "expiry"}}

(* The fairness of each component (Fairness and FairSpec of its module).     *)
DeliveryFairness ==
  /\ \A w \in Workers :
       /\ WF_deliveryVars(Only("delivery") /\ Delivery!BeginSend(w))
       /\ SF_deliveryVars(Only("delivery") /\
            (Delivery!StartSend(w) \/ Delivery!SkipClaimed(w) \/ Delivery!LeaseLost(w)))
       /\ WF_deliveryVars(Only("delivery") /\
            (Delivery!SendSucceeds(w) \/ Delivery!SendFails(w) \/ Delivery!SendGivesUp(w, FALSE)))
  /\ \A d \in Rows :
       /\ SF_deliveryVars(Only("delivery") /\ \E w \in Workers : Delivery!Claim(w, d))
       /\ WF_deliveryVars(Only("delivery") /\ Delivery!Elapse(d))
ControlFairness ==
  /\ WF_controlVars(Only("control") /\ Control!Elapse)
  /\ \A w \in Workers :
       /\ WF_controlVars(Only("control") /\ Control!Resolve(w))
       /\ WF_controlVars(Only("control") /\ Control!SkipPoll(w))
       /\ SF_controlVars(Only("control") /\ Control!AcquireSlot(w))
       /\ WF_controlVars(Only("control") /\ \E outcome \in Control!Outcomes : Control!Fetch(w, outcome))
       /\ WF_controlVars(Only("control") /\ Control!RecordShadow(w))
       /\ WF_controlVars(Only("control") /\ (Control!WriteRefused(w) \/ Control!WritesDone(w)))
       /\ WF_controlVars(Only("control") /\ Control!CompletePoll(w))
OverviewFairness ==
  /\ \A s \in {1, 2} :
       /\ WF_overviewVars(Only("overview") /\ Overview!Finish(s))
       /\ WF_overviewVars(Only("overview") /\
            (Overview!Serve(s, TRUE) \/ Overview!Serve(s, FALSE) \/ Overview!Reject(s)))
  /\ SF_overviewVars(Only("overview") /\ Overview!Auto)

Spec == Init /\ [][Next]_livenessVars
FairSpec == Spec /\ DeliveryFairness /\ ControlFairness /\ OverviewFairness

(* ---- Properties ---- *)

Always(p) == [](part = p)

(* A queued message is delivered or given up in the end, or its channel is   *)
(* off (LifecycleDelivery!QueuedIsSettled).                                  *)
QueuedIsSettled ==
  Always("delivery") =>
    \A d \in Rows :
      (part = "delivery" /\ queue[d].status \in Delivery!Open)
        ~> (part = "delivery" /\ (queue[d].status \notin Delivery!Open \/ d.to[2] \notin on))

(* A source that is due is polled in the end, or disabled                    *)
(* (SourceControl!DueIsPolled).                                              *)
DueIsPolled ==
  Always("control") =>
    ((part = "control" /\ health.due)
       ~> (part = "control" /\ (~health.due \/ setting.mode = "disabled")))

(* Although answers overtake one another, a dashboard that is looked at and  *)
(* not replayed comes to show what the server has, without an error          *)
(* (OverviewLoads!CatchesUp).                                                *)
CatchesUp ==
  Always("overview") =>
    (<>[](part = "overview" /\ ~hidden /\ ~replay)
       => <>[](part = "overview" /\ shown = version /\ ~error))
=============================================================================
