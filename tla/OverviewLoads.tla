---------------------------- MODULE OverviewLoads ----------------------------
(***************************************************************************)
(* The loads of the dashboard (ExecutiveOverview.load): one when it is     *)
(* mounted, one every minute while the tab is visible and the timeline is  *)
(* not being replayed, and one for every press of the refresh button.      *)
(* Nothing orders the answers: loads overlap, and the last to finish wins. *)
(***************************************************************************)
EXTENDS Integers

CONSTANTS
  Slots,        \* bound of the model: 1..n, the loads in flight at a time
  MaxVersion,   \* bound of the model: how often the data of the server change
  MaxFaults     \* bound of the model: requests that fail

LoadsAssumption ==
  MaxVersion \in Nat /\ MaxFaults \in Nat /\ Slots \subseteq Nat /\ Slots # {}

VARIABLES
  version,      \* the version of the data the server would answer with now
  faults,       \* how many requests have failed
  loads,        \* the loads in flight, by slot
  shown,        \* the version of the events on the page, 0 before the first
  sides,        \* did the optional lists of the last load arrive (or are they [])?
  meta,         \* was /meta ever answered: the "Status API" figure
  error,        \* the message that replaces the watchlist
  loading, refreshing,
  hidden,       \* the tab is not visible
  replay        \* timelineHoursAgo # 0

server == <<version, faults>>
page == <<shown, sides, meta, error>>
flags == <<loading, refreshing>>
loadVars == <<server, loads, page, flags, hidden, replay>>

Load(state, mode, v, full) == [state |-> state, mode |-> mode, version |-> v, full |-> full]
Free == Load("free", "none", 0, FALSE)

(* The lowest free slot: which one a load takes makes no difference.         *)
FreeSlot(s) == loads[s] = Free /\ \A t \in Slots : loads[t] = Free => s <= t

\* Mutant: the message of an older failure is not taken away.
StartKeepsMessage(mode) ==
  \E s \in Slots :
    /\ FreeSlot(s)
    /\ loads' = [loads EXCEPT ![s] = Load("asked", mode, 0, FALSE)]
    /\ loading' = (loading \/ mode = "initial")
    /\ refreshing' = (refreshing \/ mode = "refresh")
    /\ UNCHANGED error

(* load: the flag of the mode is raised and the old message taken away.      *)
Start(mode) ==
  \E s \in Slots :
    /\ FreeSlot(s)
    /\ loads' = [loads EXCEPT ![s] = Load("asked", mode, 0, FALSE)]
    /\ loading' = (loading \/ mode = "initial")
    /\ refreshing' = (refreshing \/ mode = "refresh")
    /\ error' = FALSE

Init ==
  /\ version = 1 /\ faults = 0
  /\ \E s \in Slots :
       /\ \A t \in Slots : s <= t
       /\ loads = [t \in Slots |-> IF t = s THEN Load("asked", "initial", 0, FALSE) ELSE Free]
  /\ shown = 0 /\ sides = FALSE /\ meta = FALSE /\ error = FALSE
  /\ loading = TRUE /\ refreshing = FALSE
  /\ hidden = FALSE /\ replay = FALSE

(* The interval of 60 seconds; its guard is read when it fires.              *)
Auto ==
  /\ ~hidden /\ ~replay
  /\ Start("refresh")
  /\ UNCHANGED <<server, shown, sides, meta, hidden, replay>>

(* The button, disabled while a load shows its flag.                         *)
Refresh ==
  /\ ~hidden /\ ~loading /\ ~refreshing
  /\ Start("refresh")
  /\ UNCHANGED <<server, shown, sides, meta, hidden, replay>>

(* Promise.all: events and meta are answered; each optional list is answered *)
(* or caught and taken as empty.                                             *)
Serve(s, full) ==
  /\ loads[s].state = "asked"
  /\ full \/ faults < MaxFaults
  /\ faults' = IF full THEN faults ELSE faults + 1
  /\ loads' = [loads EXCEPT ![s] = Load("answered", loads[s].mode, version, full)]
  /\ UNCHANGED <<version, page, flags, hidden, replay>>

(* Events or meta fail: the whole load is rejected.                          *)
Reject(s) ==
  /\ loads[s].state = "asked" /\ faults < MaxFaults
  /\ faults' = faults + 1
  /\ loads' = [loads EXCEPT ![s] = Load("failed", loads[s].mode, 0, FALSE)]
  /\ UNCHANGED <<version, page, flags, hidden, replay>>

(* What a finished load leaves on the page.                                  *)
Apply(s) ==
  IF loads[s].state = "answered"
  THEN /\ shown' = loads[s].version /\ sides' = loads[s].full /\ meta' = TRUE
       /\ UNCHANGED error
  ELSE error' = TRUE /\ UNCHANGED <<shown, sides, meta>>

Finish(s) ==
  /\ loads[s].state \in {"answered", "failed"}
  /\ Apply(s)
  /\ loading' = (loading /\ loads[s].mode # "initial")
  /\ refreshing' = (refreshing /\ loads[s].mode # "refresh")
  /\ loads' = [loads EXCEPT ![s] = Free]
  /\ UNCHANGED <<server, hidden, replay>>

SetVisibility(b) ==
  hidden # b /\ hidden' = b /\ UNCHANGED <<server, loads, page, flags, replay>>

SetTimeline(b) ==
  ~hidden /\ ~loading /\ replay # b /\ replay' = b
  /\ UNCHANGED <<server, loads, page, flags, hidden>>

(* The server: a new event, or one revised.                                  *)
Change ==
  version < MaxVersion /\ version' = version + 1
  /\ UNCHANGED <<faults, loads, page, flags, hidden, replay>>

Next ==
  \/ Auto \/ Refresh \/ Change
  \/ \E s \in Slots : Reject(s) \/ Finish(s) \/ \E full \in BOOLEAN : Serve(s, full)
  \/ \E b \in BOOLEAN : SetVisibility(b) \/ SetTimeline(b)

(* A request is answered or fails in the end, what was answered is applied,  *)
(* and the interval fires as long as its guard lets it.                      *)
Fairness ==
  /\ \A s \in Slots : /\ WF_loadVars(Finish(s))
                      /\ WF_loadVars(Serve(s, TRUE) \/ Serve(s, FALSE) \/ Reject(s))
  /\ SF_loadVars(Auto)

Spec == Init /\ [][Next]_loadVars
FairSpec == Spec /\ Fairness

(* ---- Properties ---- *)

(* Type of the state. *)
TypeOK ==
  /\ version \in 1..MaxVersion /\ faults \in 0..MaxFaults
  /\ loads \in [Slots -> [state : {"free", "asked", "answered", "failed"},
                          mode : {"none", "initial", "refresh"},
                          version : 0..MaxVersion, full : BOOLEAN]]
  /\ shown \in 0..version /\ sides \in BOOLEAN /\ meta \in BOOLEAN /\ error \in BOOLEAN
  /\ loading \in BOOLEAN /\ refreshing \in BOOLEAN
  /\ hidden \in BOOLEAN /\ replay \in BOOLEAN

(* Although answers overtake one another, a dashboard that is looked at and  *)
(* not replayed comes to show what the server has, without an error.         *)
CatchesUp ==
  (<>[](~hidden /\ ~replay)) => <>[](shown = version /\ ~error)
=============================================================================
