---------------------------- MODULE BmkgWarnings ----------------------------
(***************************************************************************)
(* The BMKG panel of the dashboard: the hook useBmkgWarnings, which loads  *)
(* three endpoints side by side and keeps what it has when one of them     *)
(* fails, and BmkgWarningsPanel, which says what is in force.              *)
(*                                                                         *)
(* Two clocks meet here: "clock" is the time of the server and the wall,   *)
(* "now" the instant the hook last read, by which it filters what it       *)
(* shows.  The server answers with the warnings in force at its own time.  *)
(***************************************************************************)
EXTENDS Integers

CONSTANTS
  Items,      \* warnings and observations: [feed, from, until, placed, name]
  Period,     \* BMKG_REFRESH_INTERVAL_MS, in ticks of the clock
  MaxClock,   \* bound of the model: the last tick
  MaxChanges  \* bound of the model: changes at the source

PanelAssumption ==
  /\ Period \in Nat \ {0}
  /\ MaxClock \in Nat /\ MaxChanges \in Nat
  /\ \A i \in Items : i.from \in Nat /\ i.until \in Nat

VARIABLES
  clock,      \* the time of the server and of the wall
  issued,     \* the items in force at the source, cancelled ones removed
  changes,    \* how often the source has changed
  integrated, \* is the air quality source active at the server?
  hidden,     \* document.hidden
  due,        \* the next firing of the interval
  flight,     \* the state of the three requests in flight; Idle when none are
  rows,       \* what was last loaded from each endpoint
  active,     \* sourceActive: "unknown", "active" or "inactive"
  loaded,     \* the endpoints that have answered once
  uncertain,  \* the endpoints whose rows are older than a failed load
  errors,     \* the endpoints that failed in the last load
  loading,    \* TRUE until the first load has settled
  now         \* the instant by which the hook filters

source == <<issued, changes, integrated>>
held == <<rows, active, loaded, uncertain, errors, loading>>
bmkgVars == <<clock, source, hidden, due, flight, held, now>>

(* The two feeds of official warnings, and all endpoints of the hook. *)
Feeds == {"weather", "air_quality"}
Endpoints == Feeds \cup {"observations"}

(* The load in flight: none, asked, or settled with the endpoints that       *)
(* answered, the items of each and the state of the source.                  *)
NoItems == [e \in Endpoints |-> {}]
Load(state, answered, items, on) ==
  [state |-> state, answered |-> answered, items |-> items, on |-> on]
Idle == Load("idle", {}, NoItems, FALSE)
Asked == Load("asked", {}, NoItems, FALSE)
InFlight == flight # Idle

(* filterActiveOfficialAlerts: effective and not yet expired at t. *)
ActiveAt(items, t) == {i \in items : i.from <= t /\ t < i.until}

(* What the server answers: only warnings in force at its own time. *)
Answer(e) ==
  LET current == {i \in issued : i.feed = e}
  IN IF e \in Feeds THEN ActiveAt(current, clock) ELSE current

(* reload: a load that is in flight is shared, never started twice. *)
Reload == flight' = IF InFlight THEN flight ELSE Asked

(* ---- What the panel shows ---- *)

(* The hook filters by now and the panel filters once more by the same now. *)
Shown(feed) == ActiveAt(ActiveAt(rows[feed], now), now)

\* Mutant: a failed load after a good one leaves no doubt.
WeatherLoadedEmpty == "weather" \in loaded /\ Shown("weather") = {}

WeatherConfirmedEmpty ==
  /\ "weather" \in loaded \ uncertain
  /\ Shown("weather") = {}

AirConfirmedEmpty ==
  /\ active = "active"
  /\ {"air_quality", "observations"} \subseteq loaded \ uncertain
  /\ Shown("air_quality") = {} /\ rows["observations"] = {}

(* EmptyRow: the panel says that no warning is in force. *)
SaysEmpty(feed) ==
  /\ ~loading
  /\ IF feed = "weather" THEN WeatherConfirmedEmpty ELSE AirConfirmedEmpty

(* ErrorRow: a failure of an endpoint of the tab, with a button to retry. *)
SaysError(feed) ==
  /\ ~loading
  /\ IF feed = "weather" THEN "weather" \in errors
     ELSE errors \cap {"air_quality", "observations"} # {}

(* A row can be brought to the map from the tab in front, if it has a place. *)
CanFocus(tab, i) ==
  ~loading /\ i.placed /\ i \in Shown(tab)

(* ---- Mounting ---- *)

(* The hook has just been mounted: its first load is on its way and its      *)
(* interval started.                                                         *)
Init ==
  /\ clock = 0 /\ hidden = FALSE /\ changes = 0
  /\ issued \in SUBSET Items /\ integrated \in BOOLEAN
  /\ flight = Asked /\ rows = [e \in Endpoints |-> {}] /\ active = "unknown"
  /\ loaded = {} /\ uncertain = {} /\ errors = {} /\ loading = TRUE
  /\ now = clock /\ due = clock + Period

(* Another page is opened and the dashboard opened again: the answers to the *)
(* old instance find it unmounted and are dropped.                           *)
Remount ==
  /\ flight' = Asked /\ rows' = [e \in Endpoints |-> {}] /\ active' = "unknown"
  /\ loaded' = {} /\ uncertain' = {} /\ errors' = {} /\ loading' = TRUE
  /\ now' = clock /\ due' = clock + Period
  /\ UNCHANGED <<clock, source, hidden>>

(* ---- Loading ---- *)

(* Each endpoint answers or fails; Promise.allSettled waits for all three.   *)
Serve(answered) ==
  /\ flight = Asked
  /\ flight' = Load("settled", answered,
                    [e \in Endpoints |-> IF e \in answered THEN Answer(e) ELSE {}],
                    "observations" \in answered /\ integrated)
  /\ UNCHANGED <<clock, source, hidden, due, held, now>>

(* What the finished load makes of the rows of an endpoint.                  *)
Merged(e) == IF e \in flight.answered THEN flight.items[e] ELSE rows[e]

(* All three have settled: what was answered replaces what was held, what    *)
(* failed is kept, and marked as uncertain if it was ever loaded.            *)
Settle ==
  LET failed == Endpoints \ flight.answered
  IN /\ flight.state = "settled"
     /\ flight' = Idle
     /\ rows' = [e \in Endpoints |-> Merged(e)]
     /\ active' = IF "observations" \in failed THEN active
                  ELSE IF flight.on THEN "active" ELSE "inactive"
     /\ loaded' = loaded \cup flight.answered
     /\ uncertain' = failed \cap loaded
     /\ errors' = failed
     /\ loading' = FALSE
     /\ UNCHANGED <<clock, source, hidden, due, now>>

(* The interval: skipped while the tab is hidden, else now is read again.    *)
Tick ==
  /\ clock = due
  /\ due' = due + Period
  /\ IF hidden THEN UNCHANGED <<flight, now>> ELSE now' = clock /\ Reload
  /\ UNCHANGED <<clock, source, hidden, held>>

(* The other ways to a reload: the tab of the browser comes to the front, or *)
(* the dashboard refreshes.  None of them reads the clock.                   *)
Hide ==
  /\ ~hidden /\ hidden' = TRUE
  /\ UNCHANGED <<clock, source, due, flight, held, now>>

Show ==
  /\ hidden /\ hidden' = FALSE /\ Reload
  /\ UNCHANGED <<clock, source, due, held, now>>

DashboardRefresh ==
  /\ ~hidden /\ Reload
  /\ UNCHANGED <<clock, source, hidden, due, held, now>>

(* The button of the error row, live in the tab in front only.               *)
Retry(tab) ==
  /\ ~hidden /\ SaysError(tab) /\ Reload
  /\ UNCHANGED <<clock, source, hidden, due, held, now>>

(* ---- The environment ---- *)

(* The clock cannot pass the moment at which the interval fires.             *)
Pass ==
  /\ clock < MaxClock /\ clock < due
  /\ clock' = clock + 1
  /\ UNCHANGED <<source, hidden, due, flight, held, now>>

(* The agency issues or cancels a warning, or the source is switched.        *)
Issue(i) ==
  /\ changes < MaxChanges /\ changes' = changes + 1
  /\ issued' = IF i \in issued THEN issued \ {i} ELSE issued \cup {i}
  /\ UNCHANGED <<clock, integrated, hidden, due, flight, held, now>>

Integrate ==
  /\ changes < MaxChanges /\ changes' = changes + 1
  /\ integrated' = ~integrated
  /\ UNCHANGED <<clock, issued, hidden, due, flight, held, now>>

Next ==
  \/ \E answered \in SUBSET Endpoints : Serve(answered)
  \/ Settle \/ Tick \/ Hide \/ Show \/ DashboardRefresh
  \/ \E tab \in Feeds : Retry(tab)
  \/ Remount \/ Pass \/ Integrate \/ \E i \in Items : Issue(i)

Spec == Init /\ [][Next]_bmkgVars

(* ---- Properties ---- *)

(* Type of the state. *)
TypeOK ==
  /\ clock \in 0..MaxClock /\ changes \in 0..MaxChanges /\ now \in 0..clock /\ due \in Nat
  /\ issued \subseteq Items /\ integrated \in BOOLEAN /\ hidden \in BOOLEAN
  /\ rows \in [Endpoints -> SUBSET Items]
  /\ active \in {"unknown", "active", "inactive"}
  /\ loaded \subseteq Endpoints /\ uncertain \subseteq Endpoints
  /\ errors \subseteq Endpoints /\ loading \in BOOLEAN

(* A panel that says "no warning" has had an answer of every endpoint of the *)
(* tab in the last load that settled: a failed one never makes it calm.      *)
(* Lines 335 to 344 of the panel with the merge of the hook.                 *)
CalmIsConfirmed ==
  \A f \in Feeds : SaysEmpty(f) => ~SaysError(f)

=============================================================================
