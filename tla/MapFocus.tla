------------------------------ MODULE MapFocus ------------------------------
(***************************************************************************)
(* Who decides where the map of the dashboard looks.  An event picked from *)
(* the watchlist, a region, an earthquake banner, a warning of the BMKG    *)
(* panel and a warning handed over by another page through App all ask for *)
(* a focus; ExecutiveOverview turns what it holds into one request, and    *)
(* the map flies when the key of the request is new to it (MapLibre) or    *)
(* when React re-runs an effect (Leaflet).                                 *)
(*                                                                         *)
(* "flown" is where the last step flew, "asked" the last place a user      *)
(* asked the map for; both are observations of the model.                  *)
(***************************************************************************)
EXTENDS Integers

CONSTANTS
  Events,     \* events of the watchlist
  Regions,    \* regions of the situation panel
  Alerts,     \* official warnings
  Unplaced,   \* warnings without a place of their own
  MaxAsks,    \* bound of the model: requests of users
  MaxChanges  \* bound of the model: changes of the data

FocusAssumption ==
  Unplaced \subseteq Alerts /\ MaxAsks \in Nat /\ MaxChanges \in Nat

VARIABLES
  engine,      \* "maplibre" or "leaflet"
  handedAlert, \* App.officialAlertFocus, the warning another page hands over
  onDashboard, \* is ExecutiveOverview the active section?
  selected,    \* selectedEvent
  eventAsk,    \* eventFocusRequest
  alertAsk,    \* officialAlertFocus
  held,        \* where each warning is known: by the BMKG hook, as an overlay
               \* of /map/overlays in force or run out, or not at all
  confirmed,   \* the first load and both warning feeds are in, none uncertain
  features,    \* the warnings among the features the map has loaded
  mapReady,    \* the map is mounted and its style loaded
  lastKey,     \* lastFocusedRequestKey
  flown, asked,
  asks, revisions

None == "none"
Ask(id, nonce) == [id |-> id, nonce |-> nonce]
NoAsk == Ask(None, 0)
Request(id, nonce, key, place) == [id |-> id, nonce |-> nonce, key |-> key, place |-> place]
NoRequest == Request(None, 0, None, None)

data == <<held, confirmed, features>>
counters == <<asks, revisions>>
focusVars == <<engine, handedAlert, onDashboard, selected, eventAsk, alertAsk, data,
               mapReady, lastKey, flown, asked, counters>>

NextNonce(ask) == ask.nonce + 1

(* operationalFocusRequest: an event or region first, then the warning, with *)
(* an id if the BMKG hook knows it, without one if it is only an overlay.    *)
FocusRequest(ev, al, where) ==
  IF ev # NoAsk THEN Request(ev.id, ev.nonce, ev.id, ev.id)
  ELSE IF al = NoAsk \/ where[al.id] = "unknown" THEN NoRequest
  ELSE IF where[al.id] = "bmkg"
  THEN Request(al.id, al.nonce, al.id, IF al.id \in Unplaced THEN None ELSE al.id)
  ELSE Request(al.id, al.nonce, "", al.id)

(* synchronizeFocus: a null request forgets the key; one whose feature is    *)
(* loaded or that brings a place moves the camera once for each new key.     *)
HasPlace(r, fs) == r.place # None \/ r.key \in fs
KeyOf(r, fs, key) ==
  IF r = NoRequest THEN NoAsk
  ELSE IF HasPlace(r, fs) THEN Ask(r.key, r.nonce) ELSE key
FliesTo(r, fs, key) ==
  IF r # NoRequest /\ HasPlace(r, fs) /\ Ask(r.key, r.nonce) # key THEN r.id ELSE None

(* selectedOverlay of the Leaflet map: the warning asked for, while it is in *)
(* force and has a place.                                                    *)
SelectedOverlay(al, where) ==
  IF al # NoAsk /\ (where[al.id] = "overlay" \/ (where[al.id] = "bmkg" /\ al.id \notin Unplaced))
  THEN al.id ELSE None

(* The effect of the dashboard that drops a warning which is no overlay in   *)
(* force, or has no place to be one, once the state of all is known.         *)
Dropped(al, where, ok) ==
  al # NoAsk /\ ok /\ SelectedOverlay(al, where) = None

(* MiniMapController and then OverlayFocusController run their effects when  *)
(* the objects they depend on are new, also when a refresh has only read the *)
(* same data again; the last flight is the one that is seen.                 *)
LeafletFlight(sel, al, where, news) ==
  IF "overlay" \in news /\ SelectedOverlay(al, where) # None THEN SelectedOverlay(al, where)
  ELSE IF "event" \in news /\ sel # None THEN sel ELSE None

(* One commit of React: the effects of the map, then those of the dashboard, *)
(* then those of the map again if the warning was dropped.  "news" names     *)
(* what is a new object in this commit.                                      *)
Render(sel, ev, al, where, ok, fs, ready, news) ==
  LET first == FocusRequest(ev, al, where)
      drop == Dropped(al, where, ok)
      last == IF drop THEN FocusRequest(ev, NoAsk, where) ELSE first
      key1 == IF ready \/ first = NoRequest THEN KeyOf(first, fs, lastKey) ELSE lastKey
      key2 == IF ready \/ last = NoRequest THEN KeyOf(last, fs, key1) ELSE key1
  IN /\ selected' = sel /\ eventAsk' = ev
     /\ alertAsk' = IF drop THEN NoAsk ELSE al
     /\ held' = where /\ confirmed' = ok /\ features' = fs /\ mapReady' = ready
     /\ lastKey' = IF engine = "maplibre" THEN key2 ELSE lastKey
     /\ flown' = IF ~ready THEN None
                 ELSE IF engine = "maplibre" THEN FliesTo(first, fs, lastKey)
                 ELSE LeafletFlight(sel, al, where, news)

(* A handler that changes only what is asked for. *)
Asking(sel, ev, al, news) ==
  /\ onDashboard
  /\ Render(sel, ev, al, held, confirmed, features, mapReady, news)
  /\ UNCHANGED <<engine, onDashboard, revisions>>

Counted == asks < MaxAsks /\ asks' = asks + 1

(* ---- The handlers ---- *)

\* Mutant: the warning asked for before is kept.
ClickKeepsWarning(e) ==
  /\ Counted
  /\ Asking(e, Ask(e, NextNonce(eventAsk)), alertAsk, {"event", "overlay"})
  /\ handedAlert' = NoAsk /\ asked' = e

(* handleEventClick: a row of the watchlist, a marker, or a banner.          *)
HandleEventClick(e) ==
  /\ Counted
  /\ Asking(e, Ask(e, NextNonce(eventAsk)), NoAsk, {"event", "overlay"})
  /\ handedAlert' = NoAsk /\ asked' = e

(* "Hapus filter" of the news panel, shown while an event is selected.       *)
HandleClearSelection ==
  /\ selected # None
  /\ Asking(None, NoAsk, alertAsk, {"event"})
  /\ asked' = None /\ UNCHANGED <<handedAlert, asks>>

(* handleRegionFocus leaves the warning asked for before; the Leaflet map    *)
(* knows no focus on a region and stays with what was asked of it.           *)
HandleRegionFocus(r) ==
  /\ Counted
  /\ Asking(None, Ask(r, NextNonce(eventAsk)), alertAsk, {"event"})
  /\ asked' = IF engine = "maplibre" THEN r ELSE asked
  /\ UNCHANGED handedAlert

HandleFocusOfficialAlert(a) ==
  /\ held[a] = "bmkg" /\ a \notin Unplaced
  /\ Counted
  /\ Asking(None, NoAsk, Ask(a, NextNonce(alertAsk)), {"event", "overlay"})
  /\ asked' = a /\ UNCHANGED handedAlert

(* showOfficialAlertOnMap of App: another page hands a warning over and the  *)
(* dashboard is mounted with it; the effect that takes it clears App's copy. *)
ShowOfficialAlertOnMap(a) ==
  /\ ~onDashboard /\ Counted
  /\ onDashboard' = TRUE /\ asked' = a /\ handedAlert' = NoAsk
  /\ Render(None, NoAsk, Ask(a, asks'), held, FALSE, {}, FALSE, {})
  /\ UNCHANGED <<engine, revisions>>

(* navigate: another page, or the dashboard from scratch.                    *)
Leave ==
  /\ onDashboard /\ onDashboard' = FALSE /\ asked' = None
  /\ Render(None, NoAsk, NoAsk, held, FALSE, {}, FALSE, {})
  /\ UNCHANGED <<engine, handedAlert, counters>>

Return ==
  /\ ~onDashboard /\ onDashboard' = TRUE
  /\ Render(None, NoAsk, handedAlert, held, FALSE, {}, FALSE, {})
  /\ handedAlert' = NoAsk
  /\ UNCHANGED <<engine, asked, counters>>

(* ---- The map and the data ---- *)

MapLoaded ==
  /\ onDashboard /\ ~mapReady
  /\ Render(selected, eventAsk, alertAsk, held, confirmed, features, TRUE, {"event", "overlay"})
  /\ UNCHANGED <<engine, handedAlert, onDashboard, asked, counters>>

(* A refresh of the dashboard or of the BMKG hook: what is known of one      *)
(* warning and whether all is confirmed may change; the objects are new.     *)
Refresh(a, w, ok) ==
  /\ onDashboard /\ revisions < MaxChanges /\ revisions' = revisions + 1
  /\ Render(selected, eventAsk, alertAsk, [held EXCEPT ![a] = w], ok, features, mapReady,
            {"event", "overlay"})
  /\ UNCHANGED <<engine, handedAlert, onDashboard, asked, asks>>

(* The map has loaded the warnings of its viewport; only then is its key     *)
(* looked at again.                                                          *)
FeaturesLoaded(fs) ==
  /\ engine = "maplibre" /\ mapReady /\ fs # features
  /\ Render(selected, eventAsk, alertAsk, held, confirmed, fs, mapReady, {})
  /\ UNCHANGED <<engine, handedAlert, onDashboard, asked, counters>>

Init ==
  /\ engine \in {"maplibre", "leaflet"} /\ onDashboard = TRUE
  /\ handedAlert = NoAsk /\ selected = None /\ eventAsk = NoAsk /\ alertAsk = NoAsk
  /\ held \in [Alerts -> {"unknown", "bmkg", "overlay"}]
  /\ confirmed = FALSE /\ features = {}
  /\ mapReady = FALSE /\ lastKey = NoAsk /\ flown = None /\ asked = None
  /\ asks = 0 /\ revisions = 0

Next ==
  \/ \E e \in Events : HandleEventClick(e)
  \/ \E r \in Regions : HandleRegionFocus(r)
  \/ \E a \in Alerts : HandleFocusOfficialAlert(a) \/ ShowOfficialAlertOnMap(a)
  \/ HandleClearSelection \/ Leave \/ Return \/ MapLoaded
  \/ \E a \in Alerts, w \in {"unknown", "bmkg", "overlay", "over"}, ok \in BOOLEAN :
       Refresh(a, w, ok)
  \/ \E fs \in SUBSET Alerts : FeaturesLoaded(fs)

Spec == Init /\ [][Next]_focusVars

(* ---- Properties ---- *)

(* Type of the state. *)
TypeOK ==
  /\ engine \in {"maplibre", "leaflet"} /\ onDashboard \in BOOLEAN
  /\ selected \in Events \cup {None}
  /\ eventAsk.id \in Events \cup Regions \cup {None}
  /\ alertAsk.id \in Alerts \cup {None} /\ handedAlert.id \in Alerts \cup {None}
  /\ eventAsk.nonce \in 0..MaxAsks /\ alertAsk.nonce \in 0..MaxAsks
  /\ held \in [Alerts -> {"unknown", "bmkg", "overlay", "over"}]
  /\ confirmed \in BOOLEAN /\ features \subseteq Alerts /\ mapReady \in BOOLEAN
  /\ asks \in 0..MaxAsks /\ revisions \in 0..MaxChanges

(* Whatever loads, refreshes or is dropped meanwhile, the map only ever      *)
(* flies to the place a user asked for last; after "Hapus filter" or on a    *)
(* dashboard opened anew it stays where it is.                               *)
FliesWhereAsked ==
  flown # None => flown = asked
=============================================================================
