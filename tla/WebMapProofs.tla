---------------------------- MODULE WebMapProofs -----------------------------
(***************************************************************************)
(* Inductive invariants of the maps of the web client, each of the         *)
(* instance that WebClient makes of the component: for any constants that  *)
(* satisfy the component's assumption.  A component has an invariant of    *)
(* its own, a lemma that its initial states satisfy it, one that its steps *)
(* keep it, and lemmas of what it implies; WebClientProofs draws from them *)
(* the theorems about the whole client.                                    *)
(***************************************************************************)
EXTENDS WebClient, Sequences, FiniteSets, FiniteSetTheorems, TLAPS

---------------------------------------------------------------------------
(* MapFocus: the map flies where the last click asked it to                  *)

FocusAsks(ids, last) == [id : ids, nonce : 0..last]
FocusSpots == Events \cup Regions \cup {Focus!None}
FocusWarned == MapAlerts \cup {Focus!None}

(* Type of the state; a nonce is never greater than the number of requests.  *)
FocusTypeInv ==
  /\ engine \in {"maplibre", "leaflet"} /\ onDashboard \in BOOLEAN
  /\ focusSelected \in Events \cup {Focus!None}
  /\ eventAsk \in FocusAsks(FocusSpots, asks) /\ alertAsk \in FocusAsks(FocusWarned, asks)
  /\ handedAlert = Focus!NoAsk
  /\ held \in [MapAlerts -> {"unknown", "bmkg", "overlay", "over"}]
  /\ confirmed \in BOOLEAN /\ features \subseteq MapAlerts /\ mapReady \in BOOLEAN
  /\ asks \in 0..MaxAsks /\ revisions \in 0..MaxDataChanges

(* What the dashboard holds is of the place a was asked for: an event that is*)
(* selected leaves no warning, and a region only hides it from MapLibre.     *)
FocusFits(sel, ev, al, a) ==
  /\ sel # Focus!None => al = Focus!NoAsk /\ a = sel
  /\ engine = "maplibre" =>
       /\ ev # Focus!NoAsk => a = ev.id
       /\ ev = Focus!NoAsk /\ al # Focus!NoAsk => a = al.id
  /\ engine = "leaflet" /\ al # Focus!NoAsk => a = al.id

FocusInv ==
  /\ FocusTypeInv /\ FocusFits(focusSelected, eventAsk, alertAsk, focusAsked)
  /\ Focus!FliesWhereAsked

(* A commit of what fits flies only there, and leaves what fits. *)
LEMMA FocusRenderFits ==
  ASSUME NEW sel, NEW ev, NEW al, NEW where, NEW ok, NEW fs, NEW ready, NEW news,
         engine \in {"maplibre", "leaflet"}, engine' = engine,
         Focus!Render(sel, ev, al, where, ok, fs, ready, news),
           FocusFits(sel, ev, al, focusAsked')
  PROVE  FocusFits(focusSelected, eventAsk, alertAsk, focusAsked)' /\ Focus!FliesWhereAsked'
<1> DEFINE first == Focus!FocusRequest(ev, al, where)
<1>1. /\ focusSelected' = sel /\ eventAsk' = ev /\ alertAsk' \in {al, Focus!NoAsk}
      /\ flown' = IF ~ready THEN Focus!None
                  ELSE IF engine = "maplibre" THEN Focus!FliesTo(first, fs, lastKey)
                  ELSE Focus!LeafletFlight(sel, al, where, news)
  BY DEF Focus!Render
<1>2. FocusFits(focusSelected, eventAsk, alertAsk, focusAsked)'
  BY <1>1 DEF FocusFits
<1>3. ASSUME engine = "maplibre", Focus!FliesTo(first, fs, lastKey) # Focus!None
      PROVE  Focus!FliesTo(first, fs, lastKey) = focusAsked'
  <2>1. first # Focus!NoRequest /\ Focus!FliesTo(first, fs, lastKey) = first.id
    BY <1>3 DEF Focus!FliesTo
  <2>2. first.id = IF ev # Focus!NoAsk THEN ev.id ELSE al.id
    BY <2>1 DEF Focus!FocusRequest, Focus!Request
  <2>3. ev # Focus!NoAsk \/ al # Focus!NoAsk
    BY <2>1 DEF Focus!FocusRequest
  <2>4. QED
    BY <1>3, <2>1, <2>2, <2>3 DEF FocusFits
<1>4. ASSUME engine = "leaflet", Focus!LeafletFlight(sel, al, where, news) # Focus!None
      PROVE  Focus!LeafletFlight(sel, al, where, news) = focusAsked'
  BY <1>4 DEF Focus!LeafletFlight, Focus!SelectedOverlay, FocusFits
<1>5. Focus!FliesWhereAsked'
  BY <1>1, <1>3, <1>4 DEF Focus!FliesWhereAsked
<1>6. QED
  BY <1>2, <1>5

(* A dashboard opened anew, whose map is not yet loaded, flies nowhere. *)
LEMMA FocusDroppedFits ==
  ASSUME NEW al, engine' = engine,
           Focus!Render(Focus!None, Focus!NoAsk, al, held, FALSE, {}, FALSE, {}),
         FocusFits(Focus!None, Focus!NoAsk, al, focusAsked')
  PROVE  FocusFits(focusSelected, eventAsk, alertAsk, focusAsked)' /\ Focus!FliesWhereAsked'
<1>1. /\ focusSelected' = Focus!None /\ eventAsk' = Focus!NoAsk
      /\ alertAsk' \in {al, Focus!NoAsk}
      /\ flown' = Focus!None
  BY DEF Focus!Render
<1>2. QED
  BY <1>1 DEF FocusFits, Focus!FliesWhereAsked

(* What a commit sets. *)
LEMMA FocusRenderSets ==
  ASSUME NEW sel, NEW ev, NEW al, NEW where, NEW ok, NEW fs, NEW ready, NEW news,
         Focus!Render(sel, ev, al, where, ok, fs, ready, news)
  PROVE  /\ focusSelected' = sel /\ eventAsk' = ev /\ alertAsk' \in {al, Focus!NoAsk}
         /\ held' = where /\ confirmed' = ok /\ features' = fs /\ mapReady' = ready
BY DEF Focus!Render

(* A request with the next nonce is one, and not "nothing asked". *)
LEMMA FocusNextAsk ==
  ASSUME NEW ids, NEW id \in ids, NEW last \in Nat, NEW ask \in FocusAsks(ids, last)
  PROVE  /\ Focus!Ask(id, Focus!NextNonce(ask)) \in FocusAsks(ids, last + 1)
         /\ Focus!Ask(id, Focus!NextNonce(ask)) # Focus!NoAsk
         /\ Focus!Ask(id, Focus!NextNonce(ask)).id = id
<1>1. Focus!NextNonce(ask) \in 1..(last + 1)
  BY DEF FocusAsks, Focus!NextNonce
<1>2. QED
  BY <1>1 DEF Focus!Ask, Focus!NoAsk, FocusAsks

\* A request that was made stays one.
LEMMA FocusMoreAsks ==
  ASSUME NEW ids, NEW last \in Nat, NEW ask \in FocusAsks(ids, last)
  PROVE  ask \in FocusAsks(ids, last + 1)
BY DEF FocusAsks

\* No request at all is one of number zero.
LEMMA FocusNoAskIsAsk ==
  ASSUME NEW last \in Nat
  PROVE  /\ Focus!NoAsk \in FocusAsks(FocusSpots, last)
         /\ Focus!NoAsk \in FocusAsks(FocusWarned, last)
BY DEF Focus!NoAsk, Focus!Ask, FocusAsks, FocusSpots, FocusWarned

\* The page as it is opened.
LEMMA FocusInitInv == ASSUME Focus!FocusAssumption PROVE Focus!Init => FocusInv
<1> SUFFICES ASSUME Focus!Init PROVE FocusInv
  OBVIOUS
<1>1. FocusTypeInv
  <2>1. 0 \in Nat /\ 0 \in 0..MaxAsks /\ 0 \in 0..MaxDataChanges
    BY DEF Focus!FocusAssumption
  <2>2. Focus!NoAsk \in FocusAsks(FocusSpots, 0) /\ Focus!NoAsk \in FocusAsks(FocusWarned, 0)
    BY <2>1, FocusNoAskIsAsk
  <2>3. eventAsk \in FocusAsks(FocusSpots, asks) /\ alertAsk \in FocusAsks(FocusWarned, asks)
    BY <2>2 DEF Focus!Init
  <2>4. held \in [MapAlerts -> {"unknown", "bmkg", "overlay", "over"}]
    BY DEF Focus!Init
  <2>5. QED
    BY <2>1, <2>3, <2>4 DEF Focus!Init, FocusTypeInv
<1>2. QED
  BY <1>1 DEF Focus!Init, FocusInv, FocusFits, Focus!FliesWhereAsked

\* Clicks, links, loads of the alert and of the events, the map that gets
\* ready and other pages.
LEMMA FocusStepInv ==
  ASSUME Focus!FocusAssumption
  PROVE  FocusInv /\ [Focus!Next]_(Focus!focusVars) => FocusInv'
<1> SUFFICES ASSUME FocusInv, [Focus!Next]_(Focus!focusVars) PROVE FocusInv'
  OBVIOUS
<1>1. /\ MaxAsks \in Nat /\ MaxDataChanges \in Nat /\ asks \in Nat /\ asks \in 0..MaxAsks
      /\ revisions \in 0..MaxDataChanges /\ engine \in {"maplibre", "leaflet"}
      /\ onDashboard \in BOOLEAN /\ handedAlert = Focus!NoAsk
      /\ held \in [MapAlerts -> {"unknown", "bmkg", "overlay", "over"}]
      /\ confirmed \in BOOLEAN /\ features \in SUBSET MapAlerts /\ mapReady \in BOOLEAN
      /\ focusSelected \in Events \cup {Focus!None}
      /\ eventAsk \in FocusAsks(FocusSpots, asks) /\ alertAsk \in FocusAsks(FocusWarned, asks)
      /\ FocusFits(focusSelected, eventAsk, alertAsk, focusAsked)
  BY DEF FocusInv, FocusTypeInv, Focus!FocusAssumption
<1>0. Focus!None \in Events \cup {Focus!None} /\ FALSE \in BOOLEAN /\ {} \in SUBSET MapAlerts
  OBVIOUS
<1>2. /\ Focus!NoAsk \in FocusAsks(FocusSpots, asks)
      /\ Focus!NoAsk \in FocusAsks(FocusWarned, asks)
      /\ Focus!NoAsk \in FocusAsks(FocusSpots, asks + 1)
      /\ Focus!NoAsk \in FocusAsks(FocusWarned, asks + 1)
      /\ eventAsk \in FocusAsks(FocusSpots, asks + 1)
      /\ alertAsk \in FocusAsks(FocusWarned, asks + 1)
  BY <1>1, FocusNoAskIsAsk, FocusMoreAsks
<1>3. ASSUME Focus!Counted PROVE asks' = asks + 1 /\ asks' \in 0..MaxAsks
  BY <1>1, <1>3 DEF Focus!Counted
<1>4. ASSUME NEW e \in Events, Focus!HandleEventClick(e) PROVE FocusInv'
  <2> DEFINE ask == Focus!Ask(e, Focus!NextNonce(eventAsk))
  <2>1. e \in FocusSpots
    BY DEF FocusSpots
  <2>2. ask \in FocusAsks(FocusSpots, asks + 1) /\ ask # Focus!NoAsk /\ ask.id = e
    BY <1>1, <2>1, FocusNextAsk
  <2> HIDE DEF ask
  <2>3. /\ Focus!Render(e, ask, Focus!NoAsk, held, confirmed, features, mapReady,
                        {"event", "overlay"})
        /\ Focus!Counted /\ UNCHANGED <<engine, onDashboard, revisions>>
        /\ handedAlert' = Focus!NoAsk /\ focusAsked' = e
    BY <1>4 DEF Focus!HandleEventClick, Focus!Asking, ask
  <2>4. FocusFits(e, ask, Focus!NoAsk, focusAsked')
    BY <2>2, <2>3 DEF FocusFits
  <2>5. FocusTypeInv'
    BY <1>1, <1>2, <1>3, <2>2, <2>3, <1>0 DEF FocusTypeInv, Focus!Render
  <2>6. QED
    BY <1>1, <2>3, <2>4, <2>5, <1>0, FocusRenderFits DEF FocusInv
<1>5. ASSUME NEW r \in Regions, Focus!HandleRegionFocus(r) PROVE FocusInv'
  <2> DEFINE ask == Focus!Ask(r, Focus!NextNonce(eventAsk))
  <2>1. r \in FocusSpots
    BY DEF FocusSpots
  <2>2. ask \in FocusAsks(FocusSpots, asks + 1) /\ ask # Focus!NoAsk /\ ask.id = r
    BY <1>1, <2>1, FocusNextAsk
  <2> HIDE DEF ask
  <2>3. /\ Focus!Render(Focus!None, ask, alertAsk, held, confirmed, features, mapReady,
                        {"event"})
        /\ Focus!Counted /\ UNCHANGED <<engine, onDashboard, revisions, handedAlert>>
        /\ focusAsked' = IF engine = "maplibre" THEN r ELSE focusAsked
    BY <1>5 DEF Focus!HandleRegionFocus, Focus!Asking, ask
  <2>4. FocusFits(Focus!None, ask, alertAsk, focusAsked')
    BY <1>1, <2>2, <2>3 DEF FocusFits
  <2>5. FocusTypeInv'
    BY <1>1, <1>2, <1>3, <2>2, <2>3, <1>0 DEF FocusTypeInv, Focus!Render
  <2>6. QED
    BY <1>1, <2>3, <2>4, <2>5, <1>0, FocusRenderFits DEF FocusInv
<1>6. ASSUME NEW a \in MapAlerts, Focus!HandleFocusOfficialAlert(a) PROVE FocusInv'
  <2> DEFINE ask == Focus!Ask(a, Focus!NextNonce(alertAsk))
  <2>1. a \in FocusWarned
    BY DEF FocusWarned
  <2>2. ask \in FocusAsks(FocusWarned, asks + 1) /\ ask # Focus!NoAsk /\ ask.id = a
    BY <1>1, <2>1, FocusNextAsk
  <2> HIDE DEF ask
  <2>3. /\ Focus!Render(Focus!None, Focus!NoAsk, ask, held, confirmed, features, mapReady,
                        {"event", "overlay"})
        /\ Focus!Counted /\ UNCHANGED <<engine, onDashboard, revisions, handedAlert>>
        /\ focusAsked' = a
    BY <1>6 DEF Focus!HandleFocusOfficialAlert, Focus!Asking, ask
  <2>4. FocusFits(Focus!None, Focus!NoAsk, ask, focusAsked')
    BY <2>2, <2>3 DEF FocusFits
  <2>5. FocusTypeInv'
    BY <1>1, <1>2, <1>3, <2>2, <2>3, <1>0 DEF FocusTypeInv, Focus!Render
  <2>6. QED
    BY <1>1, <2>3, <2>4, <2>5, <1>0, FocusRenderFits DEF FocusInv
<1>7. ASSUME NEW a \in MapAlerts, Focus!ShowOfficialAlertOnMap(a) PROVE FocusInv'
  <2> DEFINE ask == Focus!Ask(a, asks + 1)
  <2>1. /\ Focus!Render(Focus!None, Focus!NoAsk, ask, held, FALSE, {}, FALSE, {})
        /\ Focus!Counted /\ UNCHANGED <<engine, revisions>>
        /\ onDashboard' = TRUE /\ handedAlert' = Focus!NoAsk /\ focusAsked' = a
    BY <1>7 DEF Focus!ShowOfficialAlertOnMap, Focus!Counted
  <2>2. asks' = asks + 1 /\ asks' \in 0..MaxAsks
    BY <1>3, <2>1
  <2>3. ask \in FocusAsks(FocusWarned, asks') /\ ask.id = a
    BY <1>1, <2>2 DEF FocusAsks, Focus!Ask, FocusWarned
  <2> HIDE DEF ask
  <2>4. FocusFits(Focus!None, Focus!NoAsk, ask, focusAsked')
    BY <2>1, <2>3 DEF FocusFits
  <2>5. FocusTypeInv'
    BY <1>1, <1>2, <2>1, <2>2, <2>3, <1>0 DEF FocusTypeInv, Focus!Render
  <2>6. QED
    BY <1>1, <2>1, <2>4, <2>5, FocusDroppedFits DEF FocusInv
<1>8. CASE Focus!HandleClearSelection
  <2>1. /\ Focus!Render(Focus!None, Focus!NoAsk, alertAsk, held, confirmed, features, mapReady,
                        {"event"})
        /\ focusSelected # Focus!None /\ focusAsked' = Focus!None
        /\ UNCHANGED <<engine, onDashboard, revisions, handedAlert, asks>>
    BY <1>8 DEF Focus!HandleClearSelection, Focus!Asking
  <2>2. FocusFits(Focus!None, Focus!NoAsk, alertAsk, focusAsked')
    BY <1>1, <2>1 DEF FocusFits
  <2>3. FocusTypeInv'
    BY <1>1, <1>2, <2>1, <1>0 DEF FocusTypeInv, Focus!Render
  <2>4. QED
    BY <1>1, <2>1, <2>2, <2>3, <1>0, FocusRenderFits DEF FocusInv
<1>9. CASE Focus!Leave \/ Focus!Return
  <2>1. /\ Focus!Render(Focus!None, Focus!NoAsk, Focus!NoAsk, held, FALSE, {}, FALSE, {})
        /\ onDashboard' \in BOOLEAN /\ handedAlert' = Focus!NoAsk
        /\ UNCHANGED <<engine, asks, revisions>>
    BY <1>1, <1>9 DEF Focus!Leave, Focus!Return, Focus!counters
  <2>2. FocusFits(Focus!None, Focus!NoAsk, Focus!NoAsk, focusAsked')
    BY DEF FocusFits
  <2>3. FocusTypeInv'
    BY <1>1, <1>2, <2>1, <1>0 DEF FocusTypeInv, Focus!Render
  <2>4. QED
    BY <1>1, <2>1, <2>2, <2>3, FocusDroppedFits DEF FocusInv
<1>10. ASSUME NEW where \in [MapAlerts -> {"unknown", "bmkg", "overlay", "over"}],
                NEW ok \in BOOLEAN,
              NEW fs \in SUBSET MapAlerts, NEW ready \in BOOLEAN, NEW news,
              Focus!Render(focusSelected, eventAsk, alertAsk, where, ok, fs, ready, news),
              UNCHANGED <<engine, handedAlert, onDashboard, focusAsked, asks>>,
              revisions' \in 0..MaxDataChanges
       PROVE  FocusInv'
  <2>1. FocusFits(focusSelected, eventAsk, alertAsk, focusAsked')
    BY <1>1, <1>10
  <2>2. FocusTypeInv'
    <3>1. confirmed' \in BOOLEAN /\ mapReady' \in BOOLEAN
      BY <1>10, FocusRenderSets, Zenon
    <3>2. /\ focusSelected' = focusSelected /\ eventAsk' = eventAsk
          /\ alertAsk' \in {alertAsk, Focus!NoAsk}
          /\ held' = where /\ features' = fs
      BY <1>10, FocusRenderSets, Zenon
    <3>3. QED
      BY <1>1, <1>2, <1>10, <3>1, <3>2 DEF FocusTypeInv
  <2>3. QED
    BY <1>1, <1>10, <2>1, <2>2, <1>0, FocusRenderFits DEF FocusInv
<1>11. CASE Focus!MapLoaded
  BY <1>1, <1>10, <1>11 DEF Focus!MapLoaded, Focus!counters
<1>12. ASSUME NEW a \in MapAlerts, NEW w \in {"unknown", "bmkg", "overlay", "over"},
                NEW ok \in BOOLEAN,
              Focus!Refresh(a, w, ok)
       PROVE  FocusInv'
  <2> DEFINE where == [held EXCEPT ![a] = w]
             news == {"event", "overlay"}
  <2>1. where \in [MapAlerts -> {"unknown", "bmkg", "overlay", "over"}]
    BY <1>1
  <2>2. features \in SUBSET MapAlerts /\ mapReady \in BOOLEAN /\ ok \in BOOLEAN
    BY <1>1
  <2>3. revisions' \in 0..MaxDataChanges
    BY <1>1, <1>12 DEF Focus!Refresh
  <2>4. /\ Focus!Render(focusSelected, eventAsk, alertAsk, where, ok, features, mapReady, news)
        /\ UNCHANGED <<engine, handedAlert, onDashboard, focusAsked, asks>>
    BY <1>12, Zenon DEF Focus!Refresh
  <2> HIDE DEF where, news
  <2>5. QED
    BY <1>10, <2>1, <2>2, <2>3, <2>4, Zenon
<1>13. ASSUME NEW fs \in SUBSET MapAlerts, Focus!FeaturesLoaded(fs) PROVE FocusInv'
  BY <1>1, <1>10, <1>13 DEF Focus!FeaturesLoaded, Focus!counters
<1>14. CASE UNCHANGED Focus!focusVars
  BY <1>14 DEF Focus!focusVars, Focus!data, Focus!counters, FocusInv, FocusTypeInv, FocusFits,
         Focus!FliesWhereAsked
<1>15. QED
  BY <1>4, <1>5, <1>6, <1>7, <1>8, <1>9, <1>11, <1>12, <1>13, <1>14 DEF Focus!Next

\* The type that the runs check.
LEMMA FocusIsTyped == ASSUME Focus!FocusAssumption PROVE FocusInv => Focus!TypeOK
<1> SUFFICES ASSUME FocusInv PROVE Focus!TypeOK
  OBVIOUS
<1>1. /\ eventAsk.id \in FocusSpots /\ alertAsk.id \in FocusWarned
      /\ eventAsk.nonce \in 0..MaxAsks /\ alertAsk.nonce \in 0..MaxAsks
  <2>1. /\ eventAsk \in FocusAsks(FocusSpots, asks) /\ alertAsk \in FocusAsks(FocusWarned, asks)
        /\ asks \in 0..MaxAsks /\ MaxAsks \in Nat
    BY DEF FocusInv, FocusTypeInv, Focus!FocusAssumption
  <2>2. QED
    BY <2>1 DEF FocusAsks
<1>2. handedAlert.id = Focus!None
  BY DEF FocusInv, FocusTypeInv, Focus!NoAsk, Focus!Ask
<1>3. QED
  BY <1>1, <1>2 DEF FocusInv, FocusTypeInv, Focus!TypeOK, FocusSpots, FocusWarned

---------------------------------------------------------------------------
(* MapPublicLayers: layers of the view that is shown                         *)

PublicStates == [health : Public!Healths \cup {"absent"}, refreshing : BOOLEAN, full : BOOLEAN]
PublicDraws == [view : -1..MaxViews, empty : BOOLEAN]
PublicRequests == [view : 0..MaxViews, layers : SUBSET Public!Layers, current : BOOLEAN]

(* A request that is not superseded is for the view that is shown. *)
PublicCurrentAsks ==
  \A r \in loadsOut : r.current => mapUp = "loaded" /\ r.view = view

(* The map draws nothing before it is loaded and after it was lost. *)
PublicNothingUnlessLoaded ==
  mapUp # "loaded" => \A l \in Public!Layers : drawn[l] = Public!Nothing

PublicInv ==
  /\ Public!TypeOK /\ PublicCurrentAsks /\ PublicNothingUnlessLoaded /\ Public!CurrentIsThisView
  /\ Public!DrawnIsEnabled

PublicAllRefreshing(on, sts) == \A l \in on : sts[l].refreshing

\* What is switched on is said to be loading, or refreshing.
LEMMA PublicRefreshingTypes ==
  ASSUME NEW on \in SUBSET Public!Layers, NEW sts \in [Public!Layers -> PublicStates]
  PROVE  /\ Public!Refreshing(on, sts) \in [Public!Layers -> PublicStates]
         /\ PublicAllRefreshing(on, Public!Refreshing(on, sts))
<1> DEFINE new(l) == IF l \notin on THEN sts[l]
                     ELSE IF sts[l] = Public!Absent THEN Public!State("loading", TRUE, FALSE)
                     ELSE [sts[l] EXCEPT !.refreshing = TRUE]
<1>1. ASSUME NEW l \in Public!Layers
      PROVE new(l) \in PublicStates /\ (l \in on => new(l).refreshing = TRUE)
  <2>1. sts[l] \in PublicStates
    OBVIOUS
  <2>2. /\ Public!State("loading", TRUE, FALSE) \in PublicStates
        /\ Public!State("loading", TRUE, FALSE).refreshing = TRUE
    BY DEF Public!State, PublicStates, Public!Healths
  <2>3. /\ [sts[l] EXCEPT !.refreshing = TRUE] \in PublicStates
        /\ [sts[l] EXCEPT !.refreshing = TRUE].refreshing = TRUE
    BY <2>1 DEF PublicStates
  <2>4. QED
    BY <2>1, <2>2, <2>3
<1>2. Public!Refreshing(on, sts) = [l \in Public!Layers |-> new(l)]
  BY DEF Public!Refreshing
<1> HIDE DEF new
<1>3. QED
  BY <1>1, <1>2 DEF PublicAllRefreshing

\* Nothing is said of a layer.
LEMMA PublicAbsentType == Public!Absent \in PublicStates
BY DEF Public!Absent, PublicStates

\* Nothing is drawn.
LEMMA PublicNothingType == ASSUME MaxViews \in Nat PROVE Public!Nothing \in PublicDraws
BY DEF Public!Nothing, PublicDraws

(* Superseded requests keep their types and none is current. *)
LEMMA PublicSupersededTypes ==
  ASSUME loadsOut \in SUBSET PublicRequests
  PROVE  /\ Public!Superseded \in SUBSET PublicRequests
         /\ \A r \in Public!Superseded : r.current = FALSE
BY DEF Public!Superseded, PublicRequests

(* A load of what is on: it is for the view that is given, all others are    *)
(* superseded, and what is on is refreshing.                                 *)
LEMMA PublicLoadTypes ==
  ASSUME NEW on \in SUBSET Public!Layers, NEW sts \in [Public!Layers -> PublicStates],
           NEW v \in 0..MaxViews,
         loadsOut \in SUBSET PublicRequests, Public!LoadPublicLayers(on, sts, v),
           PublicCurrentAsks
  PROVE  /\ loadsOut' \in SUBSET PublicRequests /\ states' \in [Public!Layers -> PublicStates]
         /\ mapUp = "loaded" => /\ PublicAllRefreshing(on, states')
                                /\ \A r \in loadsOut' : r.current => r.view = v
         /\ mapUp # "loaded" => loadsOut' = loadsOut /\ \A r \in loadsOut' : ~r.current
<1>1. /\ Public!Superseded \in SUBSET PublicRequests
      /\ \A r \in Public!Superseded : r.current = FALSE
      /\ Public!Refreshing(on, sts) \in [Public!Layers -> PublicStates]
      /\ PublicAllRefreshing(on, Public!Refreshing(on, sts))
  BY PublicSupersededTypes, PublicRefreshingTypes
<1> DEFINE new == [view |-> v, layers |-> on, current |-> TRUE]
<1>2. new \in PublicRequests /\ new.view = v
  BY DEF PublicRequests
<1>3. CASE mapUp = "loaded"
  <2>1. /\ loadsOut' \in {Public!Superseded, Public!Superseded \cup {new}}
        /\ states' = Public!Refreshing(on, sts)
    BY <1>3 DEF Public!LoadPublicLayers
  <2> HIDE DEF new
  <2>2. QED
    BY <1>1, <1>2, <1>3, <2>1
<1>4. CASE mapUp # "loaded"
  BY <1>4 DEF Public!LoadPublicLayers, PublicCurrentAsks
<1>5. QED
  BY <1>3, <1>4

\* The layers of the two main switches.
LEMMA PublicBaseType ==
  ASSUME NEW news, NEW official PROVE Public!Base(news, official) \in SUBSET Public!Layers
BY DEF Public!Base, Public!Layers

\* The map as it is opened.
LEMMA PublicInitInv == ASSUME Public!LayersAssumption PROVE Public!Init => PublicInv
<1> SUFFICES ASSUME Public!Init PROVE PublicInv
  OBVIOUS
<1>1. MaxViews \in Nat /\ MaxPresses \in Nat
  BY DEF Public!LayersAssumption
<1>2. states \in [Public!Layers -> PublicStates]
  BY PublicAbsentType DEF Public!Init
<1>3. /\ drawn \in [Public!Layers -> PublicDraws]
      /\ \A l \in Public!Layers : drawn[l] = Public!Nothing
  BY <1>1, PublicNothingType DEF Public!Init
<1>4. newsOnly \in BOOLEAN /\ officialOn \in BOOLEAN /\ debounce \in BOOLEAN
  BY Zenon DEF Public!Init
<1>5. enabled \in SUBSET Public!Layers
  BY PublicBaseType DEF Public!Init
<1>0. view \in 0..MaxViews /\ presses \in 0..MaxPresses
  BY <1>1 DEF Public!Init
<1>6. Public!TypeOK
  BY <1>0, <1>2, <1>3, <1>4, <1>5 DEF Public!Init, Public!TypeOK, PublicStates, PublicDraws
<1>7. PublicCurrentAsks /\ PublicNothingUnlessLoaded /\ Public!DrawnIsEnabled
  BY <1>3 DEF Public!Init, PublicCurrentAsks, PublicNothingUnlessLoaded, Public!DrawnIsEnabled
<1>8. Public!CurrentIsThisView
  BY DEF Public!Init, Public!CurrentIsThisView
<1>9. QED
  BY <1>6, <1>7, <1>8 DEF PublicInv

(* Whenever everything that is on is refreshing, nothing is said of it that  *)
(* could be wrong.                                                           *)
LEMMA PublicRefreshingIsHonest ==
  ASSUME PublicAllRefreshing(enabled', states')
  PROVE  Public!CurrentIsThisView'
BY DEF PublicAllRefreshing, Public!CurrentIsThisView

(* synchronizeVisibleLayers keeps all of it. *)
LEMMA PublicSynchronizeKeeps ==
  ASSUME Public!LayersAssumption, PublicInv, NEW next \in SUBSET Public!Layers,
           Public!SynchronizeVisibleLayers(next),
         UNCHANGED <<view, snaps, debounce, mapUp>>,
         presses' \in 0..MaxPresses, newsOnly' \in BOOLEAN, officialOn' \in BOOLEAN,
         extras' \in SUBSET Public!Optional
  PROVE  PublicInv'
<1> DEFINE known == [l \in Public!Layers |-> IF l \in next THEN states[l] ELSE Public!Absent]
<1>1. /\ enabled' = next /\ Public!LoadPublicLayers(next, known, view)
      /\ drawn' = IF mapUp = "loaded"
                  THEN [l \in Public!Layers |-> IF l \in enabled \ next THEN Public!Nothing
                                                                        ELSE drawn[l]]
                  ELSE drawn
  BY DEF Public!SynchronizeVisibleLayers
<1>2. /\ Public!TypeOK /\ PublicCurrentAsks /\ PublicNothingUnlessLoaded
      /\ Public!CurrentIsThisView /\ Public!DrawnIsEnabled
      /\ MaxViews \in Nat
  BY DEF PublicInv, Public!LayersAssumption
<1>3. /\ states \in [Public!Layers -> PublicStates] /\ loadsOut \in SUBSET PublicRequests
      /\ view \in 0..MaxViews
      /\ drawn \in [Public!Layers -> PublicDraws]
  BY <1>2 DEF Public!TypeOK, PublicStates, PublicRequests, PublicDraws
<1>4. known \in [Public!Layers -> PublicStates]
  BY <1>3, PublicAbsentType
<1> HIDE DEF known
<1>5. /\ loadsOut' \in SUBSET PublicRequests /\ states' \in [Public!Layers -> PublicStates]
      /\ mapUp = "loaded" => /\ PublicAllRefreshing(next, states')
                             /\ \A r \in loadsOut' : r.current => r.view = view
      /\ mapUp # "loaded" => \A r \in loadsOut' : ~r.current
  BY <1>1, <1>2, <1>3, <1>4, PublicLoadTypes
<1>6. drawn' \in [Public!Layers -> PublicDraws]
  BY <1>1, <1>2, <1>3, PublicNothingType
<1>7. Public!TypeOK'
  BY <1>1, <1>2, <1>5, <1>6 DEF Public!TypeOK, PublicStates, PublicRequests, PublicDraws
<1>8. PublicCurrentAsks'
  BY <1>5 DEF PublicCurrentAsks
<1>9. PublicNothingUnlessLoaded'
  BY <1>1, <1>2 DEF PublicNothingUnlessLoaded
<1>10. Public!CurrentIsThisView'
  <2>1. CASE mapUp = "loaded"
    BY <1>1, <1>5, <2>1, PublicRefreshingIsHonest
  <2>2. CASE mapUp # "loaded"
    BY <2>2 DEF Public!CurrentIsThisView
  <2>3. QED
    BY <2>1, <2>2
<1>11. Public!DrawnIsEnabled'
  <2>1. CASE mapUp = "loaded"
    BY <1>1, <1>2, <2>1 DEF Public!DrawnIsEnabled
  <2>2. CASE mapUp # "loaded"
    BY <1>1, <1>2, <2>2 DEF Public!DrawnIsEnabled, PublicNothingUnlessLoaded
  <2>3. QED
    BY <2>1, <2>2
<1>12. QED
  BY <1>7, <1>8, <1>9, <1>10, <1>11 DEF PublicInv

(* So does a load of the layers that are on, for the view that is shown now. *)
LEMMA PublicLoadKeeps ==
  ASSUME Public!LayersAssumption, PublicInv, Public!LoadPublicLayers(enabled, states, view'),
           view' \in 0..MaxViews,
         debounce' \in BOOLEAN,
           UNCHANGED <<presses, Public!controls, enabled, snaps, drawn, mapUp>>
  PROVE  PublicInv'
<1>2. /\ Public!TypeOK /\ PublicCurrentAsks /\ PublicNothingUnlessLoaded
      /\ Public!DrawnIsEnabled
      /\ enabled \in SUBSET Public!Layers
  BY DEF PublicInv, Public!TypeOK
<1>3. states \in [Public!Layers -> PublicStates] /\ loadsOut \in SUBSET PublicRequests
  BY <1>2 DEF Public!TypeOK, PublicStates, PublicRequests
<1>5. /\ loadsOut' \in SUBSET PublicRequests /\ states' \in [Public!Layers -> PublicStates]
      /\ mapUp = "loaded" => /\ PublicAllRefreshing(enabled, states')
                             /\ \A r \in loadsOut' : r.current => r.view = view'
      /\ mapUp # "loaded" => \A r \in loadsOut' : ~r.current
  BY <1>2, <1>3, PublicLoadTypes
<1>7. Public!TypeOK'
  BY <1>2, <1>5 DEF Public!TypeOK, PublicStates, PublicRequests, Public!controls
<1>8. PublicCurrentAsks'
  BY <1>5 DEF PublicCurrentAsks
<1>9. PublicNothingUnlessLoaded' /\ Public!DrawnIsEnabled'
  BY <1>2 DEF PublicNothingUnlessLoaded, Public!DrawnIsEnabled
<1>10. Public!CurrentIsThisView'
  <2>1. CASE mapUp = "loaded"
    BY <1>5, <2>1, PublicRefreshingIsHonest
  <2>2. CASE mapUp # "loaded"
    BY <2>2 DEF Public!CurrentIsThisView
  <2>3. QED
    BY <2>1, <2>2
<1>11. QED
  BY <1>7, <1>8, <1>9, <1>10 DEF PublicInv

\* What an answer makes of what is said: it is current or empty only if the
\* answer says so.
LEMMA PublicSettledTypes ==
  ASSUME NEW state \in PublicStates, NEW result \in Public!Results
  PROVE  /\ Public!Settled(state, result) \in PublicStates
         /\ Public!Settled(state, result).health = "current" => result = "ready"
         /\ Public!Settled(state, result).health = "empty" => result = "empty"
<1> DEFINE settled == Public!Settled(state, result)
           said(health, full) == [health |-> health, refreshing |-> FALSE, full |-> full]
<1>1. ASSUME NEW health \in Public!Healths, NEW full \in BOOLEAN
      PROVE  said(health, full) \in PublicStates /\ said(health, full).health = health
  BY <1>1 DEF PublicStates
<1>2. CASE result = "ready"
  <2>1. settled = said("current", TRUE)
    BY <1>2 DEF Public!Settled, Public!State
  <2>2. "current" \in Public!Healths
    BY DEF Public!Healths
  <2> HIDE DEF settled, said
  <2>3. QED
    BY <1>1, <1>2, <2>1, <2>2 DEF settled
<1>3. CASE result \in {"empty", "stale"}
  <2>1. settled = said(result, result # "empty")
    BY <1>3 DEF Public!Settled, Public!State
  <2>2. result \in Public!Healths /\ (result # "empty") \in BOOLEAN
    BY <1>3 DEF Public!Healths
  <2>3. settled \in PublicStates /\ settled.health = result
    BY <1>1, <2>1, <2>2, Zenon
  <2> HIDE DEF settled, said
  <2>4. QED
    BY <1>3, <2>3 DEF settled
<1>4. CASE result = "unavailable"
  <2>1. settled = said("stale", TRUE) \/ settled = said("unavailable", FALSE)
    BY <1>4 DEF Public!Settled, Public!State
  <2>2. "stale" \in Public!Healths /\ "unavailable" \in Public!Healths
    BY DEF Public!Healths
  <2>3. settled \in PublicStates /\ settled.health \in {"stale", "unavailable"}
    BY <1>1, <2>1, <2>2
  <2> HIDE DEF settled, said
  <2>4. QED
    BY <1>4, <2>3 DEF settled
<1>5. QED
  BY <1>2, <1>3, <1>4 DEF Public!Results

\* Switches, moves of the view, the debounced load, answers in any order,
\* and the map that gets ready.
LEMMA PublicStepInv ==
  ASSUME Public!LayersAssumption
  PROVE  PublicInv /\ [Public!Next]_(Public!publicVars) => PublicInv'
<1> SUFFICES ASSUME PublicInv, [Public!Next]_(Public!publicVars) PROVE PublicInv'
  OBVIOUS
<1>1. /\ Public!TypeOK /\ PublicCurrentAsks /\ PublicNothingUnlessLoaded
      /\ Public!CurrentIsThisView /\ Public!DrawnIsEnabled
      /\ MaxViews \in Nat /\ MaxPresses \in Nat
  BY DEF PublicInv, Public!LayersAssumption
<1>2. /\ states \in [Public!Layers -> PublicStates] /\ loadsOut \in SUBSET PublicRequests
      /\ view \in 0..MaxViews
      /\ drawn \in [Public!Layers -> PublicDraws] /\ enabled \in SUBSET Public!Layers
      /\ extras \in SUBSET Public!Optional
      /\ newsOnly \in BOOLEAN /\ officialOn \in BOOLEAN /\ presses \in 0..MaxPresses
      /\ snaps \in SUBSET (0..MaxViews) /\ debounce \in BOOLEAN
  BY <1>1 DEF Public!TypeOK, PublicStates, PublicRequests, PublicDraws
<1>3. ASSUME Public!Press PROVE presses' \in 0..MaxPresses
  BY <1>1, <1>2, <1>3 DEF Public!Press
<1>4. ASSUME NEW news \in BOOLEAN, NEW official \in BOOLEAN, Public!Control(news, official)
      PROVE PublicInv'
  <2>1. Public!Base(news, official) \cup extras \in SUBSET Public!Layers
    BY <1>2, PublicBaseType DEF Public!Layers, Public!Optional
  <2>2. newsOnly' \in BOOLEAN /\ officialOn' \in BOOLEAN
    BY <1>4, Zenon DEF Public!Control
  <2>3. /\ presses' \in 0..MaxPresses
        /\ Public!SynchronizeVisibleLayers(Public!Base(news, official) \cup extras)
        /\ UNCHANGED <<view, snaps, debounce, mapUp, extras>>
    BY <1>3, <1>4 DEF Public!Control
  <2>4. QED
    BY <1>2, <2>1, <2>2, <2>3, PublicSynchronizeKeeps
<1>5. ASSUME NEW l \in Public!Layers, Public!ToggleExtra(l) PROVE PublicInv'
  <2>1. /\ extras' \in SUBSET Public!Optional /\ presses' \in 0..MaxPresses
        /\ Public!SynchronizeVisibleLayers(Public!Base(newsOnly, officialOn) \cup extras')
        /\ UNCHANGED <<view, newsOnly, officialOn, snaps, debounce, mapUp>>
    BY <1>2, <1>3, <1>5 DEF Public!ToggleExtra
  <2>2. Public!Base(newsOnly, officialOn) \cup extras' \in SUBSET Public!Layers
    BY <2>1, PublicBaseType DEF Public!Layers, Public!Optional
  <2>3. QED
    BY <1>2, <2>1, <2>2, PublicSynchronizeKeeps
<1>6. ASSUME NEW l \in Public!Layers, Public!ToggleBase(l) PROVE PublicInv'
  <2> DEFINE known == IF l \in enabled THEN [states EXCEPT ![l] = Public!Absent] ELSE states
  <2>1. /\ enabled' = IF l \in enabled THEN enabled \ {l} ELSE enabled \cup {l}
        /\ drawn' = IF l \in enabled /\ mapUp = "loaded"
                       THEN [drawn EXCEPT ![l] = Public!Nothing] ELSE drawn
        /\ Public!LoadPublicLayers(enabled', known, view) /\ presses' \in 0..MaxPresses
        /\ UNCHANGED <<view, Public!controls, snaps, debounce, mapUp>>
    BY <1>3, <1>6 DEF Public!ToggleBase
  <2>2. known \in [Public!Layers -> PublicStates] /\ enabled' \in SUBSET Public!Layers
    BY <1>2, <2>1, PublicAbsentType
  <2> HIDE DEF known
  <2>3. /\ loadsOut' \in SUBSET PublicRequests /\ states' \in [Public!Layers -> PublicStates]
        /\ mapUp = "loaded" => /\ PublicAllRefreshing(enabled', states')
                               /\ \A r \in loadsOut' : r.current => r.view = view
        /\ mapUp # "loaded" => \A r \in loadsOut' : ~r.current
    BY <1>1, <1>2, <2>1, <2>2, PublicLoadTypes
  <2>4. drawn' \in [Public!Layers -> PublicDraws]
    BY <1>1, <1>2, <2>1, PublicNothingType
  <2>5. Public!TypeOK'
    BY <1>1, <2>1, <2>2, <2>3, <2>4 DEF Public!TypeOK, PublicStates, PublicRequests,
           PublicDraws, Public!controls
  <2>6. PublicCurrentAsks'
    BY <2>1, <2>3 DEF PublicCurrentAsks
  <2>7. PublicNothingUnlessLoaded'
    BY <1>1, <2>1 DEF PublicNothingUnlessLoaded
  <2>8. Public!CurrentIsThisView'
    <3>1. CASE mapUp = "loaded"
      BY <2>3, <3>1, PublicRefreshingIsHonest
    <3>2. CASE mapUp # "loaded"
      BY <2>1, <3>2 DEF Public!CurrentIsThisView
    <3>3. QED
      BY <3>1, <3>2
  <2>9. Public!DrawnIsEnabled'
    <3>1. CASE mapUp = "loaded"
      BY <1>1, <1>2, <2>1, <3>1 DEF Public!DrawnIsEnabled
    <3>2. CASE mapUp # "loaded"
      BY <1>1, <2>1, <3>2 DEF Public!DrawnIsEnabled, PublicNothingUnlessLoaded
    <3>3. QED
      BY <3>1, <3>2
  <2>10. QED
    BY <2>5, <2>6, <2>7, <2>8, <2>9 DEF PublicInv
<1>7. ASSUME NEW r \in loadsOut, NEW result \in Public!Answers, Public!Answer(r, result)
      PROVE PublicInv'
  <2>1. /\ loadsOut' = loadsOut \ {r}
        /\ UNCHANGED <<view, presses, Public!controls, enabled, snaps, debounce, mapUp>>
    BY <1>7 DEF Public!Answer
  <2>2. r \in PublicRequests /\ result \in [Public!Layers -> Public!Results]
    BY <1>2 DEF Public!Answers, Public!Results
  <2>3. PublicCurrentAsks'
    BY <1>1, <2>1 DEF PublicCurrentAsks
  <2>4. CASE ~Public!Applies(r)
    <3>1. UNCHANGED <<drawn, states>>
      BY <1>7, <2>4 DEF Public!Answer
    <3>2. Public!TypeOK'
      BY <1>1, <2>1, <3>1 DEF Public!TypeOK, Public!controls
    <3>3. QED
      BY <1>1, <2>1, <2>3, <3>1, <3>2 DEF PublicInv, PublicNothingUnlessLoaded,
             Public!CurrentIsThisView, Public!DrawnIsEnabled
  <2>5. CASE Public!Applies(r)
    <3>1. /\ drawn' = [l \in Public!Layers |->
                 IF l \in r.layers \cap enabled /\ result[l] # "unavailable"
                 THEN Public!Drawn(r.view, result[l] = "empty") ELSE drawn[l]]
          /\ states' = [l \in Public!Layers |->
                 IF l \in r.layers THEN Public!Settled(states[l], result[l]) ELSE states[l]]
      BY <1>7, <2>5 DEF Public!Answer
    <3>2. mapUp = "loaded" /\ r.view = view
      BY <1>1, <2>5 DEF Public!Applies, PublicCurrentAsks
    <3>3. ASSUME NEW l \in Public!Layers
          PROVE states'[l] \in PublicStates /\ drawn'[l] \in PublicDraws
      <4>1. Public!Settled(states[l], result[l]) \in PublicStates
        BY <1>2, <2>2, PublicSettledTypes
      <4>2. Public!Drawn(r.view, result[l] = "empty") \in PublicDraws
        BY <1>1, <2>2 DEF Public!Drawn, PublicDraws, PublicRequests
      <4>3. QED
        BY <1>2, <3>1, <4>1, <4>2
    <3>4. /\ states' \in [Public!Layers -> PublicStates]
          /\ drawn' \in [Public!Layers -> PublicDraws]
      BY <3>1, <3>3
    <3>5. Public!TypeOK'
      BY <1>1, <2>1, <2>2, <3>4 DEF Public!TypeOK, PublicStates, PublicRequests, PublicDraws,
             Public!controls
    <3>6. Public!CurrentIsThisView'
      <4> SUFFICES ASSUME NEW l \in enabled \ Public!Optional
                   PROVE  /\ states'[l].health = "current" /\ ~states'[l].refreshing =>
                               drawn'[l] = Public!Drawn(view, FALSE)
                          /\ states'[l].health = "empty" /\ ~states'[l].refreshing =>
                               drawn'[l] = Public!Drawn(view, TRUE)
        BY <2>1 DEF Public!CurrentIsThisView
      <4>1. l \in Public!Layers
        BY <1>2
      <4>2. CASE l \in r.layers
        <5>1. states'[l] = Public!Settled(states[l], result[l])
          BY <3>1, <4>1, <4>2
        <5>2. /\ states'[l].health = "current" => result[l] = "ready"
              /\ states'[l].health = "empty" => result[l] = "empty"
          BY <1>2, <2>2, <4>1, <5>1, PublicSettledTypes
        <5>3. result[l] # "unavailable" => drawn'[l] = Public!Drawn(view, result[l] = "empty")
          BY <3>1, <3>2, <4>1, <4>2
        <5>4. result[l] = "ready" => drawn'[l] = Public!Drawn(view, FALSE)
          BY <5>3
        <5>5. result[l] = "empty" => drawn'[l] = Public!Drawn(view, TRUE)
          BY <5>3
        <5>6. QED
          BY <5>2, <5>4, <5>5
      <4>3. CASE l \notin r.layers
        <5>1. states'[l] = states[l] /\ drawn'[l] = drawn[l]
          BY <3>1, <4>1, <4>3
        <5>2. QED
          BY <1>1, <3>2, <5>1 DEF Public!CurrentIsThisView
      <4>4. QED
        BY <4>2, <4>3
    <3>7. Public!DrawnIsEnabled' /\ PublicNothingUnlessLoaded'
      BY <1>1, <2>1, <3>1, <3>2 DEF Public!DrawnIsEnabled, PublicNothingUnlessLoaded
    <3>8. QED
      BY <2>3, <3>5, <3>6, <3>7 DEF PublicInv
  <2>6. QED
    BY <2>4, <2>5
<1>8. ASSUME NEW v \in snaps, NEW result \in {"ready", "unavailable"},
               Public!SnapAnswer(v, result) PROVE PublicInv'
  <2>1. /\ snaps' = snaps \ {v}
        /\ UNCHANGED <<view, presses, Public!controls, enabled, loadsOut, debounce, mapUp>>
    BY <1>8 DEF Public!SnapAnswer
  <2>2. \/ UNCHANGED <<drawn, states>>
        \/ /\ mapUp = "loaded"
           /\ drawn' = [drawn EXCEPT !["aircraft"] = Public!Drawn(v, result = "empty")]
           /\ states' = [states EXCEPT !["aircraft"] = Public!Settled(Public!Absent, result)]
    BY <1>8 DEF Public!SnapAnswer
  <2>3. /\ Public!Settled(Public!Absent, result) \in PublicStates
        /\ Public!Drawn(v, result = "empty") \in PublicDraws
    <3>1. Public!Settled(Public!Absent, result) \in PublicStates
      BY PublicAbsentType, PublicSettledTypes DEF Public!Results
    <3>2. QED
      BY <1>1, <1>2, <3>1 DEF Public!Drawn, PublicDraws
  <2>4. states' \in [Public!Layers -> PublicStates] /\ drawn' \in [Public!Layers -> PublicDraws]
    BY <1>2, <2>2, <2>3
  <2>5. \A l \in Public!Layers \ Public!Optional : states'[l] = states[l] /\
          drawn'[l] = drawn[l]
    BY <1>2, <2>2 DEF Public!Optional
  <2>6. Public!TypeOK'
    BY <1>1, <2>1, <2>4 DEF Public!TypeOK, PublicStates, PublicDraws, Public!controls
  <2>7. PublicCurrentAsks'
    BY <1>1, <2>1 DEF PublicCurrentAsks
  <2>8. PublicNothingUnlessLoaded'
    BY <1>1, <2>1, <2>2 DEF PublicNothingUnlessLoaded
  <2>9. Public!CurrentIsThisView' /\ Public!DrawnIsEnabled'
    BY <1>1, <1>2, <2>1, <2>5 DEF Public!CurrentIsThisView, Public!DrawnIsEnabled
  <2>10. QED
    BY <2>6, <2>7, <2>8, <2>9 DEF PublicInv
<1>9. CASE Public!ChangeQuery
  <2>1. /\ view' \in 0..MaxViews /\ Public!LoadPublicLayers(enabled, states, view')
        /\ UNCHANGED <<presses, Public!controls, enabled, snaps, debounce, drawn, mapUp>>
    BY <1>1, <1>2, <1>9 DEF Public!ChangeQuery
  <2>2. QED
    BY <1>2, <2>1, PublicLoadKeeps
<1>10. CASE Public!Debounced
  <2>1. /\ view' = view /\ Public!LoadPublicLayers(enabled, states, view)
        /\ UNCHANGED <<presses, Public!controls, enabled, snaps, drawn, mapUp>>
    BY <1>10 DEF Public!Debounced
  <2>2. debounce' \in BOOLEAN
    BY <1>10, Zenon DEF Public!Debounced
  <2>3. QED
    BY <1>2, <2>1, <2>2, PublicLoadKeeps
<1>11. ASSUME mapUp' = "loaded", states' = Public!Refreshing(enabled, states),
                loadsOut' \in SUBSET PublicRequests,
              \A q \in loadsOut' : q.current =>
                q.view = view', view' \in 0..MaxViews, debounce' \in BOOLEAN,
              UNCHANGED <<presses, Public!controls, enabled, snaps, drawn>>
       PROVE  PublicInv'
  <2>1. states' \in [Public!Layers -> PublicStates] /\ PublicAllRefreshing(enabled, states')
    BY <1>2, <1>11, PublicRefreshingTypes
  <2>2. Public!TypeOK'
    BY <1>1, <1>11, <2>1 DEF Public!TypeOK, PublicStates, PublicRequests, Public!controls
  <2>3. PublicCurrentAsks' /\ PublicNothingUnlessLoaded' /\ Public!DrawnIsEnabled'
    BY <1>1, <1>11 DEF PublicCurrentAsks, PublicNothingUnlessLoaded, Public!DrawnIsEnabled
  <2>4. Public!CurrentIsThisView'
    BY <1>11, <2>1, PublicRefreshingIsHonest
  <2>5. QED
    BY <2>2, <2>3, <2>4 DEF PublicInv
<1>12. CASE Public!MarkReady
  <2> DEFINE q == [view |-> view, layers |-> enabled, current |-> TRUE]
  <2>1. /\ mapUp' = "loaded" /\ loadsOut' = {q} /\ states' = Public!Refreshing(enabled, states)
        /\ UNCHANGED <<view, presses, Public!controls, enabled, snaps, debounce, drawn>>
    BY <1>12 DEF Public!MarkReady
  <2>2. q \in PublicRequests /\ q.view = view
    BY <1>2 DEF PublicRequests
  <2> HIDE DEF q
  <2>3. QED
    BY <1>2, <1>11, <2>1, <2>2
<1>13. CASE Public!MoveEnd
  <2>1. /\ view' \in 0..MaxViews /\ mapUp' = mapUp
        /\ UNCHANGED <<presses, Public!controls, enabled, snaps, drawn>>
    BY <1>1, <1>2, <1>13 DEF Public!MoveEnd
  <2>2. CASE mapUp = "loaded"
    <3>1. loadsOut' = Public!Superseded /\ states' = Public!Refreshing(enabled, states)
      BY <1>13, <2>2 DEF Public!MoveEnd
    <3>2. debounce' \in BOOLEAN
      BY <1>13, <2>2, Zenon DEF Public!MoveEnd
    <3>3. loadsOut' \in SUBSET PublicRequests /\ \A q \in loadsOut' : q.current = FALSE
      BY <1>2, <3>1, PublicSupersededTypes
    <3>4. QED
      BY <1>11, <2>1, <2>2, <3>1, <3>2, <3>3
  <2>3. CASE mapUp # "loaded"
    <3>1. UNCHANGED <<loadsOut, states, debounce>>
      BY <1>13, <2>3 DEF Public!MoveEnd
    <3>2. Public!TypeOK'
      BY <1>1, <2>1, <3>1 DEF Public!TypeOK, Public!controls
    <3>3. QED
      BY <1>1, <2>1, <2>3, <3>1, <3>2
         DEF PublicInv, PublicCurrentAsks, PublicNothingUnlessLoaded, Public!CurrentIsThisView,
               Public!DrawnIsEnabled
  <2>4. QED
    BY <2>2, <2>3
<1>14. CASE Public!SnapAircraft
  <2>1. /\ snaps' = {view}
        /\ UNCHANGED <<view, presses, Public!controls, enabled, loadsOut, debounce, states,
                       drawn, mapUp>>
    BY <1>14 DEF Public!SnapAircraft
  <2>2. Public!TypeOK'
    BY <1>1, <2>1 DEF Public!TypeOK, Public!controls
  <2>3. QED
    BY <1>1, <2>1, <2>2 DEF PublicInv, PublicCurrentAsks, PublicNothingUnlessLoaded,
           Public!CurrentIsThisView, Public!DrawnIsEnabled
<1>15. CASE Public!ShowFallback
  <2>1. /\ mapUp' = "fallback" /\ loadsOut' = Public!Superseded
        /\ drawn' = [l \in Public!Layers |-> Public!Nothing]
        /\ UNCHANGED <<view, presses, Public!controls, enabled, snaps, states>>
    BY <1>15 DEF Public!ShowFallback
  <2>2. debounce' \in BOOLEAN
    BY <1>15, Zenon DEF Public!ShowFallback
  <2>3. loadsOut' \in SUBSET PublicRequests /\ \A q \in loadsOut' : q.current = FALSE
    BY <1>2, <2>1, PublicSupersededTypes
  <2>4. /\ drawn' \in [Public!Layers -> PublicDraws]
        /\ \A l \in Public!Layers : drawn'[l] = Public!Nothing
    BY <1>1, <2>1, PublicNothingType
  <2>5. Public!TypeOK'
    BY <1>1, <2>1, <2>2, <2>3, <2>4 DEF Public!TypeOK, PublicRequests, PublicDraws,
           Public!controls
  <2>6. QED
    BY <2>1, <2>3, <2>4, <2>5 DEF PublicInv, PublicCurrentAsks, PublicNothingUnlessLoaded,
           Public!CurrentIsThisView, Public!DrawnIsEnabled
<1>16. CASE UNCHANGED Public!publicVars
  <2>1. Public!TypeOK'
    BY <1>1, <1>16 DEF Public!TypeOK, Public!publicVars, Public!controls
  <2>2. QED
    BY <1>1, <1>16, <2>1 DEF Public!publicVars, PublicInv, PublicCurrentAsks,
           PublicNothingUnlessLoaded, Public!CurrentIsThisView, Public!DrawnIsEnabled
<1>17. QED
  BY <1>4, <1>5, <1>6, <1>7, <1>8, <1>9, <1>10, <1>12, <1>13, <1>14, <1>15, <1>16
       DEF Public!Next

---------------------------------------------------------------------------
(* MapPrivateLayers: private data of the account that is signed in           *)

PrivateUsers == Accounts \cup {NoAccount}
PrivateReadType ==
  [layers : SUBSET Private!PrivateLayers,
   token : [Private!PrivateLayers -> PrivateUsers \cup {Private!Unread}],
   retried : SUBSET Private!PrivateLayers, current : BOOLEAN]

(* Type of the state, with the loads in full. *)
PrivateTypeInv ==
  /\ auth \in PrivateUsers /\ privateSession \in PrivateUsers /\ privateOwner \in PrivateUsers
  /\ wanted \in SUBSET Private!PrivateLayers /\ zonesOn \in BOOLEAN /\ attached \in BOOLEAN
  /\ onMap \in [Private!PrivateLayers -> PrivateUsers]
  /\ reads \in SUBSET PrivateReadType

(* What a load that is not void asks for, and in whose name. *)
PrivateHarmless(r) ==
  r.current =>
    /\ attached /\ r.layers \subseteq wanted
    /\ \A l \in r.layers : r.token[l] \in {Private!Unread, privateSession, auth}

PrivateReadsAreHarmless == \A r \in reads : PrivateHarmless(r)
PrivateDrawnIsKnown ==
  \A l \in Private!PrivateLayers : onMap[l] # NoAccount =>
    onMap[l] \in {privateSession, auth} /\ l \in wanted

PrivateInv ==
  /\ PrivateTypeInv /\ privateOwner = privateSession /\ PrivateReadsAreHarmless
  /\ PrivateDrawnIsKnown

(* A load that is void is a load, and harmless. *)
LEMMA PrivateVoidedIsHarmless ==
  ASSUME reads \in SUBSET PrivateReadType
  PROVE  /\ Private!Voided \in SUBSET PrivateReadType
         /\ \A r \in Private!Voided : r.current = FALSE
  BY DEF Private!Voided, PrivateReadType

(* A load that was just begun is a load of its layers without a token. *)
LEMMA PrivateStartedIsRead ==
  ASSUME NEW layers \in SUBSET Private!PrivateLayers
  PROVE  /\ Private!Started(layers) \in PrivateReadType
         /\ Private!Started(layers).layers = layers
         /\ \A l \in Private!PrivateLayers : Private!Started(layers).token[l] = Private!Unread
  BY DEF Private!Started, PrivateReadType

(* The layers of an account are private layers. *)
LEMMA PrivateLayersAreLayers ==
  ASSUME NEW user, NEW zones \in BOOLEAN
  PROVE  Private!LayersOf(user, zones) \in SUBSET Private!PrivateLayers
  BY DEF Private!LayersOf, Private!PrivateLayers

(* Synchronising with the account React knows keeps everything but the       *)
(* account's own variables in order.                                         *)
LEMMA PrivateSynchronises ==
  ASSUME PrivateInv, NEW user \in PrivateUsers, NEW layers \in SUBSET Private!PrivateLayers,
         Private!SynchronizePrivateLayers(user, layers),
         auth' = auth, attached' = attached, privateSession' = user, zonesOn' \in BOOLEAN,
         user # privateSession => user = auth
  PROVE  PrivateInv'
<1>1. /\ Private!Voided \in SUBSET PrivateReadType
      /\ \A r \in Private!Voided : r.current = FALSE
  BY PrivateVoidedIsHarmless DEF PrivateInv, PrivateTypeInv
<1>2. /\ Private!Started(layers) \in PrivateReadType
      /\ Private!Started(layers).layers = layers
      /\ \A l \in Private!PrivateLayers : Private!Started(layers).token[l] = Private!Unread
  BY PrivateStartedIsRead
<1>3. CASE user # privateOwner
  <2>1. onMap' = [l \in Private!PrivateLayers |-> NoAccount]
    BY <1>3 DEF Private!SynchronizePrivateLayers, Private!Cleared
  <2>2. reads' = Private!Voided \/
          (attached /\ reads' = Private!Voided \cup {Private!Started(layers)})
    BY <1>3 DEF Private!SynchronizePrivateLayers, PrivateInv, PrivateTypeInv
  <2>3. PrivateTypeInv'
    BY <1>1, <1>2, <2>1, <2>2 DEF PrivateInv, PrivateTypeInv, Private!SynchronizePrivateLayers,
           PrivateUsers
  <2>4. PrivateReadsAreHarmless'
    <3>1. SUFFICES ASSUME NEW r \in reads', r.current
                   PROVE  /\ attached' /\ r.layers \subseteq wanted'
                          /\ \A l \in r.layers :
                               r.token[l] \in {Private!Unread, privateSession', auth'}
      BY DEF PrivateReadsAreHarmless, PrivateHarmless
    <3>2. r = Private!Started(layers) /\ attached
      BY <1>1, <2>2, <3>1
    <3> QED
      BY <1>2, <3>2 DEF Private!SynchronizePrivateLayers
  <2>5. PrivateDrawnIsKnown'
    BY <2>1 DEF PrivateDrawnIsKnown
  <2> QED
    BY <2>3, <2>4, <2>5 DEF PrivateInv, Private!SynchronizePrivateLayers
<1>4. CASE user = privateOwner
  <2>1. user = privateSession /\ privateSession' = privateSession
    BY <1>4 DEF PrivateInv
  <2>2. onMap' = [l \in Private!PrivateLayers |-> IF l \in layers THEN onMap[l] ELSE NoAccount]
    BY <1>4 DEF Private!SynchronizePrivateLayers
  <2>3. \/ reads' = Private!Voided
        \/ reads' = reads /\ ~attached
        \/ attached /\ reads' = Private!Voided \cup {Private!Started(layers)}
    BY <1>4 DEF Private!SynchronizePrivateLayers, Private!LoadPrivateLayers, PrivateInv,
           PrivateTypeInv
  <2>4. PrivateTypeInv'
    BY <1>1, <1>2, <2>2, <2>3 DEF PrivateInv, PrivateTypeInv, Private!SynchronizePrivateLayers,
           PrivateUsers
  <2>5. PrivateReadsAreHarmless'
    <3>1. SUFFICES ASSUME NEW r \in reads', r.current
                   PROVE  /\ attached' /\ r.layers \subseteq wanted'
                          /\ \A l \in r.layers :
                               r.token[l] \in {Private!Unread, privateSession', auth'}
      BY DEF PrivateReadsAreHarmless, PrivateHarmless
    <3>2. r = Private!Started(layers) /\ attached
      BY <1>1, <2>3, <3>1 DEF PrivateInv, PrivateReadsAreHarmless, PrivateHarmless
    <3> QED
      BY <1>2, <3>2 DEF Private!SynchronizePrivateLayers
  <2>6. PrivateDrawnIsKnown'
    BY <2>1, <2>2 DEF PrivateDrawnIsKnown, PrivateInv, Private!SynchronizePrivateLayers
  <2> QED
    BY <2>1, <2>4, <2>5, <2>6 DEF PrivateInv, Private!SynchronizePrivateLayers
<1> QED
  BY <1>3, <1>4

(* A load that begins while nothing else changes replaces the others. *)
LEMMA PrivateBegins ==
  ASSUME PrivateInv, attached', attached' = TRUE,
           reads' = Private!Voided \cup {Private!Started(wanted)},
         UNCHANGED <<auth, privateSession, zonesOn, privateOwner, wanted, onMap>>
  PROVE  PrivateInv'
<1>1. /\ Private!Voided \in SUBSET PrivateReadType
      /\ \A r \in Private!Voided : r.current = FALSE
  BY PrivateVoidedIsHarmless DEF PrivateInv, PrivateTypeInv
<1>2. /\ Private!Started(wanted) \in PrivateReadType
      /\ Private!Started(wanted).layers = wanted
      /\ \A l \in Private!PrivateLayers : Private!Started(wanted).token[l] = Private!Unread
  BY PrivateStartedIsRead DEF PrivateInv, PrivateTypeInv
<1>3. PrivateTypeInv'
  BY <1>1, <1>2 DEF PrivateInv, PrivateTypeInv
<1>4. PrivateReadsAreHarmless'
  <2>1. SUFFICES ASSUME NEW r \in reads', r.current
                 PROVE  /\ attached' /\ r.layers \subseteq wanted'
                        /\ \A l \in r.layers :
                             r.token[l] \in {Private!Unread, privateSession', auth'}
    BY DEF PrivateReadsAreHarmless, PrivateHarmless
  <2>2. r = Private!Started(wanted)
    BY <1>1, <2>1
  <2> QED
    BY <1>2, <2>2 DEF PrivateInv, PrivateTypeInv
<1> QED
  BY <1>3, <1>4 DEF PrivateInv, PrivateDrawnIsKnown

(* A token that is taken now is the one of the auth client. *)
LEMMA PrivateTakesToken ==
  ASSUME PrivateInv, NEW r \in reads, NEW q \in PrivateReadType, Private!Replace(r, q),
         q.layers = r.layers, q.current = r.current,
         \A l \in r.layers : q.token[l] = r.token[l] \/ q.token[l] = auth,
         UNCHANGED <<auth, privateSession, zonesOn, attached, privateOwner, wanted, onMap>>
  PROVE  PrivateInv'
<1>1. reads' = (reads \ {r}) \cup {q}
  BY DEF Private!Replace
<1>2. PrivateTypeInv'
  BY <1>1 DEF PrivateInv, PrivateTypeInv
<1>3. PrivateHarmless(r)
  BY DEF PrivateInv, PrivateReadsAreHarmless
<1>4. PrivateReadsAreHarmless'
  BY <1>1, <1>3 DEF PrivateInv, PrivateReadsAreHarmless, PrivateHarmless
<1> QED
  BY <1>2, <1>4 DEF PrivateInv, PrivateDrawnIsKnown

\* The map as it is opened.
LEMMA PrivateInitInv == Private!Init => PrivateInv
  BY DEF Private!Init, PrivateInv, PrivateTypeInv, PrivateReadsAreHarmless, PrivateDrawnIsKnown,
         Private!Cleared, PrivateUsers

\* Signing in and out, switching zones and assets, answers of either
\* account.
LEMMA PrivateStepInv == PrivateInv /\ [Private!Next]_(Private!privateVars) => PrivateInv'
<1> SUFFICES ASSUME PrivateInv, [Private!Next]_(Private!privateVars)
             PROVE  PrivateInv'
  OBVIOUS
<1> USE DEF Private!accountVars
<1>1. ASSUME NEW u \in PrivateUsers, Private!AuthChanges(u)
      PROVE  PrivateInv'
  <2>1. PrivateTypeInv'
    BY <1>1 DEF Private!AuthChanges, PrivateInv, PrivateTypeInv
  <2>2. PrivateReadsAreHarmless'
    BY <1>1 DEF Private!AuthChanges, PrivateInv, PrivateReadsAreHarmless, PrivateHarmless
  <2>3. PrivateDrawnIsKnown'
    BY <1>1 DEF Private!AuthChanges, PrivateInv, PrivateDrawnIsKnown
  <2> QED
    BY <1>1, <2>1, <2>2, <2>3 DEF Private!AuthChanges, PrivateInv
<1>2. CASE Private!SetSession
  <2>1. Private!LayersOf(auth, zonesOn) \in SUBSET Private!PrivateLayers
    BY PrivateLayersAreLayers DEF PrivateInv, PrivateTypeInv
  <2>2. auth \in PrivateUsers /\ auth' = auth /\ attached' = attached /\ privateSession' = auth
        /\ zonesOn' \in BOOLEAN
    BY <1>2 DEF Private!SetSession, PrivateInv, PrivateTypeInv
  <2> QED
    BY <1>2, <2>1, <2>2, PrivateSynchronises DEF Private!SetSession
<1>3. CASE Private!ToggleZones
  <2>1. /\ UNCHANGED <<auth, privateSession, attached>>
        /\ zonesOn' \in BOOLEAN
    BY <1>3 DEF Private!ToggleZones
  <2>2. CASE privateSession = NoAccount
    <3>1. UNCHANGED <<privateOwner, wanted, reads, onMap>>
      BY <1>3, <2>2 DEF Private!ToggleZones
    <3>2. PrivateTypeInv'
      BY <2>1, <3>1 DEF PrivateInv, PrivateTypeInv
    <3> QED
      BY <2>1, <3>1, <3>2 DEF PrivateInv, PrivateReadsAreHarmless, PrivateHarmless,
             PrivateDrawnIsKnown
  <2>3. CASE privateSession # NoAccount
    <3>1. Private!SynchronizePrivateLayers(privateSession,
                                           Private!LayersOf(privateSession, ~zonesOn))
      BY <1>3, <2>3 DEF Private!ToggleZones
    <3>2. Private!LayersOf(privateSession, ~zonesOn) \in SUBSET Private!PrivateLayers
      BY PrivateLayersAreLayers DEF PrivateInv, PrivateTypeInv
    <3>3. privateSession \in PrivateUsers
      BY DEF PrivateInv, PrivateTypeInv
    <3> QED
      BY <2>1, <3>1, <3>2, <3>3, PrivateSynchronises
  <2> QED
    BY <2>2, <2>3
<1>4. CASE Private!Attach
  <2>1. /\ UNCHANGED <<auth, privateSession, zonesOn, privateOwner, wanted, onMap>>
        /\ attached' = TRUE /\ ~attached
    BY <1>4 DEF Private!Attach
  <2>2. CASE wanted = {}
    <3>1. reads' = reads
      BY <1>4, <2>2 DEF Private!Attach
    <3>2. PrivateTypeInv'
      BY <2>1, <3>1 DEF PrivateInv, PrivateTypeInv
    <3>3. PrivateReadsAreHarmless'
      BY <2>1, <3>1 DEF PrivateInv, PrivateReadsAreHarmless, PrivateHarmless
    <3> QED
      BY <2>1, <3>2, <3>3 DEF PrivateInv, PrivateDrawnIsKnown
  <2>3. CASE wanted # {}
    BY <1>4, <2>1, <2>3, PrivateBegins DEF Private!Attach
  <2> QED
    BY <2>2, <2>3
<1>5. CASE Private!MoveEnd
  <2>1. reads' = Private!Voided \cup {Private!Started(wanted)}
    BY <1>5 DEF Private!MoveEnd, Private!LoadPrivateLayers
  <2>2. UNCHANGED <<auth, privateSession, zonesOn, privateOwner, wanted, onMap>> /\ attached'
    BY <1>5 DEF Private!MoveEnd
  <2>3. attached' = TRUE
    BY <1>5 DEF Private!MoveEnd, PrivateInv, PrivateTypeInv
  <2> QED
    BY <2>1, <2>2, <2>3, PrivateBegins
<1>6. CASE Private!Teardown
  <2>1. /\ Private!Voided \in SUBSET PrivateReadType
        /\ \A r \in Private!Voided : r.current = FALSE
    BY PrivateVoidedIsHarmless DEF PrivateInv, PrivateTypeInv
  <2>2. /\ reads' = Private!Voided /\ attached' = FALSE
        /\ onMap' = [l \in Private!PrivateLayers |-> NoAccount]
        /\ UNCHANGED <<auth, privateSession, zonesOn, privateOwner, wanted>>
    BY <1>6 DEF Private!Teardown, Private!Cleared
  <2>3. PrivateTypeInv'
    BY <2>1, <2>2 DEF PrivateInv, PrivateTypeInv, PrivateUsers
  <2> QED
    BY <2>1, <2>2, <2>3 DEF PrivateInv, PrivateReadsAreHarmless, PrivateHarmless,
           PrivateDrawnIsKnown
<1>7. ASSUME NEW r \in reads, NEW l \in r.layers,
               Private!ReadToken(r, l) \/ Private!RetryWithFreshToken(r, l)
      PROVE  PrivateInv'
  <2>1. PICK retried \in SUBSET Private!PrivateLayers :
          Private!Replace(r, [r EXCEPT !.token[l] = auth, !.retried = retried])
    BY <1>7 DEF Private!ReadToken, Private!RetryWithFreshToken, PrivateInv, PrivateTypeInv,
           PrivateReadType
  <2> DEFINE q == [r EXCEPT !.token[l] = auth, !.retried = retried]
  <2>2. /\ q \in PrivateReadType /\ q.layers = r.layers /\ q.current = r.current
        /\ \A m \in r.layers : q.token[m] = r.token[m] \/ q.token[m] = auth
    BY DEF PrivateInv, PrivateTypeInv, PrivateReadType
  <2>3. UNCHANGED <<auth, privateSession, zonesOn, attached, privateOwner, wanted, onMap>>
    BY <1>7 DEF Private!ReadToken, Private!RetryWithFreshToken
  <2> HIDE DEF q
  <2>4. Private!Replace(r, q)
    BY <2>1 DEF q
  <2> QED
    BY <2>2, <2>3, <2>4, PrivateTakesToken
<1>8. ASSUME NEW r \in reads, NEW answered \in SUBSET r.layers, Private!Answer(r, answered)
      PROVE  PrivateInv'
  <2>1. /\ reads' = reads \ {r}
        /\ UNCHANGED <<auth, privateSession, zonesOn, attached, privateOwner, wanted>>
    BY <1>8 DEF Private!Answer
  <2>2. \A l \in answered : r.token[l] # Private!Unread /\ r.token[l] \in PrivateUsers
    BY <1>8 DEF Private!Answer, PrivateInv, PrivateTypeInv, PrivateReadType
  <2>3. onMap' \in [Private!PrivateLayers -> PrivateUsers]
    BY <1>8, <2>2 DEF Private!Answer, PrivateInv, PrivateTypeInv
  <2>4. PrivateTypeInv'
    BY <2>1, <2>3 DEF PrivateInv, PrivateTypeInv
  <2>5. PrivateDrawnIsKnown'
    <3>1. CASE Private!StillWanted(r)
      <4>1. onMap' = [l \in Private!PrivateLayers |-> IF l \in answered THEN r.token[l]
                                                                        ELSE onMap[l]]
        BY <1>8, <3>1 DEF Private!Answer
      <4>2. \A l \in answered : r.token[l] \in {privateSession, auth} /\ l \in wanted
        BY <2>2, <3>1 DEF Private!StillWanted, PrivateInv, PrivateReadsAreHarmless,
               PrivateHarmless
      <4> QED
        BY <2>1, <4>1, <4>2 DEF PrivateInv, PrivateDrawnIsKnown
    <3>2. CASE ~Private!StillWanted(r)
      BY <1>8, <2>1, <3>2 DEF Private!Answer, PrivateInv, PrivateDrawnIsKnown
    <3> QED
      BY <3>1, <3>2
  <2> QED
    BY <2>1, <2>4, <2>5 DEF PrivateInv, PrivateReadsAreHarmless, PrivateHarmless
<1>9. CASE UNCHANGED Private!privateVars
  <2>1. PrivateTypeInv'
    BY <1>9 DEF Private!privateVars, PrivateInv, PrivateTypeInv
  <2> QED
    BY <1>9, <2>1 DEF Private!privateVars, PrivateInv, PrivateReadsAreHarmless, PrivateHarmless,
           PrivateDrawnIsKnown
<1> QED
  BY <1>1, <1>2, <1>3, <1>4, <1>5, <1>6, <1>7, <1>8, <1>9 DEF Private!Next, PrivateUsers

\* The type that the runs check.
LEMMA PrivateIsTyped == PrivateInv => Private!TypeOK
BY DEF PrivateInv, PrivateTypeInv, Private!TypeOK, PrivateReadType, PrivateUsers

\* What is drawn is of the account that React knows, or of the one it is
\* about to hear of.
LEMMA PrivateDrawsMine == PrivateInv => Private!PrivateIsMine
BY DEF PrivateInv, PrivateDrawnIsKnown, Private!PrivateIsMine

---------------------------------------------------------------------------
(* MapStyle: overlays that are chosen, on a style that may come late         *)

StyleDraws == {"absent", "hidden", "visible"}

(* Every style on its way was asked for by a press of its own, and so was    *)
(* every image but the first.                                                *)
StyleTypeInv ==
  /\ theme \in Style!Basemaps /\ style \in Style!Basemaps /\ incoming \in SUBSET Style!Basemaps
  /\ fetches \in Nat /\ listeners \in Nat /\ fetches + listeners <= events
  /\ darkCached \in BOOLEAN
  /\ chosen \in [Style!Overlays -> BOOLEAN] /\ frames \in [Style!Overlays -> BOOLEAN]
  /\ styleAsked \in [Style!Overlays -> 0..(events + 1)] /\ events \in 0..MaxEvents
  /\ overlay \in [Style!Overlays -> StyleDraws]
  /\ tabHidden \in BOOLEAN /\ timers \in SUBSET {"pulse", "aircraft", "images"}
  /\ phase \in {"loading", "loaded", "gone"}

StyleInv == StyleTypeInv /\ Style!DrawnIsChosen

\* What showing and re-applying an overlay leave: what is not chosen is not
\* made visible.
LEMMA StyleDrawTypes ==
  ASSUME NEW state \in StyleDraws, NEW on \in BOOLEAN
  PROVE  /\ Style!Shown(state, on) \in StyleDraws /\ (Style!Shown(state, on) = "visible" => on)
         /\ Style!Applied(state) \in StyleDraws
         /\ (Style!Applied(state) = "visible" => state = "visible")
BY DEF Style!Shown, Style!Applied, StyleDraws

\* A style that is mounted anew draws no overlay.
LEMMA StyleMountedType == Style!Mounted \in [Style!Overlays -> StyleDraws] /\
  \A o \in Style!Overlays : Style!Mounted[o] = "absent"
BY DEF Style!Mounted, StyleDraws

\* A sum that follows another one stays below the same bound, or one above
\* it.
LEMMA StyleSumFollows ==
  ASSUME NEW a \in Nat, NEW b \in Nat, NEW c \in Nat, NEW x \in Nat, NEW y \in Nat, a + b <= c
  PROVE  /\ x + y <= a + b => x + y <= c
         /\ x + y <= a + b + 1 => x + y <= c + 1
OBVIOUS

\* The map as it is opened.
LEMMA StyleInitInv == ASSUME MaxEvents \in Nat PROVE Style!Init => StyleInv
<1> SUFFICES ASSUME Style!Init PROVE StyleInv
  OBVIOUS
<1>1. /\ events = 0 /\ events \in 0..MaxEvents /\ fetches = 0 /\ listeners = 0
      /\ styleAsked \in [Style!Overlays -> 0..(events + 1)]
  BY DEF Style!Init
<1>2. /\ chosen \in [Style!Overlays -> BOOLEAN] /\ frames \in [Style!Overlays -> BOOLEAN]
      /\ darkCached \in BOOLEAN /\ tabHidden \in BOOLEAN
  BY Zenon DEF Style!Init
<1>3. /\ overlay \in [Style!Overlays -> StyleDraws]
      /\ \A o \in Style!Overlays : overlay[o] = "absent"
  BY DEF Style!Init, StyleDraws
<1>4. StyleTypeInv
  BY <1>1, <1>2, <1>3 DEF Style!Init, StyleTypeInv, Style!Basemaps
<1>5. QED
  BY <1>3, <1>4 DEF StyleInv, Style!DrawnIsChosen

\* Toggles, themes, styles that arrive late, hidden tabs and leaving.
LEMMA StyleStepInv ==
  ASSUME MaxEvents \in Nat
  PROVE  StyleInv /\ [Style!Next]_(Style!styleVars) => StyleInv'
<1> SUFFICES ASSUME StyleInv, [Style!Next]_(Style!styleVars) PROVE StyleInv'
  OBVIOUS
<1>1. StyleTypeInv /\ Style!DrawnIsChosen
  BY DEF StyleInv
<1>2. /\ overlay \in [Style!Overlays -> StyleDraws] /\ chosen \in [Style!Overlays -> BOOLEAN]
      /\ frames \in [Style!Overlays -> BOOLEAN] /\ events \in 0..MaxEvents /\ events \in Nat
      /\ fetches \in Nat /\ listeners \in Nat /\ fetches + listeners <= events
      /\ styleAsked \in [Style!Overlays -> 0..(events + 1)]
      /\ \A o \in Style!Overlays : overlay[o] \in StyleDraws /\ chosen[o] \in BOOLEAN
  BY <1>1 DEF StyleTypeInv
<1>3. ASSUME Style!Happens PROVE events' = events + 1 /\ events' \in 0..MaxEvents
  BY <1>2, <1>3 DEF Style!Happens
(* What changes only the overlays and the choice, and shows no more than is chosen. *)
<1>4. ASSUME UNCHANGED <<Style!basemap, Style!images, events>>,
               overlay' \in [Style!Overlays -> StyleDraws],
             chosen' \in [Style!Overlays -> BOOLEAN], tabHidden' \in BOOLEAN,
             timers' \in SUBSET {"pulse", "aircraft", "images"},
               phase' \in {"loading", "loaded", "gone"}
      PROVE  StyleTypeInv'
  BY <1>1, <1>4 DEF StyleTypeInv, Style!basemap, Style!images
<1>5. ASSUME NEW o \in Style!Overlays, Style!Toggle(o) PROVE StyleInv'
  <2> DEFINE on == ~chosen[o]
  <2>1. /\ chosen' = [chosen EXCEPT ![o] = on]
        /\ UNCHANGED <<Style!basemap, Style!images, tabHidden, timers, phase, events>>
    BY <1>5 DEF Style!Toggle
  <2>2. on \in BOOLEAN
    OBVIOUS
  <2>3. overlay' = [overlay EXCEPT ![o] = Style!Shown(overlay[o], chosen'[o])]
    BY <1>5 DEF Style!Toggle
  <2> HIDE DEF on
  <2>4. chosen' \in [Style!Overlays -> BOOLEAN] /\ chosen'[o] \in BOOLEAN
        /\ \A p \in Style!Overlays \ {o} : chosen'[p] = chosen[p]
    BY <1>2, <2>1, <2>2
  <2>5. /\ Style!Shown(overlay[o], chosen'[o]) \in StyleDraws
        /\ (Style!Shown(overlay[o], chosen'[o]) = "visible" => chosen'[o])
    BY <1>2, <2>4, StyleDrawTypes, Zenon
  <2>6. overlay' \in [Style!Overlays -> StyleDraws]
    BY <1>2, <2>3, <2>5
  <2>7. Style!DrawnIsChosen'
    <3> SUFFICES ASSUME NEW p \in Style!Overlays, overlay'[p] = "visible" PROVE chosen'[p]
      BY DEF Style!DrawnIsChosen
    <3>1. CASE p = o
      BY <1>2, <2>3, <2>5, <3>1
    <3>2. CASE p # o
      <4>1. overlay'[p] = overlay[p] /\ chosen'[p] = chosen[p]
        BY <1>2, <2>3, <2>4, <3>2
      <4>2. QED
        BY <1>1, <4>1 DEF Style!DrawnIsChosen
    <3>3. QED
      BY <3>1, <3>2
  <2>8. QED
    BY <1>1, <1>4, <2>1, <2>4, <2>6, <2>7 DEF StyleInv, StyleTypeInv
<1>6. ASSUME NEW os \in SUBSET Style!Overlays, NEW on \in BOOLEAN, Style!View(os, on)
      PROVE StyleInv'
  <2>1. /\ chosen' = [o \in Style!Overlays |-> IF o \in os THEN on ELSE chosen[o]]
        /\ overlay' = [o \in Style!Overlays |-> IF o \in os THEN Style!Shown(overlay[o], on)
                                                            ELSE overlay[o]]
        /\ UNCHANGED <<Style!basemap, Style!images, tabHidden, timers, phase, events>>
    BY <1>6 DEF Style!View
  <2>2. chosen' \in [Style!Overlays -> BOOLEAN]
    BY <1>2, <2>1, Zenon
  <2>3. \A o \in Style!Overlays : Style!Shown(overlay[o], on) \in StyleDraws /\
          (Style!Shown(overlay[o], on) = "visible" => on)
    BY <1>2, StyleDrawTypes
  <2>4. overlay' \in [Style!Overlays -> StyleDraws]
    BY <1>2, <2>1, <2>3
  <2>5. Style!DrawnIsChosen'
    <3> SUFFICES ASSUME NEW p \in Style!Overlays, overlay'[p] = "visible" PROVE chosen'[p]
      BY DEF Style!DrawnIsChosen
    <3>1. CASE p \in os
      BY <2>1, <2>3, <3>1
    <3>2. CASE p \notin os
      BY <1>1, <2>1, <3>2 DEF Style!DrawnIsChosen
    <3>3. QED
      BY <3>1, <3>2
  <2>6. QED
    BY <1>1, <1>4, <2>1, <2>2, <2>4, <2>5 DEF StyleInv, StyleTypeInv
<1>7. CASE Style!View3D \/ Style!SwipeCompare
  <2>1. /\ {"satellite", "terrain"} \in SUBSET Style!Overlays
        /\ {"satellite"} \in SUBSET Style!Overlays
    BY DEF Style!Overlays
  <2>2. TRUE \in BOOLEAN /\ (~(chosen["satellite"] /\ chosen["terrain"])) \in BOOLEAN
    BY Zenon
  <2>3. CASE Style!View3D
    BY <1>6, <2>1, <2>2, <2>3 DEF Style!View3D
  <2>4. CASE Style!SwipeCompare
    BY <1>6, <2>1, <2>2, <2>4 DEF Style!SwipeCompare
  <2>5. QED
    BY <1>7, <2>3, <2>4
<1>8. ASSUME NEW shown \in [Style!Overlays -> StyleDraws], overlay' = shown, chosen' = chosen,
             \A o \in Style!Overlays : shown[o] = "visible" =>
               overlay[o] = "visible" \/ chosen[o]
      PROVE  Style!DrawnIsChosen'
  BY <1>1, <1>8 DEF Style!DrawnIsChosen
<1>9. CASE Style!MarkReady
  <2>1. /\ styleAsked' = [o \in Style!Overlays |-> IF o \in Style!Imaged THEN 1 ELSE 0]
        /\ overlay' = [overlay EXCEPT !["terrain"] = "hidden"]
        /\ timers' = timers \cup {"aircraft", "images"} /\ phase' = "loaded"
        /\ UNCHANGED <<Style!basemap, chosen, frames, tabHidden, events>>
    BY <1>9 DEF Style!MarkReady
  <2>2. styleAsked' \in [Style!Overlays -> 0..(events + 1)]
    BY <1>2, <2>1
  <2>3. overlay' \in [Style!Overlays -> StyleDraws] /\
          \A o \in Style!Overlays : overlay'[o] = "visible" => overlay[o] = "visible"
    BY <1>2, <2>1 DEF StyleDraws
  <2>4. StyleTypeInv'
    BY <1>1, <2>1, <2>2, <2>3 DEF StyleTypeInv, Style!basemap
  <2>5. Style!DrawnIsChosen'
    BY <1>8, <2>1, <2>3
  <2>6. QED
    BY <2>4, <2>5 DEF StyleInv
<1>10. CASE Style!EventsDrawn
  <2>1. /\ overlay' = [overlay EXCEPT !["heatmap"] = "hidden"]
        /\ UNCHANGED <<Style!basemap, chosen, Style!images, tabHidden, timers, phase, events>>
    BY <1>10 DEF Style!EventsDrawn
  <2>2. overlay' \in [Style!Overlays -> StyleDraws] /\
          \A o \in Style!Overlays : overlay'[o] = "visible" => overlay[o] = "visible"
    BY <1>2, <2>1 DEF StyleDraws
  <2>3. Style!DrawnIsChosen'
    BY <1>8, <2>1, <2>2
  <2>4. StyleTypeInv'
    BY <1>1, <2>1, <2>2 DEF StyleTypeInv, Style!basemap, Style!images
  <2>5. QED
    BY <2>3, <2>4 DEF StyleInv
<1>11. CASE Style!AskAgain
  <2>1. /\ events' = events + 1 /\ events' \in 0..MaxEvents
        /\ styleAsked' = [styleAsked EXCEPT !["radar"] = @ + 1]
        /\ UNCHANGED <<Style!basemap, chosen, frames, overlay, tabHidden, timers, phase>>
    BY <1>3, <1>11 DEF Style!AskAgain
  <2>2. styleAsked' \in [Style!Overlays -> 0..(events' + 1)]
    <3>1. \A o \in Style!Overlays : styleAsked[o] \in 0..(events + 1)
      BY <1>2
    <3>2. \A o \in Style!Overlays : styleAsked'[o] = styleAsked[o] \/
            styleAsked'[o] = styleAsked[o] + 1
      BY <1>2, <2>1
    <3>3. \A o \in Style!Overlays : styleAsked'[o] \in 0..(events' + 1)
      BY <1>2, <2>1, <3>1, <3>2
    <3>4. styleAsked' = [o \in Style!Overlays |-> styleAsked'[o]]
      BY <1>2, <2>1
    <3>5. QED
      BY <3>3, <3>4
  <2>3. StyleTypeInv'
    BY <1>1, <1>2, <2>1, <2>2 DEF StyleTypeInv, Style!basemap
  <2>4. Style!DrawnIsChosen'
    BY <1>1, <2>1 DEF Style!DrawnIsChosen
  <2>5. QED
    BY <2>3, <2>4 DEF StyleInv
<1>12. ASSUME NEW o \in Style!Imaged, NEW found \in BOOLEAN, Style!FrameAnswer(o, found)
       PROVE StyleInv'
  <2> DEFINE state == IF found \/ o = "radar" THEN Style!Applied(overlay[o]) ELSE overlay[o]
  <2>1. /\ styleAsked[o] > 0 /\ styleAsked' = [styleAsked EXCEPT ![o] = @ - 1]
        /\ UNCHANGED <<Style!basemap, chosen, tabHidden, timers, phase, events>>
    BY <1>12 DEF Style!FrameAnswer
  <2>2. \/ frames' = frames /\ overlay' = overlay
        \/ frames' = [frames EXCEPT ![o] = found] /\
             overlay' = [overlay EXCEPT ![o] = Style!Shown(state, chosen[o])]
    BY <1>12 DEF Style!FrameAnswer, Style!Choice
  <2>3. o \in Style!Overlays
    BY DEF Style!Overlays, Style!Imaged
  <2>4. state \in StyleDraws
    BY <1>2, <2>3, StyleDrawTypes
  <2> HIDE DEF state
  <2>5. /\ Style!Shown(state, chosen[o]) \in StyleDraws
        /\ (Style!Shown(state, chosen[o]) = "visible" => chosen[o])
    BY <1>2, <2>3, <2>4, StyleDrawTypes, Zenon
  <2>6. styleAsked' \in [Style!Overlays -> 0..(events + 1)]
    BY <1>2, <2>1, <2>3
  <2>7. frames' \in [Style!Overlays -> BOOLEAN]
    BY <1>2, <2>2, Zenon
  <2>8. overlay' \in [Style!Overlays -> StyleDraws]
        /\ \A p \in Style!Overlays : overlay'[p] = "visible" =>
             overlay[p] = "visible" \/ chosen[p]
    BY <1>2, <2>2, <2>3, <2>5
  <2>9. StyleTypeInv'
    BY <1>1, <2>1, <2>6, <2>7, <2>8 DEF StyleTypeInv, Style!basemap
  <2>10. Style!DrawnIsChosen'
    BY <1>8, <2>1, <2>8
  <2>11. QED
    BY <2>9, <2>10 DEF StyleInv
(* The basemap: what is mounted anew draws nothing. *)
<1>13. ASSUME overlay' \in {overlay, Style!Mounted}, chosen' = chosen
       PROVE  Style!DrawnIsChosen' /\ overlay' \in [Style!Overlays -> StyleDraws]
  BY <1>1, <1>2, <1>13, StyleMountedType DEF Style!DrawnIsChosen
<1>14. ASSUME NEW next \in Style!Basemaps, Style!ApplyTheme(next) PROVE StyleInv'
  <2>1. /\ events' = events + 1 /\ events' \in 0..MaxEvents /\ theme' = next
        /\ UNCHANGED <<darkCached, chosen, Style!images, tabHidden, timers, phase>>
    BY <1>3, <1>14 DEF Style!ApplyTheme
  <2>2. /\ fetches' \in Nat /\ listeners' \in Nat
        /\ fetches' + listeners' <= fetches + listeners + 1
        /\ style' \in {style, "dark"} /\ overlay' \in {overlay, Style!Mounted}
        /\ incoming' \in {incoming, incoming \cup {"light"}}
    BY <1>2, <1>14 DEF Style!ApplyTheme
  <2>3. styleAsked' \in [Style!Overlays -> 0..(events' + 1)]
    <3>1. 0..(events + 1) \subseteq 0..(events' + 1)
      BY <1>2, <2>1
    <3>2. QED
      BY <1>2, <2>1, <3>1 DEF Style!images
  <2>4. Style!DrawnIsChosen' /\ overlay' \in [Style!Overlays -> StyleDraws]
    BY <1>13, <2>1, <2>2
  <2>5. /\ frames' = frames /\ frames' \in [Style!Overlays -> BOOLEAN]
        /\ chosen' \in [Style!Overlays -> BOOLEAN]
    BY <1>2, <2>1 DEF Style!images
  <2>6. /\ theme' \in Style!Basemaps /\ style' \in Style!Basemaps
        /\ incoming' \in SUBSET Style!Basemaps
    BY <1>1, <2>1, <2>2 DEF StyleTypeInv, Style!Basemaps
  <2>7. fetches' + listeners' <= events'
    <3>1. events' = events + 1
      BY <2>1
    <3>2. /\ fetches' \in Nat /\ listeners' \in Nat
          /\ fetches' + listeners' <= fetches + listeners + 1
      BY <2>2, Zenon
    <3>3. /\ fetches + listeners <= events /\ events \in Nat /\ fetches \in Nat
          /\ listeners \in Nat
      BY <1>2
    <3>4. fetches' + listeners' <= events + 1
      BY <3>2, <3>3, StyleSumFollows, Zenon
    <3>5. QED
      BY <3>1, <3>4, Zenon
  <2>8. StyleTypeInv'
    BY <1>1, <2>1, <2>2, <2>3, <2>4, <2>5, <2>6, <2>7 DEF StyleTypeInv
  <2>9. QED
    BY <2>4, <2>8 DEF StyleInv
<1>15. ASSUME NEW ok \in BOOLEAN, Style!DarkStyle(ok) PROVE StyleInv'
  <2>1. UNCHANGED <<theme, chosen, Style!images, tabHidden, timers, phase, events>>
    BY <1>15 DEF Style!DarkStyle
  <2>2. darkCached' \in BOOLEAN
    BY <1>1, <1>15, Zenon DEF Style!DarkStyle, StyleTypeInv
  <2>3. /\ fetches' \in Nat /\ listeners' \in Nat
        /\ fetches' + listeners' <= fetches + listeners
        /\ style' \in {style, "dark"} /\ overlay' \in {overlay, Style!Mounted}
        /\ incoming' \in {incoming, incoming \cup {"dark"}}
    BY <1>2, <1>15 DEF Style!DarkStyle
  <2>4. Style!DrawnIsChosen' /\ overlay' \in [Style!Overlays -> StyleDraws]
    BY <1>13, <2>1, <2>3
  <2>5. /\ frames' \in [Style!Overlays -> BOOLEAN] /\ chosen' \in [Style!Overlays -> BOOLEAN]
        /\ styleAsked' \in [Style!Overlays -> 0..(events' + 1)]
    BY <1>2, <2>1 DEF Style!images
  <2>6. /\ theme' \in Style!Basemaps /\ style' \in Style!Basemaps
        /\ incoming' \in SUBSET Style!Basemaps
    BY <1>1, <2>1, <2>3 DEF StyleTypeInv, Style!Basemaps
  <2>7. fetches' + listeners' <= events' /\ events' \in 0..MaxEvents
    <3>1. events' = events
      BY <2>1
    <3>2. fetches' \in Nat /\ listeners' \in Nat /\ fetches' + listeners' <= fetches + listeners
      BY <2>3, Zenon
    <3>3. /\ fetches + listeners <= events /\ fetches \in Nat /\ listeners \in Nat
          /\ events \in Nat /\ events \in 0..MaxEvents
      BY <1>2
    <3>4. QED
      BY <3>1, <3>2, <3>3, StyleSumFollows, Zenon
  <2>8. tabHidden' = tabHidden /\ timers' = timers /\ phase' = phase
    BY <2>1
  <2>9. StyleTypeInv'
    BY <1>1, <2>2, <2>3, <2>4, <2>5, <2>6, <2>7, <2>8 DEF StyleTypeInv
  <2>10. QED
    BY <2>4, <2>9 DEF StyleInv
<1>16. ASSUME NEW s \in Style!Basemaps, Style!StyleArrives(s) PROVE StyleInv'
  <2>1. /\ incoming' = incoming \ {s} /\ style' = s /\ overlay' = Style!Mounted
        /\ UNCHANGED <<theme, fetches, darkCached, listeners>>
        /\ UNCHANGED <<chosen, Style!images, tabHidden, timers, phase, events>>
    BY <1>16 DEF Style!StyleArrives
  <2>2. Style!DrawnIsChosen' /\ overlay' \in [Style!Overlays -> StyleDraws]
    BY <1>13, <2>1
  <2>3. StyleTypeInv'
    BY <1>1, <2>1, <2>2 DEF StyleTypeInv, Style!images
  <2>4. QED
    BY <2>2, <2>3 DEF StyleInv
<1>17. ASSUME NEW isLoaded \in BOOLEAN, Style!StyleData(isLoaded) PROVE StyleInv'
  <2>1. /\ listeners' = 0 /\ overlay' = [o \in Style!Overlays |-> Style!Rehydrated(o, isLoaded)]
        /\ UNCHANGED <<theme, style, fetches, darkCached, incoming>>
        /\ UNCHANGED <<chosen, Style!images, tabHidden, timers, phase, events>>
    BY <1>17 DEF Style!StyleData
  <2>2. ASSUME NEW o \in Style!Overlays
        PROVE  /\ Style!Rehydrated(o, isLoaded) \in StyleDraws
               /\ Style!Rehydrated(o, isLoaded) = "visible" =>
                    overlay[o] = "visible" \/ chosen[o]
    <3>1. /\ Style!Applied(overlay[o]) \in StyleDraws
          /\ (Style!Applied(overlay[o]) = "visible" => overlay[o] = "visible")
          /\ chosen[o] \in BOOLEAN /\ overlay[o] \in StyleDraws
      BY <1>2, StyleDrawTypes
    <3>2. /\ Style!Shown(Style!Applied(overlay[o]), chosen[o]) \in StyleDraws
          /\ Style!Shown(Style!Applied(overlay[o]), chosen[o]) = "visible" => chosen[o]
      BY <3>1, StyleDrawTypes, Zenon
    <3>3. Style!Rehydrated(o, isLoaded) \in
            {Style!Shown(Style!Applied(overlay[o]), chosen[o]), Style!Applied(overlay[o]),
             overlay[o]}
      BY DEF Style!Rehydrated, Style!Overlays
    <3>4. QED
      BY <3>1, <3>2, <3>3
  <2>3. overlay' \in [Style!Overlays -> StyleDraws]
        /\ \A o \in Style!Overlays : overlay'[o] = "visible" =>
             overlay[o] = "visible" \/ chosen[o]
    BY <2>1, <2>2
  <2>4. Style!DrawnIsChosen'
    BY <1>8, <2>1, <2>3
  <2>5. StyleTypeInv'
    BY <1>1, <1>2, <2>1, <2>3 DEF StyleTypeInv, Style!images
  <2>6. QED
    BY <2>4, <2>5 DEF StyleInv
<1>18. CASE Style!Hide
  <2>1. /\ events' = events + 1 /\ events' \in 0..MaxEvents
        /\ UNCHANGED <<Style!basemap, chosen, Style!images, phase>>
    BY <1>3, <1>18 DEF Style!Hide
  <2>2. tabHidden' \in BOOLEAN
    BY <1>18, Zenon DEF Style!Hide
  <2>3. \/ overlay' = overlay /\ timers' = timers
        \/ /\ overlay' = [overlay EXCEPT !["terrain"] = IF @ = "visible" THEN "hidden" ELSE @]
           /\ timers' = timers \ {"aircraft", "pulse"}
    BY <1>18 DEF Style!Hide
  <2>4. overlay' \in [Style!Overlays -> StyleDraws] /\
          \A o \in Style!Overlays : overlay'[o] = "visible" => overlay[o] = "visible"
    BY <1>2, <2>3 DEF StyleDraws
  <2>5. Style!DrawnIsChosen'
    BY <1>8, <2>1, <2>4
  <2>6. styleAsked' \in [Style!Overlays -> 0..(events' + 1)]
    <3>1. 0..(events + 1) \subseteq 0..(events' + 1)
      BY <1>2, <2>1
    <3>2. QED
      BY <1>2, <2>1, <3>1 DEF Style!images
  <2>7. /\ frames' \in [Style!Overlays -> BOOLEAN] /\ chosen' \in [Style!Overlays -> BOOLEAN]
        /\ phase' = phase
    BY <1>2, <2>1 DEF Style!images
  <2>8. /\ theme' \in Style!Basemaps /\ style' \in Style!Basemaps
        /\ incoming' \in SUBSET Style!Basemaps /\ darkCached' = darkCached
    BY <1>1, <2>1 DEF StyleTypeInv, Style!basemap
  <2>9. fetches' \in Nat /\ listeners' \in Nat /\ fetches' + listeners' <= events'
    <3>1. fetches' = fetches /\ listeners' = listeners
      BY <2>1 DEF Style!basemap
    <3>2. QED
      BY <1>2, <2>1, <3>1
  <2>10. timers' \in SUBSET {"pulse", "aircraft", "images"}
    BY <1>1, <2>3 DEF StyleTypeInv
  <2>11. StyleTypeInv'
    BY <1>1, <2>1, <2>2, <2>4, <2>6, <2>7, <2>8, <2>9, <2>10 DEF StyleTypeInv
  <2>12. QED
    BY <2>5, <2>11 DEF StyleInv
<1>19. CASE Style!Show
  <2>1. UNCHANGED <<Style!basemap, chosen, Style!images, phase, events>>
    BY <1>19 DEF Style!Show
  <2>2. tabHidden' \in BOOLEAN
    BY <1>19, Zenon DEF Style!Show
  <2> DEFINE terrain == Style!Shown(overlay["terrain"], chosen["terrain"])
             radar == IF chosen["radar"] THEN Style!Shown(overlay["radar"], TRUE)
                                         ELSE overlay["radar"]
  <2>3. \/ overlay' = overlay /\ timers' = timers
        \/ /\ overlay' = [overlay EXCEPT !["terrain"] = terrain, !["radar"] = radar]
           /\ timers' = timers \cup {"aircraft", "pulse"}
    BY <1>19 DEF Style!Show
  <2>4. "terrain" \in Style!Overlays /\ "radar" \in Style!Overlays
    BY DEF Style!Overlays
  <2>5. terrain \in StyleDraws /\ (terrain = "visible" => chosen["terrain"])
    BY <1>2, <2>4, StyleDrawTypes, Zenon
  <2>6. /\ radar \in StyleDraws
        /\ (radar = "visible" => overlay["radar"] = "visible" \/ chosen["radar"])
    <3>1. Style!Shown(overlay["radar"], TRUE) \in StyleDraws
      BY <1>2, <2>4, StyleDrawTypes
    <3>2. QED
      BY <1>2, <2>4, <3>1
  <2> HIDE DEF terrain, radar
  <2>7. overlay' \in [Style!Overlays -> StyleDraws]
        /\ \A o \in Style!Overlays : overlay'[o] = "visible" =>
             overlay[o] = "visible" \/ chosen[o]
    BY <1>2, <2>3, <2>4, <2>5, <2>6
  <2>8. timers' \in SUBSET {"pulse", "aircraft", "images"}
    BY <1>1, <2>3 DEF StyleTypeInv
  <2>9. Style!DrawnIsChosen'
    BY <1>8, <2>1, <2>7
  <2>10. QED
    BY <1>1, <1>2, <1>4, <2>1, <2>2, <2>7, <2>8, <2>9 DEF StyleInv, StyleTypeInv
<1>20. CASE Style!Teardown
  <2>1. /\ phase' = "gone" /\ timers' = {} /\ overlay' = Style!Mounted
        /\ UNCHANGED <<Style!basemap, chosen, Style!images, tabHidden, events>>
    BY <1>20 DEF Style!Teardown
  <2>2. Style!DrawnIsChosen' /\ overlay' \in [Style!Overlays -> StyleDraws]
    BY <1>13, <2>1
  <2>3. StyleTypeInv'
    BY <1>1, <2>1, <2>2 DEF StyleTypeInv, Style!basemap, Style!images
  <2>4. QED
    BY <2>2, <2>3 DEF StyleInv
<1>21. CASE UNCHANGED Style!styleVars
  BY <1>1, <1>21 DEF Style!styleVars, Style!basemap, Style!images, StyleInv, StyleTypeInv,
         Style!DrawnIsChosen
<1>22. QED
  BY <1>5, <1>7, <1>9, <1>10, <1>11, <1>12, <1>14, <1>15, <1>16, <1>17, <1>18, <1>19, <1>20,
     <1>21 DEF Style!Next

\* The type that the runs check.
LEMMA StyleIsTyped == ASSUME MaxEvents \in Nat PROVE StyleInv => Style!TypeOK
<1> SUFFICES ASSUME StyleInv PROVE Style!TypeOK
  OBVIOUS
<1>1. StyleTypeInv
  BY DEF StyleInv
<1>2. fetches \in 0..MaxEvents /\ listeners \in 0..MaxEvents
  BY <1>1 DEF StyleTypeInv
<1>3. styleAsked \in [Style!Overlays -> 0..(MaxEvents + 1)]
  <2>1. events \in 0..MaxEvents
    BY <1>1 DEF StyleTypeInv
  <2>2. 0..(events + 1) \subseteq 0..(MaxEvents + 1)
    BY <2>1
  <2>3. QED
    BY <1>1, <2>2 DEF StyleTypeInv
<1>4. QED
  BY <1>1, <1>2, <1>3 DEF StyleTypeInv, Style!TypeOK, StyleDraws

---------------------------------------------------------------------------
(* MapDetail: the panel tells of what is selected                            *)

DetailImpacts == [status : {"idle", "loading", "ready", "unavailable"},
                  of : {Detail!NoPlace} \cup {f.place : f \in Places},
                  score : {"none"} \cup {f.id : f \in Places},
                  phase : {"fetching", "bodies", "scoring", "done"}, some : BOOLEAN,
                  place : {Detail!NoPlace} \cup {f.place : f \in Places},
                  event : {"none"} \cup {f.id : f \in Places}]
DetailPlayers == [status : {"idle", "loading", "ready", "error"},
                  source : {Detail!NoUrl} \cup {f.url : f \in Places}, pending : BOOLEAN]

DetailTypeInv ==
  /\ detailEnabled \in SUBSET Detail!Layers
  /\ detailSelected \in Places \cup {NoFeature} /\ impact \in DetailImpacts
  /\ player \in DetailPlayers

(* A layer holds features of its own. *)
DetailHolds(kept) ==
  /\ kept \in [Detail!Layers -> SUBSET Places]
  /\ \A l \in Detail!Layers : \A f \in kept[l] : f.layer = l

(* A load of the estimate is for the place of the selected event. *)
DetailImpactFits(i, f) ==
  /\ Detail!PlaceOf(f) # Detail!NoPlace => i.place = Detail!PlaceOf(f)
  /\ i.phase = "done" /\ i.status = "ready" => i.of = Detail!PlaceOf(f)
  /\ i.phase = "done" => i.status # "loading"

(* The stream that a player has captured is the selected one, or none: then  *)
(* it is neither loading nor ready.                                          *)
DetailPlayerFits(p, f) ==
  /\ p.source \in {Detail!NoUrl, Detail!UrlOf(f)}
  /\ p.status = "loading" \/ p.status = "ready" => p.source = Detail!UrlOf(f)

DetailInv ==
  /\ DetailTypeInv /\ DetailHolds(collections)
  /\ DetailImpactFits(impact, detailSelected) /\ DetailPlayerFits(player, detailSelected)
  /\ Detail!SelectionIsHeld

\* The place and the camera of what is selected.
LEMMA DetailPlaceTypes ==
  ASSUME NEW f \in Places \cup {NoFeature}
  PROVE  /\ Detail!PlaceOf(f) \in {Detail!NoPlace} \cup {g.place : g \in Places}
         /\ Detail!UrlOf(f) \in {Detail!NoUrl} \cup {g.url : g \in Places}
BY DEF Detail!PlaceOf, Detail!UrlOf

\* No panel and no player.
LEMMA DetailIdleTypes ==
  Detail!Idle \in DetailImpacts /\ Detail!NoPlayer \in DetailPlayers
    /\ Detail!Refused \in DetailPlayers
BY DEF Detail!Idle, Detail!NoPlayer, Detail!Refused, DetailImpacts, DetailPlayers

(* The panel that a selection leaves: the one there was for the same place,  *)
(* none, or one that is being fetched for the new one.                       *)
LEMMA DetailImpactForFits ==
  ASSUME DetailInv, NEW f \in Places \cup {NoFeature}
  PROVE  /\ Detail!ImpactFor(f) \in DetailImpacts
         /\ DetailImpactFits(Detail!ImpactFor(f), f)
<1>1. /\ impact \in DetailImpacts /\ Detail!Idle \in DetailImpacts
      /\ DetailImpactFits(impact, detailSelected)
  BY DetailIdleTypes DEF DetailInv, DetailTypeInv
<1> DEFINE before == IF Detail!PlaceOf(detailSelected) = Detail!NoPlace
                     THEN [Detail!Idle EXCEPT !.status = "loading"] ELSE Detail!Aborted
           started == [before EXCEPT !.phase = "fetching", !.place = Detail!PlaceOf(f),
                                     !.event = f.id]
<1>2. CASE Detail!SamePlace(f)
  <2>1. Detail!ImpactFor(f) = impact /\ Detail!PlaceOf(f) = Detail!PlaceOf(detailSelected)
    BY <1>2 DEF Detail!ImpactFor, Detail!SamePlace
  <2> QED
    BY <1>1, <2>1 DEF DetailImpactFits
<1>3. CASE ~Detail!SamePlace(f) /\ Detail!PlaceOf(f) = Detail!NoPlace
  <2>1. Detail!ImpactFor(f) = Detail!Idle
    BY <1>3 DEF Detail!ImpactFor
  <2>2. Detail!Idle.status = "idle"
    BY DEF Detail!Idle
  <2> QED
    BY <1>1, <1>3, <2>1, <2>2 DEF DetailImpactFits
<1>4. CASE ~Detail!SamePlace(f) /\ Detail!PlaceOf(f) # Detail!NoPlace
  <2>1. Detail!Aborted \in DetailImpacts
    <3>1. impact.place \in {Detail!NoPlace} \cup {g.place : g \in Places}
      BY <1>1 DEF DetailImpacts
    <3> QED
      BY <1>1, <3>1 DEF Detail!Aborted, DetailImpacts
  <2>2. before \in DetailImpacts
    BY <1>1, <2>1 DEF DetailImpacts
  <2>3. Detail!ImpactFor(f) = started
    BY <1>4 DEF Detail!ImpactFor
  <2>4. f \in Places
    BY <1>4 DEF Detail!PlaceOf
  <2> HIDE DEF before
  <2>5. started \in DetailImpacts /\ started.phase = "fetching" /\ started.place = Detail!PlaceOf(f)
    BY <2>2, <2>4, DetailPlaceTypes DEF DetailImpacts
  <2> HIDE DEF started
  <2> QED
    BY <2>3, <2>5 DEF DetailImpactFits
<1> QED
  BY <1>2, <1>3, <1>4

\* A stream that is opened is loading, refused, or reported as an error.
LEMMA DetailOpenedFits ==
  ASSUME NEW f \in Places \cup {NoFeature}, NEW p \in Detail!Opened(Detail!UrlOf(f))
  PROVE  /\ p \in DetailPlayers /\ DetailPlayerFits(p, f)
         /\ [p EXCEPT !.status = "error"] \in DetailPlayers
         /\ DetailPlayerFits([p EXCEPT !.status = "error"], f)
<1> DEFINE url == Detail!UrlOf(f)
<1>1. url \in {Detail!NoUrl} \cup {g.url : g \in Places}
  BY DetailPlaceTypes
<1>2. PICK s \in {"loading", "error"}, u \in {Detail!NoUrl, url}, native \in BOOLEAN :
        p = [status |-> s, source |-> u, pending |-> native] /\ (s = "loading" => u = url)
  <2>1. Detail!Refused = [status |-> "error", source |-> Detail!NoUrl, pending |-> FALSE]
    BY DEF Detail!Refused, Detail!NoPlayer
  <2>2. \/ p = Detail!Refused
        \/ \E native \in BOOLEAN : p = [status |-> "loading", source |-> url, pending |-> native]
    BY DEF Detail!Opened
  <2> QED
    BY <2>1, <2>2
<1>3. p \in DetailPlayers /\ [p EXCEPT !.status = "error"] \in DetailPlayers
  BY <1>1, <1>2 DEF DetailPlayers
<1>4. DetailPlayerFits(p, f)
  BY <1>2 DEF DetailPlayerFits
<1>5. [p EXCEPT !.status = "error"] = [status |-> "error", source |-> p.source, pending |-> p.pending]
  BY <1>2
<1> QED
  BY <1>2, <1>3, <1>4, <1>5 DEF DetailPlayerFits

\* The player has captured the camera that is selected, if any.
LEMMA DetailPlayerForFits ==
  ASSUME DetailInv, NEW f \in Places \cup {NoFeature}, NEW p \in Detail!PlayerFor(f)
  PROVE  p \in DetailPlayers /\ DetailPlayerFits(p, f)
<1>1. player \in DetailPlayers /\ DetailPlayerFits(player, detailSelected)
  BY DEF DetailInv, DetailTypeInv
<1>2. /\ Detail!NoPlayer \in DetailPlayers /\ Detail!NoPlayer.status = "idle"
      /\ Detail!NoPlayer.source = Detail!NoUrl
      /\ Detail!Refused \in DetailPlayers /\ Detail!Refused.status = "error"
      /\ Detail!Refused.source = Detail!NoUrl
  BY DetailIdleTypes DEF Detail!NoPlayer, Detail!Refused
<1>3. CASE Detail!UrlOf(f) = Detail!UrlOf(detailSelected)
  <2>1. p = player
    BY <1>3 DEF Detail!PlayerFor
  <2> QED
    BY <1>1, <1>3, <2>1 DEF DetailPlayerFits
<1>4. CASE Detail!UrlOf(f) # Detail!UrlOf(detailSelected)
  <2>1. \/ p = Detail!NoPlayer \/ p = Detail!Refused \/ p \in Detail!Opened(Detail!UrlOf(f))
        \/ \E new \in Detail!Opened(Detail!UrlOf(f)) : p = [new EXCEPT !.status = "error"]
    BY <1>4 DEF Detail!PlayerFor
  <2>2. CASE p = Detail!NoPlayer \/ p = Detail!Refused
    BY <1>2, <2>2 DEF DetailPlayerFits
  <2> QED
    BY <2>1, <2>2, DetailOpenedFits
<1> QED
  BY <1>3, <1>4

(* A selection of what is held, with what the layers then hold. *)
LEMMA DetailSelectKeeps ==
  ASSUME DetailInv, NEW f \in Places \cup {NoFeature}, Detail!Select(f),
         detailEnabled' \in SUBSET Detail!Layers, DetailHolds(collections'),
         f # NoFeature /\ f.layer # "aircraft" => f \in collections'[f.layer]
  PROVE  DetailInv'
<1>1. detailSelected' = f /\ impact' = Detail!ImpactFor(f) /\ player' \in Detail!PlayerFor(f)
  BY DEF Detail!Select
<1>2. impact' \in DetailImpacts /\ DetailImpactFits(impact', f)
  BY <1>1, DetailImpactForFits
<1>3. player' \in DetailPlayers /\ DetailPlayerFits(player', f)
  BY <1>1, DetailPlayerForFits
<1>4. DetailTypeInv'
  BY <1>1, <1>2, <1>3 DEF DetailTypeInv, Detail!Layers
<1>5. Detail!SelectionIsHeld'
  BY <1>1 DEF Detail!SelectionIsHeld
<1>6. DetailImpactFits(impact, detailSelected)' /\ DetailPlayerFits(player, detailSelected)'
  BY <1>1, <1>2, <1>3 DEF DetailImpactFits, DetailPlayerFits, Detail!PlaceOf, Detail!UrlOf
<1>7. DetailHolds(collections)'
  BY DEF DetailHolds, Detail!Layers
<1> QED
  BY <1>4, <1>5, <1>6, <1>7 DEF DetailInv

(* The page's focus selects what is kept, nothing, or what is held. *)
LEMMA DetailFocusKeeps ==
  ASSUME DetailInv, NEW kept \in Places \cup {NoFeature}, Detail!Focus(kept, collections'),
         detailEnabled' \in SUBSET Detail!Layers, DetailHolds(collections'),
         kept # NoFeature /\ kept.layer # "aircraft" => kept \in collections'[kept.layer]
  PROVE  DetailInv'
<1>1. PICK f \in {kept, NoFeature} \cup Detail!Held(collections') : Detail!Select(f)
  BY DEF Detail!Focus
<1>2. f \in Places \cup {NoFeature} /\
        (f # NoFeature /\ f.layer # "aircraft" => f \in collections'[f.layer])
  BY <1>1 DEF DetailHolds, Detail!Held
<1> QED
  BY <1>1, <1>2, DetailSelectKeeps

\* What is selected is held, and of a layer of the map.
LEMMA DetailKept ==
  ASSUME DetailInv
  PROVE  /\ detailSelected \in Places \cup {NoFeature} /\ DetailHolds(collections)
         /\ detailEnabled \in SUBSET Detail!Layers
         /\ detailSelected # NoFeature /\ detailSelected.layer # "aircraft" =>
              detailSelected \in collections[detailSelected.layer]
         /\ detailSelected # NoFeature => detailSelected.layer \in Detail!Layers
BY DEF DetailInv, DetailTypeInv, Detail!SelectionIsHeld, Detail!Layers

\* The map as it is opened.
LEMMA DetailInitInv == Detail!Init => DetailInv
<1> SUFFICES ASSUME Detail!Init PROVE DetailInv
  OBVIOUS
<1>1. DetailHolds(collections)
  BY DEF Detail!Init, DetailHolds
<1>2. DetailTypeInv
  BY DetailIdleTypes DEF Detail!Init, DetailTypeInv
<1>3. DetailImpactFits(impact, detailSelected)
  BY DEF Detail!Init, DetailImpactFits, Detail!Idle, Detail!PlaceOf
<1>4. DetailPlayerFits(player, detailSelected)
  BY DEF Detail!Init, DetailPlayerFits, Detail!NoPlayer
<1>5. Detail!SelectionIsHeld
  BY DEF Detail!Init, Detail!SelectionIsHeld
<1> QED
  BY <1>1, <1>2, <1>3, <1>4, <1>5 DEF DetailInv

\* A step of the estimate: where it ends "ready", it is of the selected place.
LEMMA DetailLoadKeeps ==
  ASSUME DetailInv, NEW new \in DetailImpacts, Detail!Load(new), new.place = impact.place,
         new.phase = "done" =>
           /\ new.status = "ready" => new.of = Detail!PlaceOf(detailSelected)
           /\ new.status # "loading"
  PROVE  DetailInv'
<1>1. impact' = new /\ UNCHANGED <<detailEnabled, collections, detailSelected, player>>
  BY DEF Detail!Load
<1>2. DetailImpactFits(new, detailSelected)
  BY DEF DetailInv, DetailImpactFits
<1>3. DetailImpactFits(impact, detailSelected)'
  BY <1>1, <1>2 DEF DetailImpactFits, Detail!PlaceOf
<1>4. DetailTypeInv'
  BY <1>1 DEF DetailInv, DetailTypeInv, Detail!Layers
<1> QED
  BY <1>1, <1>3, <1>4
     DEF DetailInv, DetailHolds, DetailPlayerFits, Detail!SelectionIsHeld, Detail!UrlOf,
         Detail!Layers

\* A step of the player.
LEMMA DetailPlayKeeps ==
  ASSUME DetailInv, NEW new \in DetailPlayers, Detail!Play(new),
         DetailPlayerFits(new, detailSelected)
  PROVE  DetailInv'
<1>1. player' = new /\ UNCHANGED <<detailEnabled, collections, detailSelected, impact>>
  BY DEF Detail!Play
<1>2. DetailPlayerFits(player, detailSelected)'
  BY <1>1 DEF DetailPlayerFits, Detail!UrlOf
<1>3. DetailTypeInv'
  BY <1>1 DEF DetailInv, DetailTypeInv, Detail!Layers
<1> QED
  BY <1>1, <1>2, <1>3
     DEF DetailInv, DetailHolds, DetailImpactFits, Detail!SelectionIsHeld, Detail!PlaceOf,
         Detail!Layers

\* Selecting, closing, fetching the impact, starting the camera, and layers
\* that are loaded and hidden under it.
LEMMA DetailStepInv == DetailInv /\ [Detail!Next]_(Detail!detailVars) => DetailInv'
<1> SUFFICES ASSUME DetailInv, [Detail!Next]_(Detail!detailVars) PROVE DetailInv'
  OBVIOUS
<1>1. /\ impact \in DetailImpacts /\ player \in DetailPlayers
      /\ DetailImpactFits(impact, detailSelected) /\ DetailPlayerFits(player, detailSelected)
  BY DEF DetailInv, DetailTypeInv
<1>2. /\ detailSelected \in Places \cup {NoFeature} /\ DetailHolds(collections)
      /\ detailEnabled \in SUBSET Detail!Layers
      /\ detailSelected # NoFeature /\ detailSelected.layer # "aircraft" =>
           detailSelected \in collections[detailSelected.layer]
      /\ detailSelected # NoFeature => detailSelected.layer \in Detail!Layers
  BY DetailKept
<1>3. CASE Detail!ReadsSettle
  <2> DEFINE new == [impact EXCEPT !.phase = "bodies"]
  <2>1. new \in DetailImpacts /\ new.phase = "bodies" /\ new.place = impact.place
    BY <1>1 DEF DetailImpacts
  <2>2. Detail!Load(new)
    BY <1>3 DEF Detail!ReadsSettle
  <2> HIDE DEF new
  <2> QED
    BY <2>1, <2>2, DetailLoadKeeps
<1>4. ASSUME NEW some \in BOOLEAN, Detail!BodiesRead(some) PROVE DetailInv'
  <2> DEFINE new == [impact EXCEPT !.phase = "scoring", !.some = some]
  <2>1. new \in DetailImpacts /\ new.phase = "scoring" /\ new.place = impact.place
    BY <1>1 DEF DetailImpacts
  <2>2. Detail!Load(new)
    BY <1>4 DEF Detail!BodiesRead
  <2> HIDE DEF new
  <2> QED
    BY <2>1, <2>2, DetailLoadKeeps
<1>5. CASE Detail!BodyFails
  <2> DEFINE new == [impact EXCEPT !.phase = "done", !.status = "unavailable"]
  <2>1. new \in DetailImpacts /\ new.status = "unavailable" /\ new.place = impact.place
    BY <1>1 DEF DetailImpacts
  <2>2. Detail!Load(new)
    BY <1>5 DEF Detail!BodyFails
  <2> HIDE DEF new
  <2> QED
    BY <2>1, <2>2, DetailLoadKeeps
<1>6. ASSUME NEW ok \in BOOLEAN, Detail!ScoreAnswer(ok) PROVE DetailInv'
  <2> DEFINE told == [impact EXCEPT !.phase = "done", !.status = "ready", !.of = impact.place,
                                    !.score = IF ok THEN impact.event ELSE "none"]
             silent == [impact EXCEPT !.phase = "done", !.status = "unavailable"]
  <2>1. /\ told \in DetailImpacts /\ told.of = impact.place /\ told.status = "ready"
        /\ told.place = impact.place
    BY <1>1 DEF DetailImpacts
  <2>2. silent \in DetailImpacts /\ silent.status = "unavailable" /\ silent.place = impact.place
    BY <1>1 DEF DetailImpacts
  <2>3. Detail!Load(told) \/ Detail!Load(silent)
    BY <1>6 DEF Detail!ScoreAnswer
  <2>4. impact.place = Detail!PlaceOf(detailSelected)
    BY <1>1, <2>3 DEF Detail!Load, DetailImpactFits
  <2> HIDE DEF told, silent
  <2> QED
    BY <2>1, <2>2, <2>3, <2>4, DetailLoadKeeps
<1>7. CASE Detail!StreamReady
  <2>1. PICK started \in BOOLEAN :
          Detail!Play([player EXCEPT !.status = "ready", !.pending = player.pending \/ started])
    BY <1>7 DEF Detail!StreamReady
  <2> DEFINE new == [player EXCEPT !.status = "ready", !.pending = player.pending \/ started]
  <2>2. new \in DetailPlayers /\ new.source = player.source
    BY <1>1 DEF DetailPlayers
  <2>3. player.source = Detail!UrlOf(detailSelected)
    BY <1>1, <1>7 DEF Detail!StreamReady, DetailPlayerFits
  <2>4. Detail!Play(new)
    BY <2>1
  <2> HIDE DEF new
  <2>5. DetailPlayerFits(new, detailSelected)
    BY <2>2, <2>3 DEF DetailPlayerFits
  <2> QED
    BY <2>2, <2>4, <2>5, DetailPlayKeeps
<1>8. CASE Detail!StreamPlays
  <2> DEFINE new == [player EXCEPT !.pending = FALSE]
  <2>1. new \in DetailPlayers /\ new.source = player.source /\ new.status = player.status
    BY <1>1 DEF DetailPlayers
  <2>2. Detail!Play(new)
    BY <1>8 DEF Detail!StreamPlays
  <2> HIDE DEF new
  <2>3. DetailPlayerFits(new, detailSelected)
    BY <1>1, <2>1 DEF DetailPlayerFits
  <2> QED
    BY <2>1, <2>2, <2>3, DetailPlayKeeps
<1>9. CASE Detail!StreamFails
  <2> DEFINE new == [player EXCEPT !.status = "error", !.pending = FALSE]
  <2>1. new \in DetailPlayers /\ new.source = player.source /\ new.status = "error"
    BY <1>1 DEF DetailPlayers
  <2>2. Detail!Play(Detail!Refused) \/ Detail!Play(new)
    BY <1>9 DEF Detail!StreamFails
  <2> HIDE DEF new
  <2>3. DetailPlayerFits(new, detailSelected)
    BY <1>1, <2>1 DEF DetailPlayerFits
  <2>4. Detail!Refused \in DetailPlayers /\ DetailPlayerFits(Detail!Refused, detailSelected)
    BY DetailIdleTypes DEF DetailPlayerFits, Detail!Refused, Detail!NoPlayer
  <2> QED
    BY <2>1, <2>2, <2>3, <2>4, DetailPlayKeeps
<1>10. CASE Detail!CloseSheet
  <2>1. /\ Detail!Select(NoFeature) /\ collections' = collections
        /\ detailEnabled' = detailEnabled
    BY <1>10 DEF Detail!CloseSheet
  <2> QED
    BY <1>2, <2>1, DetailSelectKeeps
<1>11. CASE Detail!SynchronizeFocus
  <2>1. /\ Detail!Focus(detailSelected, collections') /\ collections' = collections
        /\ detailEnabled' = detailEnabled
    BY <1>11 DEF Detail!SynchronizeFocus
  <2> QED
    BY <1>2, <2>1, DetailFocusKeeps
<1>12. ASSUME NEW f \in Places, Detail!SelectFeature(f) PROVE DetailInv'
  <2>1. /\ f \in collections[f.layer] /\ Detail!Select(f) /\ collections' = collections
        /\ detailEnabled' = detailEnabled
    BY <1>12 DEF Detail!SelectFeature
  <2> QED
    BY <1>2, <2>1, DetailSelectKeeps
<1>13. ASSUME NEW answered \in SUBSET detailEnabled,
              NEW newFeatures \in SUBSET {f \in Places : f.layer \in answered},
              Detail!LoadAnswer(answered, newFeatures)
       PROVE  DetailInv'
  <2> DEFINE kept == Detail!Refreshed(answered, newFeatures)
             same == {g \in newFeatures : /\ detailSelected # NoFeature
                                          /\ g.id = detailSelected.id
                                          /\ g.layer = detailSelected.layer}
  <2>1. /\ collections' = [l \in Detail!Layers |->
                             IF l \in answered THEN {f \in newFeatures : f.layer = l}
                             ELSE collections[l]]
        /\ Detail!Focus(kept, collections') /\ detailEnabled' = detailEnabled
    BY <1>13 DEF Detail!LoadAnswer
  <2>2. \/ kept = NoFeature
        \/ kept = detailSelected /\ kept # NoFeature /\ kept.layer \notin answered
        \/ kept \in newFeatures
    <3>1. CASE detailSelected = NoFeature \/ detailSelected.layer \notin answered
      BY <3>1 DEF Detail!Refreshed
    <3>2. CASE detailSelected # NoFeature /\ detailSelected.layer \in answered /\ same = {}
      BY <3>2 DEF Detail!Refreshed
    <3>3. CASE detailSelected # NoFeature /\ detailSelected.layer \in answered /\ same # {}
      <4>1. kept = CHOOSE g \in same : TRUE
        BY <3>3 DEF Detail!Refreshed
      <4> QED
        BY <3>3, <4>1
    <3> QED
      BY <3>1, <3>2, <3>3
  <2> HIDE DEF kept
  <2>3. DetailHolds(collections')
    BY <1>2, <2>1 DEF DetailHolds
  <2>4. kept \in Places \cup {NoFeature}
    BY <1>2, <2>2
  <2>5. kept # NoFeature /\ kept.layer # "aircraft" => kept \in collections'[kept.layer]
    <3>1. CASE kept \in newFeatures
      <4>1. kept.layer \in Detail!Layers /\ kept.layer \in answered
        BY <3>1 DEF Detail!Layers
      <4> QED
        BY <2>1, <3>1, <4>1
    <3>2. CASE kept = detailSelected /\ kept # NoFeature /\ kept.layer \notin answered
      BY <1>2, <2>1, <3>2
    <3> QED
      BY <2>2, <3>1, <3>2
  <2> QED
    BY <1>2, <2>1, <2>3, <2>4, <2>5, DetailFocusKeeps
<1>14. ASSUME NEW newFeatures \in SUBSET {f \in Places : f.layer = "aircraft"},
              Detail!AircraftMove(newFeatures)
       PROVE  DetailInv'
  <2>1. /\ "aircraft" \in Detail!Layers
        /\ collections' = [collections EXCEPT !["aircraft"] = newFeatures]
        /\ UNCHANGED <<detailEnabled, detailSelected, impact, player>>
    BY <1>14 DEF Detail!AircraftMove
  <2>2. DetailHolds(collections')
    BY <1>2, <2>1 DEF DetailHolds
  <2>3. DetailHolds(collections)'
    BY <2>2 DEF DetailHolds, Detail!Layers
  <2>4. Detail!SelectionIsHeld'
    BY <1>2, <2>1 DEF Detail!SelectionIsHeld, DetailHolds
  <2>5. DetailTypeInv'
    BY <2>1 DEF DetailInv, DetailTypeInv, Detail!Layers
  <2>6. DetailImpactFits(impact, detailSelected)' /\ DetailPlayerFits(player, detailSelected)'
    BY <1>1, <2>1 DEF DetailImpactFits, DetailPlayerFits, Detail!PlaceOf, Detail!UrlOf
  <2> QED
    BY <2>3, <2>4, <2>5, <2>6 DEF DetailInv
<1>15. ASSUME NEW layer \in Detail!Layers, Detail!ToggleLayer(layer) PROVE DetailInv'
  <2>1. /\ Detail!Focus(NoFeature, collections') /\ collections' = collections
        /\ detailEnabled' \in SUBSET Detail!Layers
    BY <1>2, <1>15 DEF Detail!ToggleLayer
  <2> QED
    BY <1>2, <2>1, DetailFocusKeeps
<1>16. ASSUME NEW next \in SUBSET Detail!Layers, Detail!SynchronizeVisibleLayers(next)
       PROVE  DetailInv'
  <2> DEFINE kept == IF detailSelected # NoFeature /\ detailSelected.layer \in next
                     THEN detailSelected ELSE NoFeature
  <2>1. /\ detailEnabled' = next /\ Detail!Focus(kept, collections')
        /\ collections' = [l \in Detail!Layers |->
                             IF l \in detailEnabled \ next THEN {} ELSE collections[l]]
    BY <1>16 DEF Detail!SynchronizeVisibleLayers
  <2>2. DetailHolds(collections')
    BY <1>2, <2>1 DEF DetailHolds
  <2>3. kept \in Places \cup {NoFeature}
    BY <1>2
  <2>4. kept # NoFeature /\ kept.layer # "aircraft" => kept \in collections'[kept.layer]
    BY <1>2, <2>1
  <2> HIDE DEF kept
  <2> QED
    BY <2>1, <2>2, <2>3, <2>4, DetailFocusKeeps
<1>17. CASE UNCHANGED Detail!detailVars
  <2>1. UNCHANGED <<detailEnabled, collections, detailSelected, impact, player>>
    BY <1>17 DEF Detail!detailVars
  <2> QED
    BY <2>1 DEF DetailInv, DetailTypeInv, DetailHolds, DetailImpactFits, DetailPlayerFits,
       Detail!SelectionIsHeld, Detail!PlaceOf, Detail!UrlOf, Detail!Layers
<1> QED
  BY <1>3, <1>4, <1>5, <1>6, <1>7, <1>8, <1>9, <1>10, <1>11, <1>12, <1>13, <1>14, <1>15,
     <1>16, <1>17 DEF Detail!Next

\* The type that the runs check.
LEMMA DetailIsTyped == DetailInv => Detail!TypeOK
<1> SUFFICES ASSUME DetailInv PROVE Detail!TypeOK
  OBVIOUS
<1>1. \A l \in Detail!Layers : collections[l] \subseteq {f \in Places : f.layer = l}
  BY DEF DetailInv, DetailHolds
<1> QED
  BY <1>1 DEF DetailInv, DetailTypeInv, Detail!TypeOK, DetailImpacts, DetailPlayers

\* The panel and the player are of the selected feature.
LEMMA DetailIsShown == DetailInv => Detail!DetailIsOfSelection /\ Detail!SelectionIsHeld
BY DEF DetailInv, DetailImpactFits, DetailPlayerFits, Detail!DetailIsOfSelection

==============================================================================
