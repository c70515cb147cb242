-------------------------- MODULE MapPublicLayers --------------------------
(***************************************************************************)
(* The public layers of the MapLibre map (OperationalMap): which layers    *)
(* are enabled, by the dashboard, by its extras and by the legend, what is *)
(* asked for them, and what is drawn and said of them when answers come    *)
(* late.  Every load takes a new revision; an answer to an older one is    *)
(* dropped.  The position of aircraft is also fetched by a timer, outside  *)
(* of the revisions.                                                       *)
(***************************************************************************)
EXTENDS Integers, FiniteSets

CONSTANTS
  MaxViews,   \* bound of the model: views (viewport, perils, time) one after another
  MaxPresses, \* bound of the model: presses of buttons that change the layers
  MaxLoads    \* bound of the model: answers on their way at a time

LayersAssumption == MaxViews \in Nat /\ MaxPresses \in Nat /\ MaxLoads \in Nat

VARIABLES
  view,        \* the view the map shows now
  presses,
  newsOnly,    \* the dashboard shows news only, without events
  officialOn,  \* the class of official warnings is on
  extras,      \* controlledExtras
  enabled,     \* enabledLayersRef
  loadsOut,    \* requests on their way: [view, layers, current]
  snaps,       \* requests of the aircraft timer: the views they were made for
  debounce,    \* is refreshTimer running?
  states,      \* layerStates, what the legend says of each layer
  drawn,       \* what the map draws of each layer (collectionsRef may keep more)
  mapUp        \* "loading", "loaded" or "fallback"

controls == <<newsOnly, officialOn, extras>>
publicVars == <<view, presses, controls, enabled, loadsOut, snaps, debounce, states, drawn, mapUp>>

Layers == {"events", "official-alerts", "air-quality", "aircraft"}
Optional == {"aircraft"}   \* layers that only the legend adds
Healths == {"loading", "current", "stale", "unavailable", "empty"}
Results == {"ready", "empty", "stale", "unavailable"}

Nothing == [view |-> -1, empty |-> TRUE]
Drawn(v, empty) == [view |-> v, empty |-> empty]
Absent == [health |-> "absent", refreshing |-> FALSE, full |-> FALSE]
State(health, refreshing, full) == [health |-> health, refreshing |-> refreshing, full |-> full]

(* visibleOperationalLayers of the dashboard, and with the extras.           *)
Base(news, official) ==
  {"air-quality"} \cup (IF news THEN {} ELSE {"events"})
                  \cup (IF official THEN {"official-alerts"} ELSE {})

(* beginRefresh: older requests are aborted, and each enabled layer is said  *)
(* to be refreshing or loading.                                              *)
Superseded == {[r EXCEPT !.current = FALSE] : r \in loadsOut}
Refreshing(on, sts) ==
  [l \in Layers |->
     IF l \notin on THEN sts[l]
     ELSE IF sts[l] = Absent THEN State("loading", TRUE, FALSE)
     ELSE [sts[l] EXCEPT !.refreshing = TRUE]]

(* loadPublicLayers, with the layers on and the states sts it finds; v is    *)
(* the view the request asks for.                                            *)
LoadPublicLayers(on, sts, v) ==
  IF mapUp # "loaded" THEN loadsOut' = loadsOut /\ states' = sts
  ELSE /\ loadsOut' = IF on = {} THEN Superseded
                      ELSE Superseded \cup {[view |-> v, layers |-> on, current |-> TRUE]}
       /\ states' = Refreshing(on, sts)

Bounded == Cardinality(loadsOut) < MaxLoads

(* synchronizeVisibleLayers: layers that are no longer enabled are taken off *)
(* the map and forgotten, then all that are enabled are loaded.              *)
SynchronizeVisibleLayers(next) ==
  /\ enabled' = next
  /\ drawn' = IF mapUp = "loaded"
              THEN [l \in Layers |-> IF l \in enabled \ next THEN Nothing ELSE drawn[l]]
              ELSE drawn
  /\ LoadPublicLayers(next, [l \in Layers |-> IF l \in next THEN states[l] ELSE Absent], view)

(* ---- The dashboard and the legend ---- *)

Press == presses < MaxPresses /\ presses' = presses + 1 /\ Bounded

(* The filter or the classes of the dashboard change.                        *)
Control(news, official) ==
  /\ Press /\ <<news, official>> # <<newsOnly, officialOn>>
  /\ newsOnly' = news /\ officialOn' = official
  /\ SynchronizeVisibleLayers(Base(news, official) \cup extras)
  /\ UNCHANGED <<view, extras, snaps, debounce, mapUp>>

(* toggleLayer for a layer the dashboard does not control.                   *)
ToggleExtra(l) ==
  /\ Press /\ mapUp # "fallback" /\ l \in Optional
  /\ extras' = IF l \in extras THEN extras \ {l} ELSE extras \cup {l}
  /\ SynchronizeVisibleLayers(Base(newsOnly, officialOn) \cup extras')
  /\ UNCHANGED <<view, newsOnly, officialOn, snaps, debounce, mapUp>>

(* toggleLayer for one it does: the map goes its own way until the dashboard *)
(* or the extras change. The layer is only taken off the map: the collection *)
(* the page keeps of it is the matter of MapDetail.                          *)
ToggleBase(l) ==
  /\ Press /\ mapUp # "fallback" /\ l \in Base(newsOnly, officialOn)
  /\ enabled' = IF l \in enabled THEN enabled \ {l} ELSE enabled \cup {l}
  /\ drawn' = IF l \in enabled /\ mapUp = "loaded" THEN [drawn EXCEPT ![l] = Nothing] ELSE drawn
  /\ LoadPublicLayers(enabled', IF l \in enabled THEN [states EXCEPT ![l] = Absent] ELSE states, view)
  /\ UNCHANGED <<view, controls, snaps, debounce, mapUp>>

(* The perils or the time of the dashboard change: asked for at once.        *)
ChangeQuery ==
  /\ Bounded /\ view < MaxViews /\ view' = view + 1
  /\ LoadPublicLayers(enabled, states, view')
  /\ UNCHANGED <<presses, controls, enabled, snaps, debounce, drawn, mapUp>>

(* ---- The map ---- *)

(* markReady: the style is loaded.                                           *)
MarkReady ==
  /\ mapUp = "loading" /\ mapUp' = "loaded"
  /\ loadsOut' = {[view |-> view, layers |-> enabled, current |-> TRUE]}
  /\ states' = Refreshing(enabled, states)
  /\ UNCHANGED <<view, presses, controls, enabled, snaps, debounce, drawn>>

(* synchronizeView and schedulePublicLayers: what is on its way is void from *)
(* now on, and a load follows after the debounce.                            *)
MoveEnd ==
  /\ mapUp # "fallback" /\ view < MaxViews /\ view' = view + 1
  /\ IF mapUp = "loaded"
     THEN loadsOut' = Superseded /\ states' = Refreshing(enabled, states) /\ debounce' = TRUE
     ELSE UNCHANGED <<loadsOut, states, debounce>>
  /\ UNCHANGED <<presses, controls, enabled, snaps, drawn, mapUp>>

Debounced ==
  /\ debounce /\ Bounded /\ debounce' = FALSE
  /\ LoadPublicLayers(enabled, states, view)
  /\ UNCHANGED <<view, presses, controls, enabled, snaps, drawn, mapUp>>

\* Mutant: the revision is not compared.
AppliesAnyway(r) == mapUp = "loaded"

(* The guard of an answer. *)
Applies(r) == mapUp = "loaded" /\ r.current

\* Mutant: the result is written as it came.
SettledAsCame(state, result) ==
  IF result # "unavailable" \/ ~state.full THEN State(result, FALSE, result = "ready")
  ELSE State("stale", FALSE, TRUE)

(* What an answer makes of the state of a layer: a failed one leaves what    *)
(* was drawn, as stale, if it was not empty.                                 *)
Settled(state, result) ==
  IF result # "unavailable"
  THEN State(IF result = "ready" THEN "current" ELSE result, FALSE, result # "empty")
  ELSE IF state.full THEN State("stale", FALSE, TRUE) ELSE State("unavailable", FALSE, FALSE)

(* All layers of a request are answered together.                            *)
Answer(r, result) ==
  /\ loadsOut' = loadsOut \ {r}
  /\ IF Applies(r)
     THEN /\ drawn' = [l \in Layers |->
                 IF l \in r.layers \cap enabled /\ result[l] # "unavailable"
                 THEN Drawn(r.view, result[l] = "empty") ELSE drawn[l]]
          /\ states' = [l \in Layers |->
                 IF l \in r.layers THEN Settled(states[l], result[l]) ELSE states[l]]
     ELSE UNCHANGED <<drawn, states>>
  /\ UNCHANGED <<view, presses, controls, enabled, snaps, debounce, mapUp>>

(* refreshAircraftPositions, every minute while the tab is visible.          *)
SnapAircraft ==
  /\ mapUp = "loaded" /\ "aircraft" \in enabled /\ snaps = {}
  /\ snaps' = {view}
  /\ UNCHANGED <<view, presses, controls, enabled, loadsOut, debounce, states, drawn, mapUp>>

(* Its answer is applied whatever has happened meanwhile.                    *)
SnapAnswer(v, result) ==
  /\ v \in snaps /\ snaps' = snaps \ {v}
  /\ IF mapUp = "loaded" /\ result # "unavailable"
     THEN /\ drawn' = [drawn EXCEPT !["aircraft"] = Drawn(v, result = "empty")]
          /\ states' = [states EXCEPT !["aircraft"] = Settled(Absent, result)]
     ELSE UNCHANGED <<drawn, states>>
  /\ UNCHANGED <<view, presses, controls, enabled, loadsOut, debounce, mapUp>>

(* webglcontextlost: the map is torn down, a text is shown for good.         *)
ShowFallback ==
  /\ mapUp # "fallback" /\ mapUp' = "fallback"
  /\ debounce' = FALSE /\ loadsOut' = Superseded
  /\ drawn' = [l \in Layers |-> Nothing]
  /\ UNCHANGED <<view, presses, controls, enabled, snaps, states>>

Init ==
  /\ view = 0 /\ presses = 0 /\ newsOnly = FALSE /\ officialOn = TRUE /\ extras = {}
  /\ enabled = Base(newsOnly, officialOn)
  /\ loadsOut = {} /\ snaps = {} /\ debounce = FALSE
  /\ states = [l \in Layers |-> Absent] /\ drawn = [l \in Layers |-> Nothing]
  /\ mapUp = "loading"

(* Bound of the model: every answer for the warnings, and for the others     *)
(* together a full one or a failure.                                         *)
Answers ==
  {[l \in Layers |-> IF l = "official-alerts" THEN a ELSE b] :
     a \in Results, b \in {"ready", "unavailable"}}

Next ==
  \/ \E news, official \in BOOLEAN : Control(news, official)
  \/ \E l \in Layers : ToggleExtra(l) \/ ToggleBase(l)
  \/ \E r \in loadsOut, result \in Answers : Answer(r, result)
  \/ \E v \in snaps, result \in {"ready", "unavailable"} : SnapAnswer(v, result)
  \/ ChangeQuery \/ MarkReady \/ MoveEnd \/ Debounced \/ SnapAircraft \/ ShowFallback

Spec == Init /\ [][Next]_publicVars

(* ---- Properties ---- *)

(* Type of the state. *)
TypeOK ==
  /\ view \in 0..MaxViews /\ presses \in 0..MaxPresses
  /\ newsOnly \in BOOLEAN /\ officialOn \in BOOLEAN /\ debounce \in BOOLEAN
  /\ extras \subseteq Optional /\ enabled \subseteq Layers
  /\ loadsOut \subseteq [view : 0..MaxViews, layers : SUBSET Layers, current : BOOLEAN]
  /\ snaps \subseteq 0..MaxViews
  /\ states \in [Layers -> [health : Healths \cup {"absent"}, refreshing : BOOLEAN, full : BOOLEAN]]
  /\ drawn \in [Layers -> [view : -1..MaxViews, empty : BOOLEAN]]
  /\ mapUp \in {"loading", "loaded", "fallback"}

(* What the legend calls current and at rest is drawn for the view the map   *)
(* shows, however moves, switches and late answers cross.  The aircraft are  *)
(* left out: their timer answers outside of the revisions.                   *)
CurrentIsThisView ==
  mapUp = "loaded" =>
    \A l \in enabled \ Optional :
      /\ states[l].health = "current" /\ ~states[l].refreshing => drawn[l] = Drawn(view, FALSE)
      /\ states[l].health = "empty" /\ ~states[l].refreshing => drawn[l] = Drawn(view, TRUE)

(* What is switched off is off the map, late answers included; the aircraft  *)
(* are left out, which a late answer of their timer draws again.             *)
DrawnIsEnabled ==
  \A l \in Layers \ Optional : drawn[l] # Nothing => l \in enabled
=============================================================================
