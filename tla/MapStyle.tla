------------------------------ MODULE MapStyle ------------------------------
(***************************************************************************)
(* The overlays of the MapLibre map that are not data of the API: rain     *)
(* radar and infrared (fetched again and again), the satellite images of   *)
(* GIBS (fetched once), terrain and heatmap; and the theme of the basemap, *)
(* whose exchange takes every overlay off the map until the event          *)
(* "styledata" puts them back.  Images, styles and buttons come in any     *)
(* order; what is chosen is kept in refs the late answers read.            *)
(***************************************************************************)
EXTENDS Naturals

CONSTANT
  MaxEvents   \* bound of the model: presses of the theme button, hidings of the
              \* tab and firings of the timer that asks for images again

VARIABLES
  theme,      \* themeRef
  style,      \* the basemap that is mounted
  fetches,    \* loadDarkStyle on their way
  darkCached, \* darkStyleCache
  incoming,   \* basemaps handed to setStyle and not yet mounted
  listeners,  \* map.once('styledata') not yet called
  chosen,     \* radarVisibleRef, gibsVisibleRef, terrainVisibleRef, heatmapOn
  frames,     \* radarFrameRef, gibsFramesRef: is there an image?
  asked,      \* images on their way, by overlay
  overlay,    \* what the map draws: "absent", "hidden" or "visible"
  tabHidden,  \* document.hidden
  timers,     \* which of the timers run
  phase,      \* "loading", "loaded" or "gone"
  events

Overlays == {"radar", "satellite", "terrain", "heatmap"}
Imaged == {"radar", "satellite"}
Basemaps == {"light", "dark"}

basemap == <<theme, style, fetches, darkCached, incoming, listeners>>
images == <<frames, asked>>
styleVars == <<basemap, chosen, images, overlay, tabHidden, timers, phase, events>>

Happens == events < MaxEvents /\ events' = events + 1

(* setVisible of the layer modules: a layer that is not there stays away.    *)
Shown(state, on) ==
  IF state = "absent" THEN "absent" ELSE IF on THEN "visible" ELSE "hidden"

(* apply of the layer modules: a new layer is hidden, an old one keeps its   *)
(* visibility and gets the new tiles.                                        *)
Applied(state) == IF state = "absent" THEN "hidden" ELSE state

(* ---- The buttons of the legend ---- *)

Toggle(o) ==
  /\ phase # "gone" /\ ~tabHidden
  /\ chosen' = [chosen EXCEPT ![o] = ~@]
  /\ overlay' = [overlay EXCEPT ![o] = Shown(@, chosen'[o])]
  /\ UNCHANGED <<basemap, images, tabHidden, timers, phase, events>>

(* activateView3D and deactivateView3D; the button of the comparison with a  *)
(* slider only switches the satellite image on.                              *)
View(os, on) ==
  /\ phase # "gone" /\ ~tabHidden
  /\ chosen' = [o \in Overlays |-> IF o \in os THEN on ELSE chosen[o]]
  /\ overlay' = [o \in Overlays |-> IF o \in os THEN Shown(overlay[o], on) ELSE overlay[o]]
  /\ UNCHANGED <<basemap, images, tabHidden, timers, phase, events>>

View3D == View({"satellite", "terrain"}, ~(chosen["satellite"] /\ chosen["terrain"]))
SwipeCompare == View({"satellite"}, TRUE)

(* ---- Images ---- *)

(* markReady: the first images are asked for, terrain is put on the map,     *)
(* hidden.                                                                   *)
MarkReady ==
  /\ phase = "loading" /\ phase' = "loaded"
  /\ asked' = [o \in Overlays |-> IF o \in Imaged THEN 1 ELSE 0]
  /\ overlay' = [overlay EXCEPT !["terrain"] = "hidden"]
  /\ timers' = timers \cup {"aircraft", "images"}
  /\ UNCHANGED <<basemap, chosen, frames, tabHidden, events>>

(* The events are drawn for the first time on this basemap, with a hidden    *)
(* heatmap.                                                                  *)
EventsDrawn ==
  /\ phase = "loaded" /\ overlay["heatmap"] = "absent"
  /\ overlay' = [overlay EXCEPT !["heatmap"] = "hidden"]
  /\ UNCHANGED <<basemap, chosen, images, tabHidden, timers, phase, events>>

(* The interval of the radar and of the infrared image.                      *)
AskAgain ==
  /\ "images" \in timers /\ Happens
  /\ asked' = [asked EXCEPT !["radar"] = @ + 1]
  /\ UNCHANGED <<basemap, chosen, frames, overlay, tabHidden, timers, phase>>

(* applyRadar puts a fallback image up when none was found; applyGibs leaves *)
(* the map alone.  Both then show what is chosen at that moment.             *)
Choice(o) == chosen[o]
FrameAnswer(o, found) ==
  /\ asked[o] > 0 /\ asked' = [asked EXCEPT ![o] = @ - 1]
  /\ IF phase # "loaded" THEN UNCHANGED <<frames, overlay>>
     ELSE /\ frames' = [frames EXCEPT ![o] = found]
          /\ overlay' = [overlay EXCEPT ![o] =
                           Shown(IF found \/ o = "radar" THEN Applied(@) ELSE @, Choice(o))]
  /\ UNCHANGED <<basemap, chosen, tabHidden, timers, phase, events>>

(* ---- The basemap ---- *)

(* setStyle: a style that is there is mounted at once, an address is fetched *)
(* by the map first; the listener is added without waiting.                  *)
Mounted == [o \in Overlays |-> "absent"]

ApplyTheme(next) ==
  /\ phase # "gone" /\ ~tabHidden /\ next # theme
  /\ Happens
  /\ theme' = next
  /\ IF next = "dark" /\ ~darkCached
     THEN /\ fetches' = fetches + 1
          /\ UNCHANGED <<style, incoming, listeners, overlay>>
     ELSE /\ listeners' = listeners + 1 /\ UNCHANGED fetches
          /\ IF next = "dark"
             THEN style' = "dark" /\ overlay' = Mounted /\ UNCHANGED incoming
             ELSE incoming' = incoming \cup {"light"} /\ UNCHANGED <<style, overlay>>
  /\ UNCHANGED <<darkCached, chosen, images, tabHidden, timers, phase>>

(* loadDarkStyle returns, the theme may have been switched back meanwhile;   *)
(* it is patched and cached, or its address is handed to the map.            *)
DarkStyle(ok) ==
  /\ fetches > 0 /\ fetches' = fetches - 1
  /\ darkCached' = (darkCached \/ ok)
  /\ IF phase = "gone" THEN UNCHANGED <<style, incoming, listeners, overlay>>
     ELSE /\ listeners' = listeners + 1
          /\ IF darkCached'
             THEN style' = "dark" /\ overlay' = Mounted /\ UNCHANGED incoming
             ELSE incoming' = incoming \cup {"dark"} /\ UNCHANGED <<style, overlay>>
  /\ UNCHANGED <<theme, chosen, images, tabHidden, timers, phase, events>>

(* The map has fetched a basemap and mounts it. *)
StyleArrives(s) ==
  /\ phase # "gone" /\ s \in incoming
  /\ incoming' = incoming \ {s} /\ style' = s /\ overlay' = Mounted
  /\ UNCHANGED <<theme, fetches, darkCached, listeners>>
  /\ UNCHANGED <<chosen, images, tabHidden, timers, phase, events>>

(* rehydrateOperationalLayers, for all listeners at once.  The event comes   *)
(* with any change of the style, also with a pulse before the new one is     *)
(* mounted.  Events that were loaded come back with a hidden heatmap.        *)
Rehydrated(o, eventsLoaded) ==
  CASE o = "radar" -> Shown(Applied(overlay[o]), chosen[o])
    [] o = "satellite" -> IF frames[o] THEN Shown(Applied(overlay[o]), chosen[o]) ELSE overlay[o]
    [] o = "terrain" -> Shown(Applied(overlay[o]), chosen[o])
    [] o = "heatmap" -> IF eventsLoaded THEN Applied(overlay[o]) ELSE overlay[o]

StyleData(eventsLoaded) ==
  /\ phase # "gone" /\ listeners > 0 /\ listeners' = 0
  /\ overlay' = [o \in Overlays |-> Rehydrated(o, eventsLoaded)]
  /\ UNCHANGED <<theme, style, fetches, darkCached, incoming>>
  /\ UNCHANGED <<chosen, images, tabHidden, timers, phase, events>>

(* ---- The tab and the end ---- *)

Hide ==
  /\ ~tabHidden /\ Happens
  /\ tabHidden' = TRUE
  /\ IF phase = "gone" THEN UNCHANGED <<overlay, timers>>
     ELSE /\ overlay' = [overlay EXCEPT !["terrain"] = IF @ = "visible" THEN "hidden" ELSE @]
          /\ timers' = timers \ {"aircraft", "pulse"}
  /\ UNCHANGED <<basemap, chosen, images, phase>>

Show ==
  /\ tabHidden /\ tabHidden' = FALSE
  /\ IF phase = "gone" THEN UNCHANGED <<overlay, timers>>
     ELSE /\ overlay' = [overlay EXCEPT
               !["terrain"] = Shown(@, chosen["terrain"]),
               !["radar"] = IF chosen["radar"] THEN Shown(@, TRUE) ELSE @]
          /\ timers' = timers \cup {"aircraft", "pulse"}
  /\ UNCHANGED <<basemap, chosen, images, phase, events>>

(* teardown: the page is left or the context of WebGL lost.                  *)
Teardown ==
  /\ phase # "gone" /\ phase' = "gone"
  /\ timers' = {} /\ overlay' = Mounted
  /\ UNCHANGED <<basemap, chosen, images, tabHidden, events>>

Init ==
  /\ theme = "light" /\ style = "light" /\ fetches = 0 /\ darkCached = FALSE
  /\ incoming = {} /\ listeners = 0 /\ events = 0
  /\ chosen = [o \in Overlays |-> FALSE] /\ frames = [o \in Overlays |-> FALSE]
  /\ asked = [o \in Overlays |-> 0]
  /\ overlay = [o \in Overlays |-> "absent"]
  /\ tabHidden = FALSE /\ timers = {"pulse"} /\ phase = "loading"

Next ==
  \/ \E o \in Overlays : Toggle(o)
  \/ View3D \/ SwipeCompare \/ MarkReady \/ EventsDrawn \/ AskAgain
  \/ \E o \in Imaged, found \in BOOLEAN : FrameAnswer(o, found)
  \/ \E s \in Basemaps : ApplyTheme(s) \/ StyleArrives(s)
  \/ \E ok \in BOOLEAN : DarkStyle(ok) \/ StyleData(ok)
  \/ Hide \/ Show \/ Teardown

Spec == Init /\ [][Next]_styleVars

(* ---- Properties ---- *)

(* Type of the state. *)
TypeOK ==
  /\ theme \in Basemaps /\ style \in Basemaps /\ incoming \subseteq Basemaps
  /\ fetches \in 0..MaxEvents /\ listeners \in 0..MaxEvents /\ darkCached \in BOOLEAN
  /\ chosen \in [Overlays -> BOOLEAN] /\ frames \in [Overlays -> BOOLEAN]
  /\ asked \in [Overlays -> 0..(MaxEvents + 1)] /\ events \in 0..MaxEvents
  /\ overlay \in [Overlays -> {"absent", "hidden", "visible"}]
  /\ tabHidden \in BOOLEAN /\ timers \subseteq {"pulse", "aircraft", "images"}
  /\ phase \in {"loading", "loaded", "gone"}

(* An image, terrain or heatmap is on the map only while its button is on:   *)
(* an answer, an exchange of the basemap or the return of the tab never      *)
(* brings back what was switched off meanwhile.                              *)
DrawnIsChosen ==
  \A o \in Overlays : overlay[o] = "visible" => chosen[o]
=============================================================================
