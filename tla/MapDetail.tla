------------------------------ MODULE MapDetail ------------------------------
(***************************************************************************)
(* The sheet beside the map with the details of the feature that was       *)
(* clicked or focussed (MapDetailSheet), the estimate of the impact of an  *)
(* event in it (useImpactSummary) and the player of a camera               *)
(* (CctvStreamPlayer).  Layers are refreshed and hidden under the          *)
(* selection, and every load of the layers applies the page's focus anew;  *)
(* a load of the estimate is aborted when another place is chosen, and     *)
(* what the aborted load still reports depends on how far it had come.     *)
(***************************************************************************)
EXTENDS FiniteSets, Naturals

CONSTANTS
  Features, \* [id, layer, place, url]: "events" have a place, "cctv" a stream
  Trusted,  \* streams of the approved hosts
  Nothing   \* no feature

VARIABLES
  enabled,     \* enabledLayersRef: the layers that are shown
  collections, \* collectionsRef: what each layer drew last; no entry is {}
  selected,    \* selectedFeature
  impact,      \* the state of useImpactSummary, and its load
  player       \* the state of the player, and what its effect captured

detailVars == <<enabled, collections, selected, impact, player>>

Layers == {f.layer : f \in Features}
NoPlace == "nowhere"
NoUrl == "no stream"
PlaceOf(f) == IF f # Nothing /\ f.layer = "events" THEN f.place ELSE NoPlace
UrlOf(f) == IF f # Nothing /\ f.layer = "cctv" THEN f.url ELSE NoUrl

(* "place" and "event" are what the effect captured, "of" and "score" what   *)
(* is shown.                                                                 *)
Idle == [status |-> "idle", of |-> NoPlace, score |-> "none", phase |-> "done",
         some |-> FALSE, place |-> NoPlace, event |-> "none"]
NoPlayer == [status |-> "idle", source |-> NoUrl, pending |-> FALSE]

Init ==
  /\ enabled \in SUBSET Layers /\ collections = [l \in Layers |-> {}]
  /\ selected = Nothing /\ impact = Idle /\ player = NoPlayer

---------------------------------------------------------------------------
(* The panel of the impact. *)

(* The effect of useImpactSummary: another place aborts the load on its way  *)
(* and starts one.  An aborted load whose four reads were open finds them    *)
(* all failed and says "unavailable", one that was reading their bodies is   *)
(* silent, and one that waited for the score shows what it had.              *)
Aborted ==
  CASE impact.phase = "fetching" -> [Idle EXCEPT !.status = "unavailable"]
    [] impact.phase = "scoring" /\ impact.some ->
         [Idle EXCEPT !.status = "ready", !.of = impact.place]
    [] impact.phase = "scoring" -> [Idle EXCEPT !.status = "unavailable"]
    [] OTHER -> [Idle EXCEPT !.status = "loading"]

\* Mutant: the place is missing in the dependencies of the effect.
PlaceAsBefore(f) == (PlaceOf(f) = NoPlace) = (PlaceOf(selected) = NoPlace)

(* The event is none of the dependencies: another event at the same place    *)
(* starts no load, and is shown with the score of the first one.             *)
SamePlace(f) == PlaceOf(f) = PlaceOf(selected)
ImpactFor(f) ==
  IF SamePlace(f) THEN impact
  ELSE IF PlaceOf(f) = NoPlace THEN Idle
  ELSE [(IF PlaceOf(selected) = NoPlace THEN [Idle EXCEPT !.status = "loading"] ELSE Aborted)
          EXCEPT !.phase = "fetching", !.place = PlaceOf(f), !.event = f.id]

Load(new) ==
  /\ PlaceOf(selected) # NoPlace /\ impact' = new
  /\ UNCHANGED <<enabled, collections, selected, player>>

(* fetchImpactSummary: population, facilities, land cover and elevation are  *)
(* settled together, ...                                                     *)
ReadsSettle ==
  impact.phase = "fetching" /\ Load([impact EXCEPT !.phase = "bodies"])

(* ... their bodies are read, of which one may be no JSON; ...               *)
BodiesRead(some) ==
  impact.phase = "bodies" /\ Load([impact EXCEPT !.phase = "scoring", !.some = some])
BodyFails ==
  impact.phase = "bodies" /\ Load([impact EXCEPT !.phase = "done", !.status = "unavailable"])

(* ... and the score of the event is asked for, which may be missing.        *)
ScoreAnswer(ok) ==
  /\ impact.phase = "scoring"
  /\ Load(IF ok \/ impact.some
          THEN [impact EXCEPT !.phase = "done", !.status = "ready", !.of = impact.place,
                              !.score = IF ok THEN impact.event ELSE "none"]
          ELSE [impact EXCEPT !.phase = "done", !.status = "unavailable"])

---------------------------------------------------------------------------
(* The player.  "source" is the stream that its effect has captured, and     *)
(* "pending" says that a promise of play() is open.                          *)

Refused == [status |-> "error", source |-> NoUrl, pending |-> FALSE]

(* A browser that plays HLS itself is asked to play at once; hls.js reads    *)
(* the manifest first; another browser cannot play it.                       *)
Opened(url) ==
  IF url \notin Trusted THEN {Refused}
  ELSE {[status |-> "loading", source |-> url, pending |-> native] : native \in BOOLEAN}
         \cup {Refused}

(* The effect for another stream.  After an error there is no video element  *)
(* to play it in.  A promise of play() that is open is refused by the load() *)
(* of the cleanup, and its handler reports that as an error of the new       *)
(* stream, which goes on loading in an element that is no longer shown.      *)
PlayerFor(f) ==
  LET url == UrlOf(f)
  IN IF url = UrlOf(selected) THEN {player}
     ELSE IF url = NoUrl THEN {NoPlayer}
     ELSE IF UrlOf(selected) = NoUrl THEN Opened(url)
     ELSE IF player.status = "error" THEN {Refused}
     ELSE IF player.pending
          THEN {[new EXCEPT !.status = "error"] : new \in Opened(url)}
     ELSE Opened(url)

Play(new) ==
  /\ player' = new /\ UNCHANGED <<enabled, collections, selected, impact>>

(* Its metadata or manifest has come.  It may have come late, for a stream   *)
(* that was given up: the player is then "ready" with an empty element.      *)
StreamReady ==
  /\ player.source # NoUrl /\ player.status \in {"loading", "error"}
  /\ \E started \in BOOLEAN :
       /\ player.status = "loading" => started
       /\ Play([player EXCEPT !.status = "ready", !.pending = @ \/ started])
StreamPlays ==
  /\ player.status = "ready" /\ player.pending /\ Play([player EXCEPT !.pending = FALSE])

(* It cannot be loaded, or its play() is refused while it goes on loading.   *)
StreamFails ==
  /\ player.status \in {"loading", "ready"}
  /\ Play(Refused) \/ Play([player EXCEPT !.status = "error", !.pending = FALSE])

---------------------------------------------------------------------------
(* The selection. *)

Select(f) ==
  /\ selected' = f /\ impact' = ImpactFor(f) /\ player' \in PlayerFor(f)

Held(drawn) == UNION {drawn[l] : l \in Layers}

(* synchronizeFocus: the page may ask for no feature, which takes the        *)
(* selection back, for one that is held, for one that is not, or nothing.    *)
(* It runs when the page's focus changes and at the end of every handler     *)
(* that loads; layers that are hidden may hold features still.               *)
Focus(kept, drawn) == \E f \in {kept, Nothing} \cup Held(drawn) : Select(f)
SynchronizeFocus ==
  /\ Focus(selected, collections) /\ UNCHANGED <<enabled, collections>>

(* A click on a feature. *)
SelectFeature(f) ==
  /\ f.layer \in enabled /\ f \in collections[f.layer] /\ Select(f)
  /\ UNCHANGED <<enabled, collections>>

(* The button of the sheet. *)
CloseSheet ==
  /\ selected # Nothing /\ Select(Nothing)
  /\ UNCHANGED <<enabled, collections>>

(* The answer of a load: layers that have failed keep what they have, and    *)
(* the selected feature is the one of the same id in its layer, or gone.     *)
Refreshed(answered, features) ==
  LET same == {f \in features : selected # Nothing /\ f.id = selected.id /\ f.layer = selected.layer}
  IN IF selected = Nothing \/ selected.layer \notin answered THEN selected
     ELSE IF same = {} THEN Nothing ELSE CHOOSE f \in same : TRUE

LoadAnswer(answered, features) ==
  /\ \A f, g \in features : f.id = g.id => f = g
  /\ collections' = [l \in Layers |-> IF l \in answered THEN {f \in features : f.layer = l}
                                      ELSE collections[l]]
  /\ Focus(Refreshed(answered, features), collections')
  /\ UNCHANGED enabled

(* The positions of aircraft are moved and read again under the selection,   *)
(* which stays what it was.                                                  *)
AircraftMove(features) ==
  /\ "aircraft" \in Layers /\ \A f \in features : f.layer = "aircraft"
  /\ collections' = [collections EXCEPT !["aircraft"] = features]
  /\ UNCHANGED <<enabled, selected, impact, player>>

(* toggleLayer, of a map that keeps its own list of layers: the selection is *)
(* taken back, but a layer that is hidden keeps its collection, in which the *)
(* focus may find a feature again at once.                                   *)
ToggleLayer(layer) ==
  /\ enabled' = IF layer \in enabled THEN enabled \ {layer} ELSE enabled \cup {layer}
  /\ Focus(Nothing, collections) /\ UNCHANGED collections

(* synchronizeVisibleLayers, of a map whose layers the page lists: a layer   *)
(* that is hidden is forgotten, and with it a selection of that layer.       *)
SynchronizeVisibleLayers(next) ==
  /\ enabled' = next
  /\ collections' = [l \in Layers |-> IF l \in enabled \ next THEN {} ELSE collections[l]]
  /\ Focus(IF selected # Nothing /\ selected.layer \in next THEN selected ELSE Nothing,
           collections')

Next ==
  \/ ReadsSettle \/ BodyFails \/ StreamReady \/ StreamPlays \/ StreamFails
  \/ CloseSheet \/ SynchronizeFocus
  \/ \E b \in BOOLEAN : BodiesRead(b) \/ ScoreAnswer(b)
  \/ \E f \in Features : SelectFeature(f)
  \/ \E answered \in SUBSET enabled :
       \E features \in SUBSET {f \in Features : f.layer \in answered} :
         LoadAnswer(answered, features)
  \/ \E features \in SUBSET {f \in Features : f.layer = "aircraft"} : AircraftMove(features)
  \/ \E layer \in Layers : ToggleLayer(layer)
  \/ \E next \in SUBSET Layers : SynchronizeVisibleLayers(next)

Spec == Init /\ [][Next]_detailVars

(* ---- Properties ---- *)

(* Type of the state. *)
TypeOK ==
  /\ enabled \subseteq Layers /\ selected \in Features \cup {Nothing}
  /\ impact.status \in {"idle", "loading", "ready", "unavailable"}
  /\ impact.phase \in {"fetching", "bodies", "scoring", "done"}
  /\ player.status \in {"idle", "loading", "ready", "error"}
  /\ \A l \in Layers : collections[l] \subseteq {f \in Features : f.layer = l}

(* When the load for the selected place has ended, the panel shows this      *)
(* place and no other, in whatever phase the loads before it were aborted;   *)
(* and the player is ready only with the stream of the selected camera.      *)
DetailIsOfSelection ==
  /\ impact.phase = "done" /\ impact.status = "ready" => impact.of = PlaceOf(selected)
  /\ impact.phase = "done" => impact.status # "loading"
  /\ player.status = "ready" => player.source = UrlOf(selected)

(* The sheet shows a feature as its layer drew it last, be the layer hidden  *)
(* since: what a load has moved or taken away is not kept.  Aircraft are     *)
(* excepted, whose positions move on under the sheet.                        *)
SelectionIsHeld ==
  selected # Nothing /\ selected.layer # "aircraft" => selected \in collections[selected.layer]
=============================================================================
