-------------------------- MODULE MapPrivateLayers --------------------------
(***************************************************************************)
(* The private layers of the MapLibre map: the watch zones and assets of   *)
(* the account that is signed in.  Three parties each know an account: the *)
(* auth client ("auth"), whose token every request reads when it is made,  *)
(* React ("session", set by the event of the client) and the map ("owner", *)
(* set by an effect).  A request reads the token after it was started, is  *)
(* repeated once with a fresh token when it is refused, and may be         *)
(* answered when another account has signed in.                            *)
(***************************************************************************)
EXTENDS FiniteSets, Naturals

CONSTANTS
  Accounts,
  Nobody,      \* no account: not one of Accounts
  MaxSwitches, \* bound of the model: changes of account
  MaxReads     \* bound of the model: loads on their way at a time

VARIABLES
  auth,      \* the account of the auth client
  session,   \* useAuth().session, as the last commit saw it
  zonesOn,   \* visibleOverlayClasses has watch_zone
  attached,  \* mapLoaded, and not disposed
  owner,     \* currentPrivateOwnerKey
  wanted,    \* privateLayersRef
  reads,     \* loads on their way: [layers, token, retried, current]
  onMap,     \* whose data each private layer draws
  switches

accountVars == <<auth, session, switches>>
privateVars == <<accountVars, zonesOn, attached, owner, wanted, reads, onMap>>

PrivateLayers == {"watch-zones", "personal-assets"}
Unread == "unread"

(* operationalPrivateLayers of the dashboard.                                *)
LayersOf(user, zones) ==
  IF user = Nobody THEN {}
  ELSE {"personal-assets"} \cup (IF zones THEN {"watch-zones"} ELSE {})

(* loadPrivateLayers: older loads are void, a new one takes the layers that  *)
(* are wanted; without a map or a layer nothing happens.                     *)
Voided == {[r EXCEPT !.current = FALSE] : r \in reads}
Started(layers) ==
  [layers |-> layers, token |-> [l \in PrivateLayers |-> Unread],
   retried |-> {}, current |-> TRUE]
LoadPrivateLayers(layers) ==
  IF ~attached \/ layers = {} THEN reads ELSE Voided \cup {Started(layers)}

Bounded == Cardinality(reads) < MaxReads

(* clearPrivateLayers. *)
Cleared == [l \in PrivateLayers |-> Nobody]

(* synchronizePrivateLayers: a new owner clears the map before anything is   *)
(* asked for; the same owner only loses the layers no longer wanted.         *)
SynchronizePrivateLayers(user, layers) ==
  /\ owner' = user /\ wanted' = layers
  /\ IF user # owner
     THEN /\ onMap' = Cleared
          /\ reads' = IF user = Nobody \/ ~attached THEN Voided
                      ELSE Voided \cup {Started(layers)}
     ELSE /\ onMap' = [l \in PrivateLayers |-> IF l \in layers THEN onMap[l] ELSE Nobody]
          /\ reads' = IF layers = {} THEN Voided ELSE LoadPrivateLayers(layers)

(* Somebody signs in or out, here or in another tab.  The event of one       *)
(* change reaches React before the next change, which takes a request.       *)
AuthChanges(u) ==
  /\ session = auth /\ u # auth /\ switches < MaxSwitches
  /\ auth' = u /\ switches' = switches + 1
  /\ UNCHANGED <<session, zonesOn, attached, owner, wanted, reads, onMap>>

(* getSession of the provider, or onAuthStateChange: a commit with the       *)
(* effect of the map.                                                        *)
SetSession ==
  /\ session # auth /\ Bounded
  /\ session' = auth
  /\ SynchronizePrivateLayers(auth, LayersOf(auth, zonesOn))
  /\ UNCHANGED <<auth, switches, zonesOn, attached>>

(* The class of watch zones is switched: the effect depends on the layers of *)
(* a session, and does not run without one.                                  *)
ToggleZones ==
  /\ Bounded /\ zonesOn' = ~zonesOn
  /\ IF session = Nobody THEN UNCHANGED <<owner, wanted, reads, onMap>>
     ELSE SynchronizePrivateLayers(session, LayersOf(session, ~zonesOn))
  /\ UNCHANGED <<accountVars, attached>>

(* markReady: the style is loaded.                                           *)
Attach ==
  /\ ~attached /\ Bounded /\ attached' = TRUE
  /\ reads' = IF wanted = {} THEN reads ELSE Voided \cup {Started(wanted)}
  /\ UNCHANGED <<accountVars, zonesOn, owner, wanted, onMap>>

(* The map was moved, or its style exchanged.                                *)
MoveEnd ==
  /\ attached /\ Bounded /\ wanted # {}
  /\ reads' = LoadPrivateLayers(wanted)
  /\ UNCHANGED <<accountVars, zonesOn, attached, owner, wanted, onMap>>

(* authenticatedFetch: the token is read when the request is made, ...       *)
Replace(r, q) == reads' = (reads \ {r}) \cup {q}
ReadToken(r, l) ==
  /\ l \in r.layers /\ r.token[l] = Unread
  /\ Replace(r, [r EXCEPT !.token[l] = auth])
  /\ UNCHANGED <<accountVars, zonesOn, attached, owner, wanted, onMap>>

(* ... and once more, after a refresh, when the first answer is a 401.       *)
RetryWithFreshToken(r, l) ==
  /\ l \in r.layers \ r.retried /\ r.token[l] # Unread /\ auth # Nobody
  /\ Replace(r, [r EXCEPT !.token[l] = auth, !.retried = @ \cup {l}])
  /\ UNCHANGED <<accountVars, zonesOn, attached, owner, wanted, onMap>>

\* Mutant: the revision is not compared.
StillAttached(r) == attached

(* The guard of an answer. *)
StillWanted(r) == attached /\ r.current

(* All layers of a load have been answered or have failed; without a token   *)
(* the answer is a failure.  A failed layer keeps what it draws.             *)
Answer(r, answered) ==
  /\ \A l \in r.layers : r.token[l] # Unread
  /\ answered \subseteq {l \in r.layers : r.token[l] # Nobody}
  /\ reads' = reads \ {r}
  /\ onMap' = IF StillWanted(r)
              THEN [l \in PrivateLayers |-> IF l \in answered THEN r.token[l] ELSE onMap[l]]
              ELSE onMap
  /\ UNCHANGED <<accountVars, zonesOn, attached, owner, wanted>>

(* teardown: another page, or the context of WebGL is lost.                  *)
Teardown ==
  /\ attached /\ attached' = FALSE
  /\ reads' = Voided /\ onMap' = Cleared
  /\ UNCHANGED <<accountVars, zonesOn, owner, wanted>>

Init ==
  /\ auth \in Accounts \cup {Nobody} /\ session = Nobody /\ switches = 0
  /\ zonesOn = TRUE /\ attached = FALSE /\ owner = Nobody /\ wanted = {}
  /\ reads = {} /\ onMap = Cleared

Next ==
  \/ \E u \in Accounts \cup {Nobody} : AuthChanges(u)
  \/ SetSession \/ ToggleZones \/ Attach \/ MoveEnd \/ Teardown
  \/ \E r \in reads :
       \/ \E l \in r.layers : ReadToken(r, l) \/ RetryWithFreshToken(r, l)
       \/ \E answered \in SUBSET r.layers : Answer(r, answered)

Spec == Init /\ [][Next]_privateVars

(* ---- Properties ---- *)

(* Type of the state. *)
TypeOK ==
  /\ {auth, session, owner} \subseteq Accounts \cup {Nobody}
  /\ wanted \subseteq PrivateLayers /\ zonesOn \in BOOLEAN /\ attached \in BOOLEAN
  /\ onMap \in [PrivateLayers -> Accounts \cup {Nobody}]
  /\ \A r \in reads : r.layers \subseteq PrivateLayers /\ r.current \in BOOLEAN

(* Once the event of a change of account has arrived, the map draws private  *)
(* data of that account only, and only of the layers it asks for: answers    *)
(* to requests of the account before, and to requests that took their token  *)
(* while the account changed, never come to the map.                         *)
PrivateIsMine ==
  session = auth =>
    \A l \in PrivateLayers : onMap[l] # Nobody => onMap[l] = session /\ l \in wanted
=============================================================================
