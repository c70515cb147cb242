------------------------------ MODULE WebClientProofs ------------------------
(***************************************************************************)
(* What the pages and the maps of the web client show is what was read,    *)
(* asked for and allowed: the properties of WebClient, for any accounts,   *)
(* alerts, events, sections, sources and users, and any number of          *)
(* requests.                                                               *)
(*                                                                         *)
(* A behaviour of the client is one of one component.  The invariant of    *)
(* the client says that it satisfies the invariant of that component       *)
(* (WebMapProofs, WebPagesProofs): the client starts as the component      *)
(* starts, and a step of the client is one of the component or none.       *)
(***************************************************************************)
EXTENDS WebMapProofs, WebPagesProofs

(* The invariant of the client: that of its component.                       *)
ClientInv ==
  /\ part \in Parts
  /\ part = "warnings" => WarningsInv
  /\ part = "focus" => FocusInv
  /\ part = "public" => PublicInv
  /\ part = "private" => PrivateInv
  /\ part = "style" => StyleInv
  /\ part = "briefing" => BriefingInv
  /\ part = "copilot" => CopilotInv
  /\ part = "shell" => ShellInv /\ ShellFrame
  /\ part = "detail" => DetailInv
  /\ part = "settings" => SettingsInv
  /\ part = "admins" => AdminsInv
  /\ part = "alerts" => AlertsInv

(* The bounds of the model are numbers.                                      *)
LEMMA Bounded ==
  /\ MaxTokens \in Nat /\ MaxEvents \in Nat /\ MaxVersion \in Nat
  /\ BriefingBounds /\ CopilotBounds /\ AdminsBounds
BY WebClientAssumption DEF WebClientAssumption, BriefingBounds, CopilotBounds, AdminsBounds

---------------------------------------------------------------------------
(* A step of the client is one of its component, or none: the handlers of a  *)
(* page change no state of another.                                          *)
LEMMA ClientSteps ==
  ASSUME [Next]_webClientVars
  PROVE  /\ part' = part
         /\ part = "warnings" => [Warnings!Next]_(Warnings!bmkgVars)
         /\ part = "focus" => [Focus!Next]_(Focus!focusVars)
         /\ part = "public" => [Public!Next]_(Public!publicVars)
         /\ part = "private" => [Private!Next]_(Private!privateVars)
         /\ part = "style" => [Style!Next]_(Style!styleVars)
         /\ part = "briefing" => [Briefing!Next]_(Briefing!briefingVars)
         /\ part = "copilot" => [Copilot!Next]_(Copilot!chatVars)
         /\ part = "shell" => [Shell!Next]_(Shell!webVars)
         /\ part = "detail" => [Detail!Next]_(Detail!detailVars)
         /\ part = "settings" => [Settings!Next]_(Settings!settingsVars)
         /\ part = "admins" => [Admins!Next]_(Admins!usersVars)
         /\ part = "alerts" => [Alerts!Next]_(Alerts!alertsVars)
<1> USE DEF Next, OthersStay, webClientVars, WarningsStep, FocusStep,
       PublicStep, PrivateStep, StyleStep, BriefingStep, CopilotStep, ShellStep, DetailStep,
       SettingsStep, AdminsStep, AlertsStep
<1>1. part' = part
  OBVIOUS
<1>2. ASSUME part = "warnings" PROVE [Warnings!Next]_(Warnings!bmkgVars)
  BY <1>2 DEF warningsVars, Warnings!bmkgVars, Warnings!source, Warnings!held
<1>3. ASSUME part = "focus" PROVE [Focus!Next]_(Focus!focusVars)
  BY <1>3 DEF focusVars, Focus!focusVars, Focus!data, Focus!counters
<1>4. ASSUME part = "public" PROVE [Public!Next]_(Public!publicVars)
  BY <1>4 DEF publicVars, Public!publicVars, Public!controls
<1>5. ASSUME part = "private" PROVE [Private!Next]_(Private!privateVars)
  BY <1>5 DEF privateVars, Private!privateVars, Private!accountVars
<1>6. ASSUME part = "style" PROVE [Style!Next]_(Style!styleVars)
  BY <1>6 DEF styleVars, Style!styleVars, Style!basemap, Style!images
<1>7. ASSUME part = "briefing" PROVE [Briefing!Next]_(Briefing!briefingVars)
  BY <1>7 DEF briefingVars, Briefing!briefingVars, Briefing!accountVars, Briefing!pageVars,
         Briefing!aiVars, Briefing!serverVars
<1>8. ASSUME part = "copilot" PROVE [Copilot!Next]_(Copilot!chatVars)
  BY <1>8 DEF copilotVars, Copilot!chatVars
<1>9. ASSUME part = "shell" PROVE [Shell!Next]_(Shell!webVars)
  BY <1>9 DEF shellVars, Shell!webVars, Shell!shellVars, Shell!authVars, Shell!gateVars
<1>10. ASSUME part = "detail" PROVE [Detail!Next]_(Detail!detailVars)
  BY <1>10 DEF detailVars, Detail!detailVars
<1>11. ASSUME part = "settings" PROVE [Settings!Next]_(Settings!settingsVars)
  BY <1>11 DEF settingsVars, Settings!settingsVars, Settings!serverVars, Settings!pageVars
<1>12. ASSUME part = "admins" PROVE [Admins!Next]_(Admins!usersVars)
  BY <1>12 DEF adminsVars, Admins!usersVars
<1>13. ASSUME part = "alerts" PROVE [Alerts!Next]_(Alerts!alertsVars)
  BY <1>13 DEF alertsVars, Alerts!alertsVars
<1> QED
  BY <1>1, <1>2, <1>3, <1>4, <1>5, <1>6, <1>7, <1>8, <1>9, <1>10, <1>11, <1>12,
     <1>13

---------------------------------------------------------------------------
(* The client starts as its component does.                                  *)
LEMMA ClientInit == Init => ClientInv
<1> SUFFICES ASSUME Init PROVE ClientInv
  OBVIOUS
<1>1. part = "warnings" => WarningsInv
  BY WarningsInitInv, WebClientAssumption DEF Init, WarningsStart, WebClientAssumption
<1>2. part = "focus" => FocusInv
  BY FocusInitInv, WebClientAssumption DEF Init, FocusStart, WebClientAssumption
<1>3. part = "public" => PublicInv
  BY PublicInitInv, WebClientAssumption DEF Init, PublicStart, WebClientAssumption
<1>4. part = "private" => PrivateInv
  BY PrivateInitInv DEF Init, PrivateStart
<1>5. part = "style" => StyleInv
  BY StyleInitInv, Bounded DEF Init, StyleStart
<1>6. part = "briefing" => BriefingInv
  BY BriefingInitInv, Bounded DEF Init, BriefingStart
<1>7. part = "copilot" => CopilotInv
  BY CopilotInitInv, Bounded DEF Init, CopilotStart
<1>8. part = "shell" => ShellInv /\ ShellFrame
  BY ShellInitInv, ShellInitFrame, WebClientAssumption, Bounded
       DEF Init, ShellStart, WebClientAssumption
<1>9. part = "detail" => DetailInv
  BY DetailInitInv DEF Init, DetailStart
<1>10. part = "settings" => SettingsInv
  BY SettingsInitInv, Bounded DEF Init, SettingsStart
<1>11. part = "admins" => AdminsInv
  BY AdminsInitInv, Bounded DEF Init, AdminsStart
<1>12. part = "alerts" => AlertsInv
  BY AlertsInitInv, WebClientAssumption DEF Init, AlertsStart, WebClientAssumption
<1> QED
  BY <1>1, <1>2, <1>3, <1>4, <1>5, <1>6, <1>7, <1>8, <1>9, <1>10, <1>11, <1>12
       DEF Init, ClientInv

(* A step keeps the component, and its invariant.                            *)
LEMMA ClientStep == ClientInv /\ [Next]_webClientVars => ClientInv'
<1> SUFFICES ASSUME ClientInv, [Next]_webClientVars PROVE ClientInv'
  OBVIOUS
<1>1. ASSUME part = "warnings" PROVE part' = "warnings" /\ WarningsInv'
  <2>1. part' = "warnings" /\ [Warnings!Next]_(Warnings!bmkgVars)
    BY <1>1, ClientSteps
  <2>2. WarningsInv
    BY <1>1 DEF ClientInv
  <2>3. QED
    BY <2>1, <2>2, WarningsStepInv, WebClientAssumption DEF WebClientAssumption
<1>2. ASSUME part = "focus" PROVE part' = "focus" /\ FocusInv'
  <2>1. part' = "focus" /\ [Focus!Next]_(Focus!focusVars)
    BY <1>2, ClientSteps
  <2>2. FocusInv
    BY <1>2 DEF ClientInv
  <2>3. QED
    BY <2>1, <2>2, FocusStepInv, WebClientAssumption DEF WebClientAssumption
<1>3. ASSUME part = "public" PROVE part' = "public" /\ PublicInv'
  <2>1. part' = "public" /\ [Public!Next]_(Public!publicVars)
    BY <1>3, ClientSteps
  <2>2. PublicInv
    BY <1>3 DEF ClientInv
  <2>3. QED
    BY <2>1, <2>2, PublicStepInv, WebClientAssumption DEF WebClientAssumption
<1>4. ASSUME part = "private" PROVE part' = "private" /\ PrivateInv'
  <2>1. part' = "private" /\ [Private!Next]_(Private!privateVars)
    BY <1>4, ClientSteps
  <2>2. PrivateInv
    BY <1>4 DEF ClientInv
  <2>3. QED
    BY <2>1, <2>2, PrivateStepInv
<1>5. ASSUME part = "style" PROVE part' = "style" /\ StyleInv'
  <2>1. part' = "style" /\ [Style!Next]_(Style!styleVars)
    BY <1>5, ClientSteps
  <2>2. StyleInv
    BY <1>5 DEF ClientInv
  <2>3. QED
    BY <2>1, <2>2, StyleStepInv, Bounded
<1>6. ASSUME part = "briefing" PROVE part' = "briefing" /\ BriefingInv'
  <2>1. part' = "briefing" /\ [Briefing!Next]_(Briefing!briefingVars)
    BY <1>6, ClientSteps
  <2>2. BriefingInv
    BY <1>6 DEF ClientInv
  <2>3. QED
    BY <2>1, <2>2, BriefingStepInv, Bounded
<1>7. ASSUME part = "copilot" PROVE part' = "copilot" /\ CopilotInv'
  <2>1. part' = "copilot" /\ [Copilot!Next]_(Copilot!chatVars)
    BY <1>7, ClientSteps
  <2>2. CopilotInv
    BY <1>7 DEF ClientInv
  <2>3. QED
    BY <2>1, <2>2, CopilotStepInv, Bounded
<1>8. ASSUME part = "shell" PROVE part' = "shell" /\ ShellInv' /\ ShellFrame'
  <2>1. part' = "shell" /\ [Shell!Next]_(Shell!webVars)
    BY <1>8, ClientSteps
  <2>2. ShellInv /\ ShellFrame
    BY <1>8 DEF ClientInv
  <2>3. QED
    BY <2>1, <2>2, ShellStepInv, ShellStepFrame, Bounded
<1>9. ASSUME part = "detail" PROVE part' = "detail" /\ DetailInv'
  <2>1. part' = "detail" /\ [Detail!Next]_(Detail!detailVars)
    BY <1>9, ClientSteps
  <2>2. DetailInv
    BY <1>9 DEF ClientInv
  <2>3. QED
    BY <2>1, <2>2, DetailStepInv
<1>10. ASSUME part = "settings" PROVE part' = "settings" /\ SettingsInv'
  <2>1. part' = "settings" /\ [Settings!Next]_(Settings!settingsVars)
    BY <1>10, ClientSteps
  <2>2. SettingsInv
    BY <1>10 DEF ClientInv
  <2>3. QED
    BY <2>1, <2>2, SettingsStepInv, Bounded
<1>11. ASSUME part = "admins" PROVE part' = "admins" /\ AdminsInv'
  <2>1. part' = "admins" /\ [Admins!Next]_(Admins!usersVars)
    BY <1>11, ClientSteps
  <2>2. AdminsInv
    BY <1>11 DEF ClientInv
  <2>3. QED
    BY <2>1, <2>2, AdminsStepInv, Bounded
<1>12. ASSUME part = "alerts" PROVE part' = "alerts" /\ AlertsInv'
  <2>1. part' = "alerts" /\ [Alerts!Next]_(Alerts!alertsVars)
    BY <1>12, ClientSteps
  <2>2. AlertsInv
    BY <1>12 DEF ClientInv
  <2>3. QED
    BY <2>1, <2>2, AlertsStepInv, WebClientAssumption DEF WebClientAssumption
<1> QED
  BY <1>1, <1>2, <1>3, <1>4, <1>5, <1>6, <1>7, <1>8, <1>9, <1>10, <1>11, <1>12
       DEF ClientInv, Parts

(* Every reachable state satisfies it.                                       *)
LEMMA ClientIsInv == Spec => []ClientInv
BY ClientInit, ClientStep, PTL DEF Spec

---------------------------------------------------------------------------
(* The state of whichever component it is is well typed: OperationalMap,     *)
(* ExecutiveOverview, BmkgWarningsPanel, BriefingPage, CopilotPage, App,     *)
(* OfficialSourcesSettingsPage, AdminUsersPage and AlertsPage.               *)
THEOREM TypeCorrect == Spec => []TypeOK
<1>1. ClientInv => TypeOK
  <2> SUFFICES ASSUME ClientInv PROVE TypeOK
    OBVIOUS
  <2>1. part = "warnings" => Warnings!TypeOK
    BY DEF WarningsInv, ClientInv
  <2>2. part = "focus" => Focus!TypeOK
    BY FocusIsTyped, WebClientAssumption DEF WebClientAssumption, ClientInv
  <2>3. part = "public" => Public!TypeOK
    BY DEF PublicInv, ClientInv
  <2>4. part = "private" => Private!TypeOK
    BY PrivateIsTyped DEF ClientInv
  <2>5. part = "style" => Style!TypeOK
    BY StyleIsTyped, Bounded DEF ClientInv
  <2>6. part = "briefing" => Briefing!TypeOK
    BY BriefingIsTyped, Bounded DEF ClientInv
  <2>7. part = "copilot" => Copilot!TypeOK
    BY CopilotIsTyped, Bounded DEF ClientInv
  <2>8. part = "shell" => Shell!TypeOK
    BY ShellIsTyped, Bounded DEF ClientInv
  <2>9. part = "detail" => Detail!TypeOK
    BY DetailIsTyped DEF ClientInv
  <2>10. part = "settings" => Settings!TypeOK
    BY SettingsIsTyped DEF ClientInv
  <2>11. part = "admins" => Admins!TypeOK
    BY AdminsIsTyped DEF ClientInv
  <2>12. part = "alerts" => Alerts!TypeOK
    BY AlertsIsTyped DEF ClientInv
  <2> QED
    BY <2>1, <2>2, <2>3, <2>4, <2>3, <2>4, <2>5, <2>6, <2>7, <2>8, <2>9, <2>10, <2>11, <2>12
         DEF TypeOK
<1> QED
  BY <1>1, ClientIsInv, PTL

(* The panel says that there is no warning, or that the air is good, only    *)
(* when the feed was read without doubt about it: load of useBmkgWarnings,   *)
(* with three endpoints that fail on their own.                              *)
THEOREM CalmIsRead == Spec => []CalmIsConfirmed
<1>1. ClientInv => CalmIsConfirmed
  BY WarningsIsCalm DEF ClientInv, CalmIsConfirmed
<1> QED
  BY <1>1, ClientIsInv, PTL

(* Either map engine flies where the last click asked it to, or nowhere:     *)
(* handleEventClick, the operationalFocusRequest of ExecutiveOverview and    *)
(* the effects of OperationalMap and RiskMap, late data included.            *)
THEOREM FlightIsAsked == Spec => []FliesWhereAsked
<1>1. ClientInv => FliesWhereAsked
  BY DEF ClientInv, FocusInv, FliesWhereAsked
<1> QED
  BY <1>1, ClientIsInv, PTL

(* Layers are those of the view that is shown and of the enabled ones, and   *)
(* overlays the chosen ones, whatever load, frame or style comes late:       *)
(* loadPublicLayers, synchronizeVisibleLayers, rehydrateOperationalLayers.   *)
THEOREM LayersAreWanted == Spec => []DrawnIsWanted
<1>1. ClientInv => DrawnIsWanted
  BY DEF ClientInv, PublicInv, StyleInv, DrawnIsWanted
<1> QED
  BY <1>1, ClientIsInv, PTL

(* No answer to a request of another account comes to the map once React     *)
(* knows who is signed in: clearPrivateLayers and the revision of a load.    *)
THEOREM DrawsMine == Spec => []PrivateIsMine
<1>1. ClientInv => PrivateIsMine
  BY PrivateDrawsMine DEF ClientInv, PrivateIsMine
<1> QED
  BY <1>1, ClientIsInv, PTL

(* No token of the human check is sent with two calls: submit of LoginGate,  *)
(* which resets the widget when its call is answered.                        *)
THEOREM TokenIsSpentOnce == Spec => []TokenUsedOnce
<1>1. ClientInv => TokenUsedOnce
  BY ShellIsSentOnce, Bounded DEF ClientInv, TokenUsedOnce
<1> QED
  BY <1>1, ClientIsInv, PTL

(* Generated text stands under what it answers and is made from what it      *)
(* needs: loadAiBriefing and stopAiStream of BriefingPage, the workflow of   *)
(* the briefing, handleSend of CopilotPage.                                  *)
THEOREM TextIsInPlace == Spec => []TextIsOfItsRequest
<1>1. ClientInv => TextIsOfItsRequest
  BY DEF ClientInv, BriefingInv, CopilotInv, TextIsOfItsRequest
<1> QED
  BY <1>1, ClientIsInv, PTL

(* What is busy has a request of its own on its way: setAiLoading, setBusy   *)
(* of LoginGate, busy of AdminUsersPage, acknowledgingId and loadingCardId   *)
(* of AlertsPage.  No button waits for an answer that has come, and in the   *)
(* login and the chat none is freed by the answer to another, nor in the     *)
(* users' page until a deletion is confirmed over another call.              *)
THEOREM BusyIsAnswered == Spec => []BusyHasRequest
<1>1. ClientInv => BusyHasRequest
  BY CopilotIsTyped, ShellIsOneCall, AlertsItsOwn, Bounded
     DEF ClientInv, BriefingInv, AdminsInv, BusyHasRequest
<1> QED
  BY <1>1, ClientIsInv, PTL

(* What is shown is what was selected or asked for, or a failure is shown:   *)
(* MapDetailSheet with its estimate and its player, and AlertsPage with its  *)
(* optimistic acknowledgements.                                              *)
THEOREM ShownIsTrue == Spec => []ShownIsAsked
<1>1. ClientInv => ShownIsAsked
  BY AlertsIsSaid, DetailIsShown DEF ClientInv, ShownIsAsked
<1> QED
  BY <1>1, ClientIsInv, PTL

(* Only a version the worker once ran without writing is offered to be       *)
(* activated: activationReadiness over two waves of overlapping loads.       *)
THEOREM OffersProven == Spec => []ReadyIsProven
<1>1. ClientInv => ReadyIsProven
  BY SettingsIsProven DEF ClientInv, ReadyIsProven
<1> QED
  BY <1>1, ClientIsInv, PTL
==============================================================================
