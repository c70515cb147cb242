------------------------------ MODULE WebClient ------------------------------
(***************************************************************************)
(* The components of the web client side by side.  They share no state, so *)
(* that one behaviour is of one of them: "part" names it, the variables of *)
(* the others are Off and stay so.  Each has constants of its own.         *)
(***************************************************************************)
EXTENDS Naturals

CONSTANTS
  Advisories, Period, MaxClock, MaxWarningChanges,             \* BmkgWarnings
  Events, Regions, MapAlerts, Unplaced, MaxAsks, MaxDataChanges, \* MapFocus
  MaxViews, MaxPresses, MaxPublicLoads,                        \* MapPublicLayers
  Accounts, NoAccount, MaxSwitches, MaxReads,                  \* MapPrivateLayers
  MaxEvents,                                                   \* MapStyle
  MaxStreams, MaxSignings,                                     \* BriefingStream
  MaxQuestions, MaxVisits,                                     \* CopilotChat
  Sections, Emails, MaxTokens, MaxLeaves,                      \* WebShell
  Places, TrustedStreams, NoFeature,                           \* MapDetail
  Sources, MaxVersion, MaxSettingsLoads, MaxEdits,             \* SourceSettings
  Users, MaxAdminLoads, MaxAdminCalls,                         \* AdminUsers
  PageAlerts, MaxWork                                          \* AlertsPage

VARIABLES
  part, \* the component that this behaviour is of
  warningsClock, warningsIssued, changes, integrated, hidden, due, flight,
  warningsRows, warningsActive, loaded, uncertain, errors, warningsLoading,
  now,
  engine, handedAlert, onDashboard, focusSelected, eventAsk, alertAsk, held,
  confirmed, features, mapReady, lastKey, flown, focusAsked, asks, revisions,
  view, presses, newsOnly, officialOn, extras, enabled, loadsOut, snaps,
  debounce, states, drawn, mapUp,
  auth, privateSession, zonesOn, attached, privateOwner, wanted, reads, onMap,
  privateSwitches,
  theme, style, fetches, darkCached, incoming, listeners, chosen, frames,
  styleAsked, overlay, tabHidden, timers, phase, events,
  signed, briefingSwitches, page, pending, ai, live, aiBriefing,
  briefingActive, streams, cached,
  messages, copilotLoading, abortRef, requests, visits,
  section, menu, account, shellSession, checking, gate, widget,
  shellIssued, shellCalls, spent, leaves,
  detailEnabled, collections, detailSelected, impact, player,
  settingsRows, shadows, polled, items, evidence, approved,
  histories, settingsBusy, settingsLoads, ops, workbook, edits,
  accounts, adminsRows, query, pause, initialLoading, adminsLoads, adminsBusy,
  open, confirmDelete, notice, generatedLink, error, adminsCalls, overlapped,
  acknowledged, alertsRows, unacknowledged, alertsLoading, refreshing,
  alertsError, acknowledgingId, actionCards, loadingCardId, alertsLoads, acks,
  cardReads, work

Warnings == INSTANCE BmkgWarnings WITH
    Items <- Advisories, MaxChanges <- MaxWarningChanges,
    clock <- warningsClock, issued <- warningsIssued, rows <- warningsRows,
    active <- warningsActive, loading <- warningsLoading
Focus == INSTANCE MapFocus WITH
    Alerts <- MapAlerts, MaxChanges <- MaxDataChanges,
    selected <- focusSelected, asked <- focusAsked
Public == INSTANCE MapPublicLayers WITH
    MaxLoads <- MaxPublicLoads
Private == INSTANCE MapPrivateLayers WITH
    Nobody <- NoAccount,
    session <- privateSession, owner <- privateOwner, switches <- privateSwitches
Style == INSTANCE MapStyle WITH
    asked <- styleAsked
Briefing == INSTANCE BriefingStream WITH
    MaxSwitches <- MaxSignings,
    switches <- briefingSwitches, active <- briefingActive
Copilot == INSTANCE CopilotChat WITH
    loading <- copilotLoading
Shell == INSTANCE WebShell WITH
    session <- shellSession, issued <- shellIssued, calls <- shellCalls
Detail == INSTANCE MapDetail WITH
    Features <- Places, Trusted <- TrustedStreams, Nothing <- NoFeature,
    enabled <- detailEnabled, selected <- detailSelected
Settings == INSTANCE SourceSettings WITH
    MaxLoads <- MaxSettingsLoads,
    rows <- settingsRows, busy <- settingsBusy, loads <- settingsLoads
Admins == INSTANCE AdminUsers WITH
    MaxLoads <- MaxAdminLoads, MaxCalls <- MaxAdminCalls,
    rows <- adminsRows, loads <- adminsLoads, busy <- adminsBusy, calls <- adminsCalls
Alerts == INSTANCE AlertsPage WITH
    Alerts <- PageAlerts,
    rows <- alertsRows, loading <- alertsLoading, error <- alertsError,
    loads <- alertsLoads

(* The assumptions of the components, and bounds that are numbers.           *)
ASSUME WebClientAssumption ==
  /\ Warnings!PanelAssumption /\ Focus!FocusAssumption
  /\ Public!LayersAssumption /\ Alerts!PageAssumption /\ Shell!SectionsAssumption
  /\ {MaxSwitches, MaxReads, MaxEvents, MaxStreams, MaxSignings, MaxQuestions,
      MaxVisits, MaxTokens, MaxLeaves, MaxVersion, MaxSettingsLoads, MaxEdits,
      MaxAdminLoads, MaxAdminCalls} \subseteq Nat

warningsVars ==
  <<warningsClock, warningsIssued, changes, integrated, hidden, due, flight,
  warningsRows, warningsActive, loaded, uncertain, errors, warningsLoading,
  now>>
focusVars ==
  <<engine, handedAlert, onDashboard, focusSelected, eventAsk, alertAsk, held,
  confirmed, features, mapReady, lastKey, flown, focusAsked, asks, revisions>>
publicVars ==
  <<view, presses, newsOnly, officialOn, extras, enabled, loadsOut, snaps,
  debounce, states, drawn, mapUp>>
privateVars ==
  <<auth, privateSession, zonesOn, attached, privateOwner, wanted, reads,
  onMap, privateSwitches>>
styleVars ==
  <<theme, style, fetches, darkCached, incoming, listeners, chosen, frames,
  styleAsked, overlay, tabHidden, timers, phase, events>>
briefingVars ==
  <<signed, briefingSwitches, page, pending, ai, live, aiBriefing,
  briefingActive, streams, cached>>
copilotVars ==
  <<messages, copilotLoading, abortRef, requests, visits>>
shellVars ==
  <<section, menu, account, shellSession, checking, gate, widget,
  shellIssued, shellCalls, spent, leaves>>
detailVars ==
  <<detailEnabled, collections, detailSelected, impact, player>>
settingsVars ==
  <<settingsRows, shadows, polled, items, evidence, approved,
  histories, settingsBusy, settingsLoads, ops, workbook, edits>>
adminsVars ==
  <<accounts, adminsRows, query, pause, initialLoading, adminsLoads,
  adminsBusy, open, confirmDelete, notice, generatedLink, error, adminsCalls,
  overlapped>>
alertsVars ==
  <<acknowledged, alertsRows, unacknowledged, alertsLoading, refreshing,
  alertsError, acknowledgingId, actionCards, loadingCardId, alertsLoads, acks,
  cardReads, work>>

Parts ==
  {"warnings", "focus", "public", "private", "style", "briefing",
   "copilot", "shell", "detail", "settings", "admins", "alerts"}
Off == "off"

(* ---- Initial states ---- *)

WarningsStart ==
  IF part = "warnings" THEN Warnings!Init
  ELSE /\ warningsClock = Off /\ warningsIssued = Off /\ changes = Off
       /\ integrated = Off /\ hidden = Off /\ due = Off /\ flight = Off
       /\ warningsRows = Off /\ warningsActive = Off /\ loaded = Off
       /\ uncertain = Off /\ errors = Off /\ warningsLoading = Off /\ now = Off
FocusStart ==
  IF part = "focus" THEN Focus!Init
  ELSE /\ engine = Off /\ handedAlert = Off /\ onDashboard = Off
       /\ focusSelected = Off /\ eventAsk = Off /\ alertAsk = Off /\ held = Off
       /\ confirmed = Off /\ features = Off /\ mapReady = Off /\ lastKey = Off
       /\ flown = Off /\ focusAsked = Off /\ asks = Off /\ revisions = Off
PublicStart ==
  IF part = "public" THEN Public!Init
  ELSE /\ view = Off /\ presses = Off /\ newsOnly = Off /\ officialOn = Off
       /\ extras = Off /\ enabled = Off /\ loadsOut = Off /\ snaps = Off
       /\ debounce = Off /\ states = Off /\ drawn = Off /\ mapUp = Off
PrivateStart ==
  IF part = "private" THEN Private!Init
  ELSE /\ auth = Off /\ privateSession = Off /\ zonesOn = Off /\ attached = Off
       /\ privateOwner = Off /\ wanted = Off /\ reads = Off /\ onMap = Off
       /\ privateSwitches = Off
StyleStart ==
  IF part = "style" THEN Style!Init
  ELSE /\ theme = Off /\ style = Off /\ fetches = Off /\ darkCached = Off
       /\ incoming = Off /\ listeners = Off /\ chosen = Off /\ frames = Off
       /\ styleAsked = Off /\ overlay = Off /\ tabHidden = Off
       /\ timers = Off /\ phase = Off /\ events = Off
BriefingStart ==
  IF part = "briefing" THEN Briefing!Init
  ELSE /\ signed = Off /\ briefingSwitches = Off /\ page = Off /\ pending = Off
       /\ ai = Off /\ live = Off /\ aiBriefing = Off /\ briefingActive = Off
       /\ streams = Off /\ cached = Off
CopilotStart ==
  IF part = "copilot" THEN Copilot!Init
  ELSE /\ messages = Off /\ copilotLoading = Off /\ abortRef = Off /\ requests = Off
       /\ visits = Off
ShellStart ==
  IF part = "shell" THEN Shell!Init
  ELSE /\ section = Off /\ menu = Off /\ account = Off
       /\ shellSession = Off /\ checking = Off /\ gate = Off /\ widget = Off
       /\ shellIssued = Off /\ shellCalls = Off /\ spent = Off /\ leaves = Off
DetailStart ==
  IF part = "detail" THEN Detail!Init
  ELSE /\ detailEnabled = Off /\ collections = Off /\ detailSelected = Off
       /\ impact = Off /\ player = Off
SettingsStart ==
  IF part = "settings" THEN Settings!Init
  ELSE /\ settingsRows = Off /\ shadows = Off /\ polled = Off
       /\ items = Off /\ evidence = Off /\ approved = Off /\ histories = Off
       /\ settingsBusy = Off /\ settingsLoads = Off /\ ops = Off /\ workbook = Off
       /\ edits = Off
AdminsStart ==
  IF part = "admins" THEN Admins!Init
  ELSE /\ accounts = Off /\ adminsRows = Off /\ query = Off /\ pause = Off
       /\ initialLoading = Off /\ adminsLoads = Off /\ adminsBusy = Off
       /\ open = Off /\ confirmDelete = Off /\ notice = Off /\ generatedLink = Off
       /\ error = Off /\ adminsCalls = Off /\ overlapped = Off
AlertsStart ==
  IF part = "alerts" THEN Alerts!Init
  ELSE /\ acknowledged = Off /\ alertsRows = Off /\ unacknowledged = Off
       /\ alertsLoading = Off /\ refreshing = Off /\ alertsError = Off
       /\ acknowledgingId = Off /\ actionCards = Off /\ loadingCardId = Off
       /\ alertsLoads = Off /\ acks = Off /\ cardReads = Off /\ work = Off

Init ==
  /\ part \in Parts
  /\ WarningsStart /\ FocusStart /\ PublicStart /\ PrivateStart /\ StyleStart
  /\ BriefingStart /\ CopilotStart /\ ShellStart /\ DetailStart
  /\ SettingsStart /\ AdminsStart /\ AlertsStart

(* ---- Steps: of the part, while the others stay as they are ---- *)

WarningsStay == IF part = "warnings" THEN TRUE ELSE UNCHANGED warningsVars
FocusStay == IF part = "focus" THEN TRUE ELSE UNCHANGED focusVars
PublicStay == IF part = "public" THEN TRUE ELSE UNCHANGED publicVars
PrivateStay == IF part = "private" THEN TRUE ELSE UNCHANGED privateVars
StyleStay == IF part = "style" THEN TRUE ELSE UNCHANGED styleVars
BriefingStay == IF part = "briefing" THEN TRUE ELSE UNCHANGED briefingVars
CopilotStay == IF part = "copilot" THEN TRUE ELSE UNCHANGED copilotVars
ShellStay == IF part = "shell" THEN TRUE ELSE UNCHANGED shellVars
DetailStay == IF part = "detail" THEN TRUE ELSE UNCHANGED detailVars
SettingsStay == IF part = "settings" THEN TRUE ELSE UNCHANGED settingsVars
AdminsStay == IF part = "admins" THEN TRUE ELSE UNCHANGED adminsVars
AlertsStay == IF part = "alerts" THEN TRUE ELSE UNCHANGED alertsVars

OthersStay ==
  /\ UNCHANGED part
  /\ WarningsStay /\ FocusStay /\ PublicStay
  /\ PrivateStay /\ StyleStay /\ BriefingStay /\ CopilotStay /\ ShellStay
  /\ DetailStay /\ SettingsStay /\ AdminsStay /\ AlertsStay

WarningsStep == part = "warnings" /\ OthersStay /\ Warnings!Next
FocusStep == part = "focus" /\ OthersStay /\ Focus!Next
PublicStep == part = "public" /\ OthersStay /\ Public!Next
PrivateStep == part = "private" /\ OthersStay /\ Private!Next
StyleStep == part = "style" /\ OthersStay /\ Style!Next
BriefingStep == part = "briefing" /\ OthersStay /\ Briefing!Next
CopilotStep == part = "copilot" /\ OthersStay /\ Copilot!Next
ShellStep == part = "shell" /\ OthersStay /\ Shell!Next
DetailStep == part = "detail" /\ OthersStay /\ Detail!Next
SettingsStep == part = "settings" /\ OthersStay /\ Settings!Next
AdminsStep == part = "admins" /\ OthersStay /\ Admins!Next
AlertsStep == part = "alerts" /\ OthersStay /\ Alerts!Next

Next ==
  \/ WarningsStep \/ FocusStep \/ PublicStep \/ PrivateStep \/ StyleStep \/ BriefingStep
  \/ CopilotStep \/ ShellStep \/ DetailStep \/ SettingsStep
  \/ AdminsStep \/ AlertsStep

webClientVars ==
  <<part, warningsVars, focusVars, publicVars,
  privateVars, styleVars, briefingVars, copilotVars, shellVars, detailVars,
  settingsVars, adminsVars, alertsVars>>

Spec == Init /\ [][Next]_webClientVars

(* ---- Properties ---- *)

(* Type of the state of whichever component it is. *)
TypeOK ==
  /\ part = "warnings" => Warnings!TypeOK
  /\ part = "focus" => Focus!TypeOK
  /\ part = "public" => Public!TypeOK
  /\ part = "private" => Private!TypeOK
  /\ part = "style" => Style!TypeOK
  /\ part = "briefing" => Briefing!TypeOK
  /\ part = "copilot" => Copilot!TypeOK
  /\ part = "shell" => Shell!TypeOK
  /\ part = "detail" => Detail!TypeOK
  /\ part = "settings" => Settings!TypeOK
  /\ part = "admins" => Admins!TypeOK
  /\ part = "alerts" => Alerts!TypeOK

(* The panel says that there is no warning, or that the air is good, only    *)
(* when the feed was read without doubt about it (BmkgWarnings).             *)
CalmIsConfirmed == part = "warnings" => Warnings!CalmIsConfirmed

(* The map flies where the last click asked it to (MapFocus).                *)
FliesWhereAsked == part = "focus" => Focus!FliesWhereAsked

(* Layers are those of the view that is shown and of the enabled ones, and   *)
(* the overlays are the chosen ones (MapPublicLayers, MapStyle).             *)
DrawnIsWanted ==
  /\ part = "public" => Public!CurrentIsThisView /\ Public!DrawnIsEnabled
  /\ part = "style" => Style!DrawnIsChosen

(* Private layers draw the data of the account that is signed in             *)
(* (MapPrivateLayers).                                                       *)
PrivateIsMine == part = "private" => Private!PrivateIsMine

(* A token is sent once (WebShell).                                          *)
TokenUsedOnce == part = "shell" => Shell!TokenUsedOnce

(* Generated text stands under what it answers, and is made from what it     *)
(* needs (BriefingStream, CopilotChat).                                      *)
TextIsOfItsRequest ==
  /\ part = "briefing" => Briefing!TextIsOfItsRequest /\ Briefing!AiTextHasContext
  /\ part = "copilot" => Copilot!AnswersStandUnderTheirQuestion

(* What is busy has a request of its own on its way, in the login and the    *)
(* chat exactly while it has, and in the users' page too until a deletion is *)
(* confirmed over another call (BriefingStream, CopilotChat, WebShell,       *)
(* AdminUsers, AlertsPage).                                                  *)
BusyHasRequest ==
  /\ part = "briefing" => Briefing!LoadingHasStream
  /\ part = "copilot" => Copilot!BusyIsOpen
  /\ part = "shell" => Shell!BusyIsOneCall
  /\ part = "admins" => Admins!BusyIsThisCall
  /\ part = "alerts" => Alerts!WaitsForItsOwn

(* What is shown is what was selected or asked for, or a failure             *)
(* is shown (MapDetail, AlertsPage).                                         *)
ShownIsAsked ==
  /\ part = "detail" => Detail!DetailIsOfSelection /\ Detail!SelectionIsHeld
  /\ part = "alerts" => Alerts!AcknowledgedOrSaid

(* An activation is offered with its evidence only (SourceSettings).         *)
ReadyIsProven == part = "settings" => Settings!ReadyIsProven
=============================================================================
