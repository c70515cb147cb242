------------------------------ MODULE WebShell ------------------------------
(***************************************************************************)
(* The frame of the web client: the section that is shown and the menus    *)
(* that choose it (App, TopNav), the session (AuthProvider), the gate that *)
(* stands before a section without one (LoginGate) and its check of a      *)
(* human (Turnstile, a service whose tokens are good for one call).  Calls *)
(* to the auth service are answered when the gate may have been edited, or *)
(* left and opened again.                                                  *)
(***************************************************************************)
EXTENDS Naturals

CONSTANTS
  Sections,
  Emails,
  MaxTokens, \* bound of the model: tokens of the service
  MaxLeaves  \* bound of the model: times the section or the session changes

VARIABLES
  section,
  menu,      \* "closed", "mobile" (moreOpen) or "desktop" (menuOpen)
  account,   \* the auth client has a session
  session,   \* useAuth().session
  checking,  \* useAuth().loading, with the answer of getSession to come
  gate,      \* the state of the LoginGate that is mounted
  widget,    \* its Turnstile: "none", "challenge", "solved"; "absent" without a site key
  issued,    \* tokens issued so far: 1..issued
  calls,     \* calls on their way
  spent,     \* how often each token was sent
  leaves

(* The section that the app opens with is one of them.                       *)
SectionsAssumption == "Executive Overview" \in Sections

shellVars == <<section, menu>>
authVars == <<account, session, checking>>
gateVars == <<gate, widget, issued, calls, spent>>
webVars == <<shellVars, authVars, gateVars, leaves>>

Protected == {"AI Copilot"}                         \* AIProtected of App
Gated == Protected \cup
  {"Briefing", "Early Warning", "Daftar Risiko", "Sumber Resmi",
   "Admin EWS", "Admin Evakuasi", "Admin Pengguna"} \* pages with a gate

(* What a section shows; the pages with a gate wait for the session like     *)
(* AIProtected does, except for the briefing.                                *)
PageOf(s, signed, waits) ==
  CASE s \notin Gated -> "page"
    [] s = "Briefing" -> IF signed THEN "page" ELSE "gate"
    [] waits -> "checking"
    [] signed -> "page"
    [] OTHER -> "gate"

GateShown == PageOf(section, session, checking # "done") = "gate"

NoToken == 0
NewGate ==
  [mode |-> "in", email |-> "", busy |-> FALSE, pending |-> FALSE, token |-> NoToken]

Init ==
  /\ section = "Executive Overview" /\ menu = "closed"
  /\ account \in BOOLEAN /\ session = FALSE
  /\ checking = IF account THEN "in" ELSE "out"
  /\ gate = NewGate /\ widget \in {"none", "absent"} /\ issued = 0
  /\ calls = {} /\ spent = [t \in 1..MaxTokens |-> 0] /\ leaves = 0

(* The gate is unmounted: its answers find nobody, its widget is removed.    *)
Unmount ==
  /\ gate' = NewGate /\ widget' = IF widget = "absent" THEN "absent" ELSE "none"
  /\ calls' = {[c EXCEPT !.mine = FALSE] : c \in calls}
  /\ leaves' = leaves + 1
  /\ UNCHANGED <<issued, spent>>
Stay == UNCHANGED <<gateVars, leaves>>

---------------------------------------------------------------------------
(* Sections and menus. *)

OpenMenu(kind) ==
  /\ menu = "closed" /\ menu' = kind
  /\ UNCHANGED <<section, authVars>> /\ Stay

(* Escape, the backdrop or the button. *)
Dismiss ==
  /\ menu # "closed" /\ menu' = "closed"
  /\ UNCHANGED <<section, authVars>> /\ Stay

(* navigate, from a menu, the bar or a notice ("show on the map"); the logo  *)
(* of the bar leaves the menu of the desktop open.                           *)
Navigate(s) ==
  /\ leaves < MaxLeaves
  /\ section' = s
  /\ menu' \in IF s = "Executive Overview" /\ menu = "desktop" THEN {"closed", "desktop"}
              ELSE {"closed"}
  /\ UNCHANGED authVars
  /\ IF s = section THEN Stay ELSE Unmount

---------------------------------------------------------------------------
(* The session. *)

(* Whatever makes the gate of this section appear or vanish mounts it anew.  *)
SessionBecomes(signed, waits) ==
  /\ session' = signed
  /\ IF PageOf(section, signed, waits) = PageOf(section, session, checking # "done")
     THEN Stay ELSE Unmount

(* The answer of getSession, which was asked for when the page was opened:   *)
(* it is the session of that time, whatever has happened since.              *)
FirstSession ==
  /\ checking # "done" /\ checking' = "done"
  /\ SessionBecomes(checking = "in", FALSE)
  /\ UNCHANGED <<shellVars, account>>

(* onAuthStateChange: signed out (here or elsewhere), signed in elsewhere.   *)
AuthEvent(signed) ==
  /\ account # signed /\ leaves < MaxLeaves
  /\ account' = signed
  /\ SessionBecomes(signed, checking # "done")
  /\ UNCHANGED <<shellVars, checking>>

---------------------------------------------------------------------------
(* The check of a human. *)

(* The widget is rendered, as soon as the script of the service has come.    *)
MountWidget ==
  /\ GateShown /\ widget = "none" /\ widget' = "challenge"
  /\ UNCHANGED <<shellVars, authVars, gate, issued, calls, spent, leaves>>

OnVerify ==
  /\ widget = "challenge" /\ issued < MaxTokens
  /\ widget' = "solved" /\ issued' = issued + 1
  /\ gate' = [gate EXCEPT !.token = issued']
  /\ UNCHANGED <<shellVars, authVars, calls, spent, leaves>>

OnExpire ==
  /\ widget = "solved" /\ widget' = "challenge"
  /\ gate' = [gate EXCEPT !.token = NoToken]
  /\ UNCHANGED <<shellVars, authVars, issued, calls, spent, leaves>>

---------------------------------------------------------------------------
(* The gate. *)

Gate(new) ==
  /\ GateShown /\ gate' = new
  /\ UNCHANGED <<shellVars, authVars, widget, issued, calls, spent, leaves>>
EditEmail(e) == gate.email # e /\ Gate([gate EXCEPT !.email = e, !.pending = FALSE])
SwitchMode ==
  Gate([gate EXCEPT !.mode = IF @ = "in" THEN "up" ELSE "in", !.pending = FALSE])

Call(kind, token) ==
  /\ calls' = calls \cup {[kind |-> kind, email |-> gate.email, token |-> token, mine |-> TRUE]}
  /\ gate' = [gate EXCEPT !.busy = TRUE]
  /\ UNCHANGED <<shellVars, authVars, widget, issued, leaves>>

(* submit: the token goes with the call.  A build without a site key renders *)
(* no widget, asks for no token and sends none.                              *)
CanSubmit ==
  ~gate.busy /\ gate.email # "" /\ (widget = "absent" \/ gate.token # NoToken)
Submit ==
  /\ GateShown /\ CanSubmit
  /\ Call(gate.mode, gate.token)
  /\ spent' = [t \in 1..MaxTokens |-> IF t = gate.token THEN spent[t] + 1 ELSE spent[t]]

(* handleResend: only beside the notice of a registration, without a token.  *)
HandleResend ==
  /\ GateShown /\ gate.mode = "up" /\ gate.pending /\ ~gate.busy /\ gate.email # ""
  /\ Call("resend", NoToken)
  /\ UNCHANGED spent

(* The answer.  A call with a token, good or bad, resets the widget and      *)
(* forgets the token; a registration may have to be confirmed.               *)
ResetWidget == IF widget \in {"none", "absent"} THEN widget ELSE "challenge"
\* Mutant: the token is kept for the next call.
AnsweredKeepsToken(c, ok, confirm) ==
  [gate EXCEPT !.busy = FALSE, !.pending = @ \/ (ok /\ c.kind = "up" /\ confirm)]

Answered(c, ok, confirm) ==
  [gate EXCEPT !.busy = FALSE,
               !.token = IF c.kind = "resend" THEN @ ELSE NoToken,
               !.pending = @ \/ (ok /\ c.kind = "up" /\ confirm)]
Answer(c, ok, confirm) ==
  /\ calls' = calls \ {c}
  /\ IF c.mine
     THEN /\ gate' = Answered(c, ok, confirm)
          /\ widget' = IF c.kind = "resend" THEN widget ELSE ResetWidget
     ELSE UNCHANGED <<gate, widget>>
  /\ UNCHANGED <<shellVars, authVars, issued, spent, leaves>>

Next ==
  \/ \E kind \in {"mobile", "desktop"} : OpenMenu(kind)
  \/ Dismiss \/ FirstSession \/ MountWidget \/ OnVerify \/ OnExpire
  \/ SwitchMode \/ Submit \/ HandleResend
  \/ \E s \in Sections : Navigate(s)
  \/ \E signed \in BOOLEAN : AuthEvent(signed)
  \/ \E e \in Emails : EditEmail(e)
  \/ \E c \in calls, ok, confirm \in BOOLEAN : Answer(c, ok, confirm)

Spec == Init /\ [][Next]_webVars

(* ---- Properties ---- *)

(* Type of the state. *)
TypeOK ==
  /\ section \in Sections /\ menu \in {"closed", "mobile", "desktop"}
  /\ checking \in {"in", "out", "done"} /\ widget \in {"none", "absent", "challenge", "solved"}
  /\ gate.token \in 0..issued /\ gate.email \in Emails \cup {""}
  /\ \A c \in calls : c.kind \in {"in", "up", "resend"} /\ c.email \in Emails

(* No token of the check is sent with two calls, although it may expire, be  *)
(* renewed or be reset while a call is on its way.                           *)
TokenUsedOnce == \A t \in 1..issued : spent[t] <= 1

(* A gate is busy exactly while one call of its own is on its way: it is     *)
(* never freed by the answer to a gate that was left, and never stuck.       *)
BusyIsOneCall ==
  LET mine == {c \in calls : c.mine}
  IN /\ gate.busy <=> mine # {}
     /\ \A c, d \in mine : c = d
=============================================================================
